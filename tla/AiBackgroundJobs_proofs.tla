---------------------- MODULE AiBackgroundJobs_proofs ----------------------
(***************************************************************************)
(* Types, and that no result is lost but by a drain with a stale copy, for *)
(* any conversations, histories, sessions and jobs.  ResultsStay needs to  *)
(* know of batches that they are never pending and in delivery at once and *)
(* that a delivery hands over what its batch holds (DrainsOK), whose       *)
(* results they are (BatchesOK), and that results of stopped conversations *)
(* are not wanted (WantedOK).                                              *)
(* ToldOnce holds while all results are of one conversation (OneLauncher): *)
(* then no drain holds a copy of a batch that may still be pending when it *)
(* comes back, and a result is queued, read or in delivery, never two of   *)
(* these (OnceInv).                                                        *)
(***************************************************************************)
EXTENDS AiBackgroundJobs, TLAPS

\* Batches belong to one conversation, and those to come are empty.
BatchesOK ==
  /\ \A b \in Batches : batchJobs[b] \subseteq JobsOf(batchKey[b])
  /\ \A b \in Batches : b > used => batchJobs[b] = {}
  /\ \A k \in Keys : pending[k] # None => pending[k] <= used /\ batchKey[pending[k]] = k

\* What the drain suspended in a history delivers.
DeliveryOK(h) ==
  /\ current[h] \in 1 .. used
  /\ HistoryOf[batchKey[current[h]]] = h
  /\ handed[h] \subseteq batchJobs[current[h]]
  /\ \A k \in Keys : pending[k] # current[h]
  /\ stage[h] = "reply" => \A j \in handed[h] : told[j] >= 1

DrainsOK ==
  /\ delivering = {h \in Histories : stage[h] # "free"}
  /\ rest \subseteq 1 .. used
  /\ \A h \in Histories : left[h] \subseteq 1 .. used
  /\ \A h \in Histories : stage[h] # "free" => DeliveryOK(h)

\* Nothing is wanted in a closed window or by a stopped conversation.
WantedOK ==
  /\ disposed => bound = {} /\ owed = {}
  /\ \A k \in suppressed : owed \cap JobsOf(k) = {}

Inv == TypeOK /\ BatchesOK /\ DrainsOK /\ WantedOK

\* What ResultsStay says of a step.
Stays == \A j \in owed' : (j \in owed => Held(j)) => Held(j)' \/ StaleDelivery

LEMMA NoneIsNoBatch == None \notin Batches /\ None = 0 /\ Batches = {b \in Nat : 1 <= b /\ b <= MaxBatch}
  BY ConstantsAssumption DEF None, Batches

LEMMA InitInv == Init => Inv
<1> SUFFICES ASSUME Init PROVE Inv
  OBVIOUS
<1> DEFINE some == CHOOSE k \in Keys : TRUE
<1>1. some \in Keys /\ batchKey = [b \in Batches |-> some]
  BY ConstantsAssumption DEF Init
<1> HIDE DEF some
<1>2. batchKey \in [Batches -> Keys]
  BY <1>1
<1>3. used \in 0 .. MaxBatch /\ pending \in [Keys -> 0 .. MaxBatch] /\ current \in [Histories -> 0 .. MaxBatch]
  BY ConstantsAssumption DEF Init, None
<1>4. /\ wakes \in [Keys -> 0 .. WakeBudget] /\ reply \in [Histories -> Replies]
      /\ aborted \subseteq Histories
      /\ stage \in [Histories -> Stages]
      /\ job \in [Jobs -> {"idle", "running", "done", "cancelled"}]
      /\ told \in [Jobs -> Nat] /\ batchJobs \in [Batches -> SUBSET Jobs]
      /\ handed \in [Histories -> SUBSET Jobs] /\ left \in [Histories -> SUBSET Batches]
      /\ peeked \in [Histories -> SUBSET Jobs]
  BY DEF Init, Replies, WakeBudget, Stages
<1>5. /\ bound \subseteq Jobs /\ acked \subseteq Jobs /\ suppressed \subseteq Keys
      /\ disposed \in BOOLEAN /\ timer \in BOOLEAN /\ looping \in BOOLEAN
      /\ delivering \subseteq Histories /\ rest \subseteq Batches /\ owed \subseteq Jobs
      /\ connected \subseteq Sessions /\ selected \subseteq Keys
  BY DEF Init
<1>6. TypeOK
  BY <1>2, <1>3, <1>4, <1>5 DEF TypeOK
<1>7. BatchesOK
  <2>1. (\A b \in Batches : batchJobs[b] = {}) /\ \A k \in Keys : pending[k] = None
    BY DEF Init
  <2>2. QED
    BY <2>1 DEF BatchesOK
<1>8. DrainsOK /\ WantedOK
  BY DEF Init, DrainsOK, WantedOK
<1>9. QED
  BY <1>6, <1>7, <1>8 DEF Inv

\* A new result of a conversation that is not stopped joins its batch.
LEMMA QueueInv ==
  ASSUME Inv, NEW j \in Jobs, Queue(j), ~disposed, Conversation[j] \notin suppressed,
         job' \in [Jobs -> {"idle", "running", "done", "cancelled"}],
         bound' \subseteq Jobs, acked' \subseteq Jobs,
         UNCHANGED <<flagVars, drainVars, replyVars, told>>
  PROVE  Inv' /\ Stays
<1> DEFINE k == Conversation[j]
           b == IF pending[k] = None THEN used + 1 ELSE pending[k]
<1> USE DEF Inv, TypeOK, flagVars, drainVars, replyVars
<1>1. k \in Keys /\ b \in Batches /\ b \in 1 .. MaxBatch
  BY ConstantsAssumption DEF Queue, Batches, None
<1>2. /\ used' \in 0 .. MaxBatch /\ used <= used' /\ b <= used'
      /\ pending[k] = None => b = used + 1
      /\ pending[k] # None => b = pending[k] /\ b <= used /\ batchKey[b] = k
  BY <1>1, ConstantsAssumption DEF Queue, BatchesOK, None
<1>3. /\ batchKey' = [batchKey EXCEPT ![b] = k]
      /\ batchJobs' = [batchJobs EXCEPT ![b] = @ \cup {j}]
      /\ pending' = [pending EXCEPT ![k] = b]
      /\ timer' = TRUE /\ owed' = owed \cup {j}
  BY DEF Queue
<1>4. TypeOK'
  <2>1. batchKey' \in [Batches -> Keys] /\ batchJobs' \in [Batches -> SUBSET Jobs]
    BY <1>1, <1>3
  <2>2. pending' \in [Keys -> 0 .. MaxBatch]
    BY <1>1, <1>3, ConstantsAssumption
  <2>3. QED
    BY <2>1, <2>2, <1>2, <1>3
<1>5. BatchesOK'
  <2>1. \A c \in Batches : batchJobs'[c] \subseteq JobsOf(batchKey'[c])
    BY <1>1, <1>2, <1>3 DEF BatchesOK, JobsOf, Batches
  <2>2. \A c \in Batches : c > used' => batchJobs'[c] = {}
    BY <1>1, <1>2, <1>3 DEF BatchesOK, Batches
  <2>3. ASSUME NEW l \in Keys, pending'[l] # None
        PROVE  pending'[l] <= used' /\ batchKey'[pending'[l]] = l
    <3>1. CASE l = k
      BY <3>1, <1>1, <1>2, <1>3
    <3>2. CASE l # k
      <4>1. pending'[l] = pending[l] /\ pending[l] <= used /\ batchKey[pending[l]] = l
        BY <3>2, <2>3, <1>3, <1>1 DEF BatchesOK
      <4>2. pending[l] # b
        BY <4>1, <3>2, <1>2, <1>1
      <4>3. pending[l] \in Batches
        BY <4>1, <2>3 DEF Batches, None
      <4>4. QED
        BY <4>1, <4>2, <4>3, <1>1, <1>2, <1>3
    <3>3. QED
      BY <3>1, <3>2
  <2>4. QED
    BY <2>1, <2>2, <2>3 DEF BatchesOK, JobsOf
<1>6. DrainsOK'
  <2>1. ASSUME NEW h \in Histories, stage[h] # "free"
        PROVE  DeliveryOK(h)'
    <3>1. /\ current[h] \in 1 .. used /\ current[h] \in Batches
          /\ current[h] # b
      BY <2>1, <1>1, <1>2 DEF DrainsOK, DeliveryOK, Batches
    <3>2. batchKey'[current[h]] = batchKey[current[h]] /\ batchJobs'[current[h]] = batchJobs[current[h]]
      BY <3>1, <1>1, <1>3
    <3>3. \A l \in Keys : pending'[l] # current[h]
      BY <2>1, <3>1, <1>1, <1>3 DEF DrainsOK, DeliveryOK
    <3>4. QED
      BY <2>1, <3>1, <3>2, <3>3, <1>2 DEF DrainsOK, DeliveryOK
  <2>2. rest \subseteq 1 .. used' /\ \A h \in Histories : left[h] \subseteq 1 .. used'
    BY <1>2 DEF DrainsOK
  <2>3. QED
    BY <2>1, <2>2 DEF DrainsOK
<1>7. WantedOK'
  BY <1>3 DEF WantedOK, JobsOf
<1>8. ASSUME NEW i \in owed', i \in owed => Held(i)
      PROVE  Held(i)'
  <2>1. CASE i = j
    BY <2>1, <1>1, <1>3, NoneIsNoBatch DEF Held
  <2>2. CASE i \in owed
    <3>1. CASE \E l \in Keys : pending[l] # None /\ i \in batchJobs[pending[l]]
      <4>1. PICK l \in Keys : pending[l] # None /\ i \in batchJobs[pending[l]]
        BY <3>1
      <4>2. pending'[l] = pending[l] \/ (l = k /\ pending[k] = None)
        BY <1>2, <1>3, <1>1
      <4>3. pending'[l] = pending[l] /\ pending[l] \in Batches
        BY <4>1, <4>2 DEF Batches, None
      <4>4. batchJobs[pending[l]] \subseteq batchJobs'[pending[l]]
        BY <4>3, <1>1, <1>3
      <4>5. QED
        BY <4>1, <4>3, <4>4 DEF Held
    <3>2. CASE \E h \in Histories : stage[h] \in {"reading", "starting"} /\ i \in handed[h]
      BY <3>2 DEF Held
    <3>3. QED
      BY <2>2, <1>8, <3>1, <3>2 DEF Held
  <2>3. QED
    BY <2>1, <2>2, <1>3
<1>9. QED
  BY <1>4, <1>5, <1>6, <1>7, <1>8 DEF Stays

\* Results leave their batch, and nobody wants them any more.
LEMMA CollectedInv ==
  ASSUME Inv, NEW k \in Keys, NEW S \in SUBSET Jobs, Collected(k, S),
         told' \in [Jobs -> Nat], \A j \in Jobs : told'[j] >= told[j],
         peeked' \in [Histories -> SUBSET Jobs],
         UNCHANGED <<job, acked, used, batchKey, flagVars, drainVars, reply, aborted, timer>>
  PROVE  Inv' /\ Stays
<1> USE DEF Inv, TypeOK, flagVars, drainVars
<1>1. /\ batchJobs' \in [Batches -> SUBSET Jobs]
      /\ \A b \in Batches : batchJobs'[b] \subseteq batchJobs[b]
      /\ \A b \in Batches : b # pending[k] => batchJobs'[b] = batchJobs[b]
      /\ pending' \in [Keys -> 0 .. MaxBatch]
      /\ \A l \in Keys : pending'[l] \in {pending[l], None}
  <2>1. CASE pending[k] = None
    BY <2>1, ConstantsAssumption DEF Collected
  <2>2. CASE pending[k] # None
    <3>1. pending[k] \in Batches /\ None \in 0 .. MaxBatch
      BY <2>2, ConstantsAssumption DEF Batches, None
    <3>2. /\ batchJobs' = [batchJobs EXCEPT ![pending[k]] = @ \ S]
          /\ pending' \in {[pending EXCEPT ![k] = None], pending}
      BY <2>2 DEF Collected
    <3>3. QED
      BY <3>1, <3>2
  <2>3. QED
    BY <2>1, <2>2
<1>2. bound' = bound \ S /\ owed' = owed \ S
  BY DEF Collected
<1>3. TypeOK'
  BY <1>1, <1>2
<1>4. BatchesOK'
  BY <1>1 DEF BatchesOK, JobsOf
<1>5. DrainsOK'
  <2>1. ASSUME NEW h \in Histories, stage[h] # "free"
        PROVE  DeliveryOK(h)'
    <3>1. current[h] \in Batches /\ current[h] # pending[k] /\ current[h] # None
      BY <2>1 DEF DrainsOK, DeliveryOK, Batches, None
    <3>2. QED
      BY <2>1, <3>1, <1>1 DEF DrainsOK, DeliveryOK
  <2>2. QED
    BY <2>1 DEF DrainsOK
<1>6. WantedOK'
  BY <1>2 DEF WantedOK, JobsOf
<1>7. ASSUME NEW i \in owed', i \in owed => Held(i)
      PROVE  Held(i)'
  <2>1. i \in owed /\ i \notin S
    BY <1>2
  <2>2. CASE \E l \in Keys : pending[l] # None /\ i \in batchJobs[pending[l]]
    <3>1. PICK l \in Keys : pending[l] # None /\ i \in batchJobs[pending[l]]
      BY <2>2
    <3>2. pending[k] # None =>
            /\ batchJobs' = [batchJobs EXCEPT ![pending[k]] = @ \ S]
            /\ pending' = IF batchJobs[pending[k]] \subseteq S
                          THEN [pending EXCEPT ![k] = None] ELSE pending
      BY DEF Collected
    <3>3. pending[l] \in Batches
      BY <3>1 DEF Batches, None
    <3>4. pending'[l] = pending[l] /\ i \in batchJobs'[pending[l]]
      <4>1. CASE pending[k] = None
        BY <4>1, <3>1 DEF Collected
      <4>2. CASE pending[k] # None
        BY <4>2, <3>1, <3>2, <3>3, <2>1
      <4>3. QED
        BY <4>1, <4>2
    <3>5. QED
      BY <3>1, <3>4 DEF Held
  <2>3. CASE \E h \in Histories : stage[h] \in {"reading", "starting"} /\ i \in handed[h]
    BY <2>3 DEF Held
  <2>4. QED
    BY <2>1, <1>7, <2>2, <2>3 DEF Held
<1>8. QED
  BY <1>3, <1>4, <1>5, <1>6, <1>7 DEF Stays

\* What a delivery hands over belongs to conversations of its history.
LEMMA HandedHere ==
  ASSUME Inv, NEW h \in Histories, stage[h] # "free", NEW j \in handed[h]
  PROVE  j \in Jobs /\ HistoryOf[Conversation[j]] = h /\ Conversation[j] = batchKey[current[h]]
<1>1. DeliveryOK(h) /\ current[h] \in Batches
  BY DEF Inv, DrainsOK, DeliveryOK, TypeOK, Batches
<1>2. QED
  BY <1>1 DEF Inv, TypeOK, BatchesOK, DeliveryOK, JobsOf

\* The batch of a delivery goes back, together with what has settled since.
LEMMA RequeueInv ==
  ASSUME Inv, NEW h \in Histories, stage[h] # "free",
         Requeue(batchKey[current[h]], current[h])
  PROVE  /\ batchJobs' \in [Batches -> SUBSET Jobs]
         /\ pending' \in [Keys -> 0 .. MaxBatch]
         /\ \A b \in Batches : batchJobs[b] \subseteq batchJobs'[b]
         /\ \A b \in Batches : b # current[h] => batchJobs'[b] = batchJobs[b]
         /\ batchJobs'[current[h]] \subseteq JobsOf(batchKey[current[h]])
         /\ \A k \in Keys : \/ pending'[k] = pending[k]
                            \/ pending'[k] = current[h] /\ k = batchKey[current[h]]
         /\ \A k \in Keys, j \in Jobs :
              pending[k] # None /\ j \in batchJobs[pending[k]] =>
              pending'[k] # None /\ j \in batchJobs'[pending'[k]]
         /\ ~disposed /\ batchKey[current[h]] \notin suppressed =>
              pending'[batchKey[current[h]]] = current[h]
<1> DEFINE b == current[h]
           k == batchKey[b]
<1> USE DEF Inv, TypeOK
<1>1. b \in Batches /\ b \in 1 .. used /\ b # None /\ b \in 0 .. MaxBatch /\ k \in Keys
  BY DEF DrainsOK, DeliveryOK, Batches, None
<1>2. CASE disposed \/ k \in suppressed
  <2>1. UNCHANGED <<batchJobs, pending>>
    BY <1>2 DEF Requeue
  <2>2. QED
    BY <2>1, <1>1, <1>2 DEF BatchesOK
<1>3. CASE ~(disposed \/ k \in suppressed) /\ pending[k] = None
  <2>1. batchJobs' = batchJobs /\ pending' = [pending EXCEPT ![k] = b]
    BY <1>3 DEF Requeue
  <2>2. QED
    BY <2>1, <1>1, <1>3 DEF BatchesOK
<1>4. CASE ~(disposed \/ k \in suppressed) /\ pending[k] # None
  <2>1. /\ batchJobs' = [batchJobs EXCEPT ![b] = @ \cup batchJobs[pending[k]]]
        /\ pending' = [pending EXCEPT ![k] = b]
    BY <1>4 DEF Requeue
  <2>2. pending[k] \in Batches /\ batchKey[pending[k]] = k
    BY <1>4, <1>1 DEF BatchesOK, Batches, None
  <2>3. batchJobs[b] \subseteq JobsOf(k) /\ batchJobs[pending[k]] \subseteq JobsOf(k)
    BY <2>2, <1>1 DEF BatchesOK
  <2>4. QED
    BY <2>1, <2>2, <2>3, <1>1, <1>4
<1>5. QED
  BY <1>2, <1>3, <1>4

\* A drain takes up its loop again: the history is free.
LEMMA ResumesInv ==
  ASSUME Inv, NEW h \in Histories, stage[h] # "free", Resumes(h),
         \/ UNCHANGED <<batchJobs, pending>>
         \/ Requeue(batchKey[current[h]], current[h]),
         told' \in [Jobs -> Nat], \A j \in Jobs \ handed[h] : told'[j] = told[j],
         owed' \subseteq Jobs, wakes' \in [Keys -> 0 .. WakeBudget],
         reply' \in [Histories -> Replies], peeked' \in [Histories -> SUBSET Jobs],
         aborted' \subseteq Histories, timer' \in BOOLEAN,
         UNCHANGED <<jobVars, used, batchKey, suppressed, disposed, connected, selected>>
  PROVE  TypeOK' /\ BatchesOK' /\ DrainsOK'
<1> DEFINE b == current[h]
<1> USE DEF Inv, TypeOK, jobVars
<1>1. b \in Batches /\ b \in 1 .. used /\ DeliveryOK(h)
  BY DEF DrainsOK, DeliveryOK, Batches
<1>2. /\ batchJobs' \in [Batches -> SUBSET Jobs]
      /\ pending' \in [Keys -> 0 .. MaxBatch]
      /\ \A c \in Batches : batchJobs[c] \subseteq batchJobs'[c]
      /\ \A c \in Batches : c # b => batchJobs'[c] = batchJobs[c]
      /\ batchJobs'[b] \subseteq JobsOf(batchKey[b])
      /\ \A k \in Keys : pending'[k] = pending[k] \/ (pending'[k] = b /\ k = batchKey[b])
  BY RequeueInv, <1>1 DEF BatchesOK
<1>3. /\ looping' = TRUE /\ rest' = left[h]
      /\ delivering' = delivering \ {h}
      /\ stage' = [stage EXCEPT ![h] = "free"]
      /\ current' = [current EXCEPT ![h] = None]
      /\ handed' = [handed EXCEPT ![h] = {}]
      /\ left' = [left EXCEPT ![h] = {}]
  BY DEF Resumes
<1>4. TypeOK'
  <2>1. /\ stage' \in [Histories -> Stages]
        /\ current' \in [Histories -> 0 .. MaxBatch]
        /\ handed' \in [Histories -> SUBSET Jobs]
        /\ left' \in [Histories -> SUBSET Batches]
        /\ rest' \subseteq Batches /\ delivering' \subseteq Histories
    BY <1>3, ConstantsAssumption DEF None, Stages
  <2>2. QED
    BY <2>1, <1>2, <1>3
<1>5. BatchesOK'
  <2>1. \A c \in Batches : batchJobs'[c] \subseteq JobsOf(batchKey'[c])
    BY <1>2 DEF BatchesOK
  <2>2. \A c \in Batches : c > used' => batchJobs'[c] = {}
    BY <1>1, <1>2 DEF BatchesOK
  <2>3. \A k \in Keys : pending'[k] # None => pending'[k] <= used' /\ batchKey'[pending'[k]] = k
    BY <1>1, <1>2 DEF BatchesOK
  <2>4. QED
    BY <2>1, <2>2, <2>3 DEF BatchesOK, JobsOf
<1>6. DrainsOK'
  <2>1. ASSUME NEW g \in Histories, stage'[g] # "free"
        PROVE  DeliveryOK(g)'
    <3>1. /\ g # h /\ stage[g] # "free" /\ stage'[g] = stage[g]
          /\ current'[g] = current[g] /\ handed'[g] = handed[g]
      BY <2>1, <1>3
    <3>2. DeliveryOK(g) /\ current[g] \in Batches /\ current[g] # b
      BY <3>1, <1>1 DEF DrainsOK, DeliveryOK, Batches
    <3>3. \A k \in Keys : pending'[k] # current[g]
      BY <3>2, <1>2 DEF DeliveryOK
    <3>4. \A j \in handed[g] : j \notin handed[h] /\ told'[j] = told[j]
      BY <3>1, HandedHere
    <3>5. QED
      BY <3>1, <3>2, <3>3, <3>4, <1>2 DEF DeliveryOK
  <2>2. /\ rest' \subseteq 1 .. used' /\ \A g \in Histories : left'[g] \subseteq 1 .. used'
        /\ delivering' = {g \in Histories : stage'[g] # "free"}
    BY <1>3 DEF DrainsOK
  <2>3. QED
    BY <2>1, <2>2 DEF DrainsOK
<1>7. QED
  BY <1>4, <1>5, <1>6

\* What is put back stays held, and so does everything else.
LEMMA ResumesStays ==
  ASSUME Inv, NEW h \in Histories, stage[h] # "free", Resumes(h),
         Requeue(batchKey[current[h]], current[h]), WantedOK',
         suppressed' = suppressed, disposed' = disposed, owed' \subseteq Jobs,
         \A j \in owed' : j \in owed \/ j \in handed[h]
  PROVE  Stays
<1> DEFINE b == current[h]
           k == batchKey[b]
<1>1. b \in Batches /\ b # None /\ k \in Keys /\ DeliveryOK(h)
  BY DEF Inv, TypeOK, DrainsOK, DeliveryOK, Batches, None
<1>2. ASSUME NEW j \in owed', j \in handed[h]
      PROVE  Held(j)'
  <2>1. Conversation[j] = k /\ j \in JobsOf(k)
    BY <1>2, HandedHere DEF JobsOf
  <2>2. ~disposed /\ k \notin suppressed
    BY <2>1, <1>2, <1>1 DEF WantedOK, JobsOf
  <2>3. pending'[k] = b /\ j \in batchJobs'[b]
    BY <2>2, <1>1, <1>2, RequeueInv DEF DeliveryOK
  <2>4. QED
    BY <2>3, <1>1 DEF Held
<1>3. ASSUME NEW j \in owed', j \notin handed[h], Held(j)
      PROVE  Held(j)'
  <2>1. CASE \E l \in Keys : pending[l] # None /\ j \in batchJobs[pending[l]]
    BY <2>1, RequeueInv DEF Held
  <2>2. CASE \E g \in Histories : stage[g] \in {"reading", "starting"} /\ j \in handed[g]
    BY <2>2, <1>3 DEF Held, Resumes, Inv, TypeOK
  <2>3. QED
    BY <1>3, <2>1, <2>2 DEF Held
<1>4. QED
  BY <1>2, <1>3 DEF Stays

\* A background reply begins: the results of the delivery stay in it.
LEMMA BackgroundReplyInv ==
  ASSUME Inv, NEW h \in Histories, BackgroundReply(h)
  PROVE  Inv' /\ Stays
<1> DEFINE k == batchKey[current[h]]
<1> USE DEF Inv, TypeOK, BackgroundReply, jobVars, batchVars, flagVars
<1>1. stage[h] = "reading" /\ DeliveryOK(h) /\ k \in Keys
  BY DEF DrainsOK, DeliveryOK, Batches
<1>2. /\ stage' \in [Histories -> Stages]
      /\ reply' \in [Histories -> Replies]
  BY <1>1 DEF Replies, Stages
<1>3. TypeOK'
  BY <1>2
<1>4. BatchesOK'
  BY DEF BatchesOK, JobsOf
<1>5. DrainsOK'
  <2>1. \A g \in Histories : /\ stage'[g] # "free" <=> stage[g] # "free"
                            /\ stage'[g] = "reply" <=> stage[g] = "reply"
    BY <1>1
  <2>2. \A g \in Histories : stage'[g] # "free" => DeliveryOK(g)'
    BY <2>1 DEF DrainsOK, DeliveryOK
  <2>3. QED
    BY <2>1, <2>2 DEF DrainsOK
<1>6. WantedOK'
  BY DEF WantedOK, JobsOf
<1>7. Stays
  BY <1>1 DEF Stays, Held
<1>8. QED
  BY <1>3, <1>4, <1>5, <1>6, <1>7

\* The model is asked about the results of the delivery.
LEMMA ModelAskedInv ==
  ASSUME Inv, NEW h \in Histories, ModelAsked(h)
  PROVE  Inv' /\ Stays
<1> USE DEF Inv, TypeOK, ModelAsked, jobVars, batchVars, flagVars, replyVars
<1>1. stage[h] = "starting" /\ DeliveryOK(h)
  BY DEF DrainsOK
<1>2. /\ told' \in [Jobs -> Nat] /\ \A j \in Jobs : told'[j] >= told[j]
      /\ \A j \in handed[h] : told'[j] >= 1
  BY DEF Bump
<1>3. stage' \in [Histories -> Stages]
  BY <1>1 DEF Stages
<1>4. TypeOK'
  BY <1>2, <1>3
<1>5. BatchesOK'
  BY DEF BatchesOK, JobsOf
<1>6. DrainsOK'
  <2>1. ASSUME NEW g \in Histories, stage'[g] # "free"
        PROVE  DeliveryOK(g)'
    <3>1. stage[g] # "free" /\ DeliveryOK(g)
      BY <2>1, <1>1 DEF DrainsOK
    <3>2. stage'[g] = "reply" => \A j \in handed[g] : told'[j] >= 1
      <4>1. CASE g = h
        BY <4>1, <1>2
      <4>2. CASE g # h
        BY <4>2, <3>1, <1>2 DEF DeliveryOK
      <4>3. QED
        BY <4>1, <4>2
    <3>3. QED
      BY <3>1, <3>2 DEF DeliveryOK
  <2>2. delivering' = {g \in Histories : stage'[g] # "free"}
    BY <1>1 DEF DrainsOK
  <2>3. QED
    BY <2>1, <2>2 DEF DrainsOK
<1>7. WantedOK'
  BY DEF WantedOK, JobsOf
<1>8. Stays
  BY <1>1 DEF Stays, Held
<1>9. QED
  BY <1>4, <1>5, <1>6, <1>7, <1>8

\* The delivery is refused or fails, or its reply ends: the drain goes on.
LEMMA DeliveryEndsInv ==
  ASSUME Inv, NEW h \in Histories,
         \/ DeliveryRefused(h) \/ DeliveryFails(h)
         \/ StartFails(h) \/ ReplyNotAsked(h) \/ BackgroundReplyEnds(h)
  PROVE  Inv' /\ Stays
<1> DEFINE k == batchKey[current[h]]
<1> USE DEF jobVars, batchVars, flagVars, replyVars
<1>0. ReplyOver(h) => /\ reply' \in [Histories -> Replies]
                      /\ peeked' \in [Histories -> SUBSET Jobs]
                      /\ aborted' \subseteq Histories /\ timer' \in BOOLEAN
  BY DEF ReplyOver, Inv, TypeOK, Replies
<1>1. stage[h] # "free" => k \in Keys /\ DeliveryOK(h)
  BY DEF Inv, TypeOK, DrainsOK, DeliveryOK, Batches
<1>2. CASE DeliveryRefused(h)
  <2>1. /\ stage[h] # "free" /\ Resumes(h) /\ Requeue(k, current[h])
        /\ UNCHANGED <<jobVars, used, batchKey, suppressed, disposed, connected, selected>>
        /\ UNCHANGED <<reply, aborted, peeked, timer, told, owed>>
    BY <1>2 DEF DeliveryRefused
  <2>2. wakes' \in [Keys -> 0 .. WakeBudget]
    <3>1. k \in Keys /\ wakes \in [Keys -> 0 .. WakeBudget]
      BY <2>1, <1>1 DEF Inv, TypeOK
    <3>2. wakes' = [wakes EXCEPT ![k] = IF @ = 0 THEN 0 ELSE @ - 1]
      BY <1>2 DEF DeliveryRefused
    <3>3. \A n \in 0 .. WakeBudget : (IF n = 0 THEN 0 ELSE n - 1) \in 0 .. WakeBudget
      BY DEF WakeBudget
    <3>4. QED
      BY <3>1, <3>2, <3>3
  <2>3. TypeOK' /\ BatchesOK' /\ DrainsOK'
    BY <2>1, <2>2, ResumesInv DEF Inv, TypeOK
  <2>4. WantedOK'
    BY <2>1 DEF Inv, WantedOK, JobsOf
  <2>5. Stays
    BY <2>1, <2>4, ResumesStays DEF Inv, TypeOK
  <2>6. QED
    BY <2>3, <2>4, <2>5 DEF Inv
<1>3. CASE DeliveryFails(h)
  <2>1. /\ stage[h] # "free" /\ Resumes(h) /\ Requeue(k, current[h])
        /\ UNCHANGED <<jobVars, used, batchKey, suppressed, disposed, connected, selected>>
        /\ UNCHANGED <<wakes, reply, aborted, peeked, timer, told, owed>>
    BY <1>3 DEF DeliveryFails
  <2>2. TypeOK' /\ BatchesOK' /\ DrainsOK'
    BY <2>1, ResumesInv DEF Inv, TypeOK
  <2>3. WantedOK'
    BY <2>1 DEF Inv, WantedOK, JobsOf
  <2>4. Stays
    BY <2>1, <2>3, ResumesStays DEF Inv, TypeOK
  <2>5. QED
    BY <2>2, <2>3, <2>4 DEF Inv
<1>4. CASE BackgroundReplyEnds(h)
  <2>1. /\ stage[h] = "reply" /\ Resumes(h) /\ timer' = TRUE
        /\ UNCHANGED <<jobVars, used, batchKey, suppressed, disposed, connected, selected>>
        /\ UNCHANGED wakes
    BY <1>4 DEF BackgroundReplyEnds, ReplyOver
  <2>2. /\ reply' \in [Histories -> Replies] /\ peeked' \in [Histories -> SUBSET Jobs]
        /\ aborted' \subseteq Histories
    BY <1>4, <1>0 DEF BackgroundReplyEnds
  <2>3. CASE UNCHANGED <<batchJobs, pending, told, owed>>
    <3>1. TypeOK' /\ BatchesOK' /\ DrainsOK'
      BY <2>1, <2>2, <2>3, ResumesInv DEF Inv, TypeOK
    <3>2. WantedOK'
      BY <2>1, <2>3 DEF Inv, WantedOK, JobsOf
    <3>3. Stays
      BY <2>1, <2>3 DEF Stays, Held, Resumes, Inv, TypeOK
    <3>4. QED
      BY <3>1, <3>2, <3>3 DEF Inv
  <2>4. CASE /\ Requeue(k, current[h])
             /\ told' = [j \in Jobs |-> IF j \in handed[h] THEN told[j] - 1 ELSE told[j]]
             /\ owed' = IF disposed \/ k \in suppressed THEN owed ELSE owed \cup handed[h]
    <3>1. /\ told' \in [Jobs -> Nat]
          /\ \A j \in Jobs \ handed[h] : told'[j] = told[j]
      BY <2>1, <2>4, <1>1 DEF DeliveryOK, Inv, TypeOK
    <3>2. owed' \subseteq Jobs /\ \A j \in owed' : j \in owed \/ j \in handed[h]
      BY <2>4 DEF Inv, TypeOK
    <3>3. TypeOK' /\ BatchesOK' /\ DrainsOK'
      BY <2>1, <2>2, <2>4, <3>1, <3>2, ResumesInv DEF Inv, TypeOK
    <3>4. WantedOK'
      BY <2>1, <2>4, HandedHere DEF Inv, WantedOK, JobsOf
    <3>5. Stays
      BY <2>1, <2>4, <3>2, <3>4, ResumesStays
    <3>6. QED
      BY <3>3, <3>4, <3>5 DEF Inv
  <2>5. QED
    BY <1>4, <2>3, <2>4 DEF BackgroundReplyEnds
<1>5. CASE StartFails(h)
  <2>1. /\ stage[h] # "free" /\ Resumes(h) /\ Requeue(k, current[h]) /\ ReplyOver(h)
        /\ UNCHANGED <<jobVars, used, batchKey, suppressed, disposed, connected, selected>>
        /\ UNCHANGED <<wakes, told, owed>>
    BY <1>5 DEF StartFails
  <2>2. TypeOK' /\ BatchesOK' /\ DrainsOK'
    BY <1>0, <2>1, ResumesInv DEF Inv, TypeOK
  <2>3. WantedOK'
    BY <2>1 DEF Inv, WantedOK, JobsOf
  <2>4. Stays
    BY <2>1, <2>3, ResumesStays DEF Inv, TypeOK
  <2>5. QED
    BY <2>2, <2>3, <2>4 DEF Inv
<1>6. CASE ReplyNotAsked(h)
  <2>1. /\ stage[h] # "free" /\ Resumes(h) /\ ReplyOver(h)
        /\ told' = Bump(handed[h]) /\ owed' = owed \ handed[h]
        /\ UNCHANGED <<jobVars, batchVars, suppressed, disposed, connected, selected>>
        /\ UNCHANGED wakes
    BY <1>6 DEF ReplyNotAsked
  <2>2. /\ told' \in [Jobs -> Nat] /\ owed' \subseteq Jobs
        /\ \A j \in Jobs \ handed[h] : told'[j] = told[j]
    BY <2>1 DEF Bump, Inv, TypeOK
  <2>3. TypeOK' /\ BatchesOK' /\ DrainsOK'
    BY <1>0, <2>1, <2>2, ResumesInv DEF Inv, TypeOK
  <2>4. WantedOK'
    BY <2>1 DEF Inv, WantedOK, JobsOf
  <2>5. Stays
    BY <2>1 DEF Stays, Held, Resumes, Inv, TypeOK
  <2>6. QED
    BY <2>3, <2>4, <2>5 DEF Inv
<1>7. QED
  BY <1>2, <1>3, <1>4, <1>5, <1>6

\* A drain copies a batch into a delivery; if it is still the pending one
\* nothing is lost.
LEMMA DeliverInv ==
  ASSUME Inv, NEW b \in rest, Deliver(b)
  PROVE  Inv' /\ Stays
<1> DEFINE k == batchKey[b]
           h == HistoryOf[k]
<1> USE DEF Inv, TypeOK, jobVars, replyVars
<1>1. /\ b \in Batches /\ b \in 1 .. used /\ k \in Keys /\ h \in Histories /\ b # None
      /\ stage[h] = "free" /\ b \in 0 .. MaxBatch
  <2>1. b \in Batches /\ b \in 1 .. used /\ b # None /\ b \in 0 .. MaxBatch
    BY DEF DrainsOK, Batches, None
  <2>2. k \in Keys /\ h \in Histories
    BY <2>1, ConstantsAssumption
  <2>3. h \notin delivering
    BY DEF Deliver, Deliverable
  <2>4. QED
    BY <2>1, <2>2, <2>3 DEF DrainsOK
<1>2. /\ looping' = FALSE /\ rest' = {}
      /\ pending' = [pending EXCEPT ![k] = None]
      /\ wakes' = [wakes EXCEPT ![k] = @ + 1] /\ wakes[k] < WakeBudget
      /\ delivering' = delivering \cup {h}
      /\ stage' = [stage EXCEPT ![h] = "reading"]
      /\ current' = [current EXCEPT ![h] = b]
      /\ handed' = [handed EXCEPT ![h] = batchJobs[b]]
      /\ left' = [left EXCEPT ![h] = rest \ {b}]
      /\ UNCHANGED <<jobVars, used, batchKey, batchJobs, suppressed, disposed, connected,
                     selected, replyVars, timer, told, owed>>
  BY DEF Deliver, Deliverable, WithinBudget, Cleared
<1>3. TypeOK'
  <2>1. wakes' \in [Keys -> 0 .. WakeBudget]
    <3>1. \A n \in 0 .. WakeBudget : n < WakeBudget => n + 1 \in 0 .. WakeBudget
      BY DEF WakeBudget
    <3>2. QED
      BY <1>1, <1>2, <3>1
  <2>2. /\ pending' \in [Keys -> 0 .. MaxBatch]
        /\ current' \in [Histories -> 0 .. MaxBatch]
    BY <1>1, <1>2, ConstantsAssumption DEF None
  <2>3. /\ stage' \in [Histories -> Stages]
        /\ handed' \in [Histories -> SUBSET Jobs]
        /\ left' \in [Histories -> SUBSET Batches]
        /\ delivering' \subseteq Histories
    BY <1>1, <1>2 DEF Stages
  <2>4. QED
    BY <1>2, <2>1, <2>2, <2>3
<1>4. BatchesOK'
  BY <1>1, <1>2 DEF BatchesOK, JobsOf
<1>5. DrainsOK'
  <2>1. ASSUME NEW g \in Histories, stage'[g] # "free"
        PROVE  DeliveryOK(g)'
    <3>1. \A l \in Keys : pending'[l] # None => l # k /\ pending'[l] = pending[l]
      BY <1>1, <1>2
    <3>2. CASE g = h
      <4>1. \A l \in Keys : pending'[l] # b
        BY <3>1, <1>1 DEF BatchesOK
      <4>2. QED
        BY <3>2, <4>1, <1>1, <1>2 DEF DeliveryOK
    <3>3. CASE g # h
      <4>1. DeliveryOK(g) /\ stage[g] # "free" /\ current[g] # None
        BY <3>3, <2>1, <1>1, <1>2 DEF DrainsOK, DeliveryOK, None
      <4>2. \A l \in Keys : pending'[l] # current[g]
        BY <3>1, <4>1 DEF DeliveryOK
      <4>3. QED
        BY <3>3, <4>1, <4>2, <1>1, <1>2 DEF DeliveryOK
    <3>4. QED
      BY <3>2, <3>3
  <2>2. /\ delivering' = {g \in Histories : stage'[g] # "free"}
        /\ \A g \in Histories : left'[g] \subseteq 1 .. used'
    BY <1>1, <1>2 DEF DrainsOK
  <2>3. QED
    BY <2>1, <2>2, <1>2 DEF DrainsOK
<1>6. WantedOK'
  BY <1>2 DEF WantedOK, JobsOf
<1>7. ASSUME NEW j \in owed', j \in owed => Held(j), ~StaleDelivery
      PROVE  Held(j)'
  <2>1. pending[k] \in {b, None}
    BY <1>7 DEF StaleDelivery
  <2>2. CASE \E l \in Keys : pending[l] # None /\ j \in batchJobs[pending[l]]
    <3>1. PICK l \in Keys : pending[l] # None /\ j \in batchJobs[pending[l]]
      BY <2>2
    <3>2. CASE l = k
      BY <3>1, <3>2, <2>1, <1>1, <1>2 DEF Held
    <3>3. CASE l # k
      BY <3>1, <3>3, <1>1, <1>2 DEF Held
    <3>4. QED
      BY <3>2, <3>3
  <2>3. CASE \E g \in Histories : stage[g] \in {"reading", "starting"} /\ j \in handed[g]
    BY <2>3, <1>1, <1>2 DEF Held
  <2>4. QED
    BY <1>2, <1>7, <2>2, <2>3 DEF Held
<1>8. QED
  BY <1>3, <1>4, <1>5, <1>6, <1>7 DEF Stays

\* The steps that only take results away from conversations that do not
\* want them.
LEMMA DroppedInv ==
  ASSUME Inv, NEW S \in SUBSET Keys,
         pending' \in [Keys -> 0 .. MaxBatch],
         \A k \in Keys : pending'[k] = pending[k] \/ (k \in S /\ pending'[k] = None),
         owed' \subseteq owed, \A j \in owed' : Conversation[j] \notin S,
         bound' \subseteq bound, disposed' \in BOOLEAN,
         disposed' => disposed \/ (S = Keys /\ bound' = {}),
         suppressed' \subseteq Keys, suppressed' \subseteq suppressed \cup S,
         peeked' \in [Histories -> SUBSET Jobs], rest' \subseteq rest,
         aborted' \subseteq Histories,
         UNCHANGED <<job, acked, used, batchKey, batchJobs, wakes, connected, selected,
                     delivering, looping, stage, handed, current, left, reply, timer, told>>
  PROVE  Inv' /\ Stays
<1> USE DEF Inv, TypeOK
<1>1. TypeOK'
  OBVIOUS
<1>2. BatchesOK'
  BY DEF BatchesOK, JobsOf
<1>3. DrainsOK'
  <2>1. ASSUME NEW g \in Histories, stage'[g] # "free"
        PROVE  DeliveryOK(g)'
    BY <2>1 DEF DrainsOK, DeliveryOK, None
  <2>2. QED
    BY <2>1 DEF DrainsOK
<1>4. WantedOK'
  BY ConstantsAssumption DEF WantedOK, JobsOf
<1>5. ASSUME NEW j \in owed', j \in owed => Held(j)
      PROVE  Held(j)'
  <2>1. CASE \E l \in Keys : pending[l] # None /\ j \in batchJobs[pending[l]]
    <3>1. PICK l \in Keys : pending[l] # None /\ j \in batchJobs[pending[l]]
      BY <2>1
    <3>2. l = Conversation[j]
      BY <3>1 DEF BatchesOK, JobsOf, Batches, None
    <3>3. QED
      BY <3>1, <3>2 DEF Held
  <2>2. CASE \E g \in Histories : stage[g] \in {"reading", "starting"} /\ j \in handed[g]
    BY <2>2 DEF Held
  <2>3. QED
    BY <1>5, <2>1, <2>2 DEF Held
<1>6. QED
  BY <1>1, <1>2, <1>3, <1>4, <1>5 DEF Stays

\* The steps that touch neither batches nor deliveries.
LEMMA ElsewhereInv ==
  ASSUME Inv,
         UNCHANGED <<batchVars, disposed, delivering, stage, handed, current, left, told, owed>>,
         suppressed' \subseteq suppressed, rest' \subseteq 1 .. used,
         bound' \subseteq Jobs, disposed => bound' = {}, acked' \subseteq Jobs,
         job' \in [Jobs -> {"idle", "running", "done", "cancelled"}],
         wakes' \in [Keys -> 0 .. WakeBudget],
         timer' \in BOOLEAN, looping' \in BOOLEAN,
         reply' \in [Histories -> Replies], peeked' \in [Histories -> SUBSET Jobs],
         aborted' \subseteq Histories,
         connected' \subseteq Sessions, selected' \subseteq Keys
  PROVE  Inv' /\ Stays
<1> USE DEF Inv, TypeOK, batchVars
<1>1. rest' \subseteq Batches
  <2>1. used \in 0 .. MaxBatch
    OBVIOUS
  <2>2. \A n \in 1 .. used : n \in Batches
    BY <2>1, ConstantsAssumption DEF Batches
  <2>3. QED
    BY <2>2
<1>2. TypeOK'
  BY <1>1
<1>3. BatchesOK'
  BY DEF BatchesOK, JobsOf
<1>4. DrainsOK'
  BY DEF DrainsOK, DeliveryOK
<1>5. WantedOK'
  BY DEF WantedOK, JobsOf
<1>6. Stays
  BY DEF Stays, Held
<1>7. QED
  BY <1>2, <1>3, <1>4, <1>5, <1>6

LEMMA JobSteps ==
  ASSUME Inv, NEW j \in Jobs, Launch(j) \/ Bind(j) \/ JobEnds(j) \/ Collect(j)
  PROVE  Inv' /\ Stays
<1> DEFINE k == Conversation[j]
<1> USE DEF Inv, TypeOK, jobVars, batchVars, flagVars, drainVars, replyVars
<1>1. k \in Keys /\ rest \subseteq 1 .. used /\ (disposed => bound = {})
  BY ConstantsAssumption DEF DrainsOK, WantedOK
<1>2. CASE Launch(j)
  <2>1. job' \in [Jobs -> {"idle", "running", "done", "cancelled"}]
    BY <1>2 DEF Launch
  <2>2. QED
    BY <1>1, <1>2, <2>1, ElsewhereInv DEF Launch
<1>3. CASE Bind(j)
  <2>1. /\ acked' \subseteq Jobs
        /\ UNCHANGED <<job, flagVars, drainVars, replyVars, told>>
    BY <1>3 DEF Bind
  <2>2. CASE UNCHANGED <<batchVars, timer, owed>> /\ (bound' = bound \/ (~disposed /\ bound' = bound \cup {j}))
    BY <1>1, <2>1, <2>2, ElsewhereInv
  <2>3. CASE ~disposed /\ k \notin suppressed /\ Queue(j) /\ bound' = bound
    BY <2>1, <2>3, QueueInv
  <2> HIDE DEF Inv, TypeOK
  <2>4. QED
    <3>1. CASE disposed \/ k \in suppressed
      BY <3>1, <1>3, <2>2 DEF Bind
    <3>2. CASE ~(disposed \/ k \in suppressed) /\ job[j] = "running"
      BY <3>2, <1>3, <2>2 DEF Bind
    <3>3. CASE ~(disposed \/ k \in suppressed) /\ job[j] # "running"
      <4>1. Settled(j, job[j]) /\ bound' = bound
        BY <3>3, <1>3 DEF Bind
      <4>2. QED
        BY <4>1, <3>3, <2>2, <2>3 DEF Settled
    <3>4. QED
      BY <3>1, <3>2, <3>3
<1>4. CASE JobEnds(j)
  <2>1. /\ job' \in [Jobs -> {"idle", "running", "done", "cancelled"}]
        /\ bound' = bound \ {j}
        /\ UNCHANGED <<acked, flagVars, drainVars, replyVars, told>>
    BY <1>4 DEF JobEnds
  <2>2. CASE UNCHANGED <<batchVars, timer, owed>>
    BY <1>1, <2>1, <2>2, ElsewhereInv
  <2>3. CASE j \in bound /\ k \notin suppressed /\ Queue(j)
    <3>1. ~disposed /\ bound' \subseteq Jobs
      BY <1>1, <2>1, <2>3
    <3>2. QED
      BY <2>1, <2>3, <3>1, QueueInv
  <2>4. QED
    BY <1>4, <2>2, <2>3 DEF JobEnds, Settled
<1>5. CASE Collect(j)
  BY <1>1, <1>5, CollectedInv DEF Collect
<1>6. QED
  BY <1>2, <1>3, <1>4, <1>5

LEMMA UserSteps ==
  ASSUME Inv, NEW k \in Keys,
         HumanRun(k) \/ Stop(k) \/ SuppressBackground(k) \/ SelectConversation(k)
  PROVE  Inv' /\ Stays
<1> USE DEF Inv, TypeOK, jobVars, batchVars, flagVars, drainVars, replyVars
<1>1. rest \subseteq 1 .. used /\ (disposed => bound = {}) /\ HistoryOf[k] \in Histories
  BY ConstantsAssumption DEF DrainsOK, WantedOK
<1>2. CASE HumanRun(k)
  <2>1. /\ reply' \in [Histories -> Replies] /\ selected' \subseteq Keys
        /\ wakes' \in [Keys -> 0 .. WakeBudget]
    BY <1>1, <1>2 DEF HumanRun, Replies, OthersSelected, WakeBudget
  <2>2. QED
    BY <1>1, <1>2, <2>1, ElsewhereInv DEF HumanRun
<1>3. CASE Stop(k) \/ SuppressBackground(k)
  <2> DEFINE S == {k}
  <2>0. Suppress(k) /\ aborted' \subseteq Histories
    BY <1>1, <1>3 DEF Stop, SuppressBackground
  <2>1. /\ pending' \in [Keys -> 0 .. MaxBatch]
        /\ \A l \in Keys : pending'[l] = pending[l] \/ (l \in S /\ pending'[l] = None)
    BY <2>0, ConstantsAssumption DEF Suppress, None
  <2>2. /\ owed' \subseteq owed /\ \A j \in owed' : Conversation[j] \notin S
        /\ bound' \subseteq bound /\ peeked' \in [Histories -> SUBSET Jobs]
    BY <2>0 DEF Suppress, JobsOf
  <2>3. /\ S \in SUBSET Keys /\ suppressed' = suppressed \cup S /\ disposed' = disposed
        /\ rest' = rest
        /\ UNCHANGED <<job, acked, used, batchKey, batchJobs, wakes, connected, selected,
                       delivering, looping, stage, handed, current, left, reply, timer, told>>
    BY <2>0 DEF Suppress
  <2>4. suppressed' \subseteq Keys /\ disposed' \in BOOLEAN
    BY <2>3
  <2> HIDE DEF S, Inv, TypeOK
  <2>5. QED
    BY <2>0, <2>1, <2>2, <2>3, <2>4, DroppedInv
<1>4. CASE SelectConversation(k)
  <2>1. selected' \subseteq Keys
    BY <1>4 DEF SelectConversation, OthersSelected
  <2>2. QED
    BY <1>1, <1>4, <2>1, ElsewhereInv DEF SelectConversation
<1>5. QED
  BY <1>2, <1>3, <1>4

LEMMA HistorySteps ==
  ASSUME Inv, NEW h \in Histories, HistoryStep(h)
  PROVE  Inv' /\ Stays
<1> USE DEF Inv, TypeOK, jobVars, batchVars, flagVars, drainVars, replyVars
<1>1. rest \subseteq 1 .. used /\ (disposed => bound = {})
  BY DEF DrainsOK, WantedOK
<1>2. CASE Peek(h)
  <2>1. pending[reply[h]] \in Batches
    BY <1>2 DEF Peek, Replies, Batches, None, CanDeliver
  <2>2. peeked' \in [Histories -> SUBSET Jobs]
    BY <1>2, <2>1 DEF Peek
  <2>3. QED
    BY <1>1, <1>2, <2>2, ElsewhereInv DEF Peek
<1>3. CASE Acknowledge(h)
  <2>1. reply[h] \in Keys /\ peeked[h] \in SUBSET Jobs /\ Collected(reply[h], peeked[h])
    BY <1>3 DEF Acknowledge, Replies
  <2>2. /\ told' \in [Jobs -> Nat] /\ \A j \in Jobs : told'[j] >= told[j]
        /\ peeked' \in [Histories -> SUBSET Jobs]
    BY <1>3 DEF Acknowledge, Bump
  <2>3. QED
    BY <1>3, <2>1, <2>2, CollectedInv DEF Acknowledge
<1>4. CASE HumanReplyEnds(h)
  <2>1. /\ reply' \in [Histories -> Replies] /\ peeked' \in [Histories -> SUBSET Jobs]
        /\ aborted' \subseteq Histories /\ timer' \in BOOLEAN
    BY <1>4 DEF HumanReplyEnds, ReplyOver, Replies
  <2>2. QED
    BY <1>1, <1>4, <2>1, ElsewhereInv DEF HumanReplyEnds
<1>5. QED
  BY <1>2, <1>3, <1>4, BackgroundReplyInv, ModelAskedInv, DeliveryEndsInv DEF HistoryStep

LEMMA DrainSteps == ASSUME Inv, DrainStep PROVE Inv' /\ Stays
<1> USE DEF Inv, TypeOK, jobVars, batchVars, flagVars, drainVars, replyVars
<1>1. rest \subseteq 1 .. used /\ (disposed => bound = {})
  BY DEF DrainsOK, WantedOK
<1>2. CASE TimerFires
  <2>1. rest' \subseteq 1 .. used
    BY <1>2 DEF TimerFires, BatchesOK, None
  <2>2. QED
    BY <1>1, <1>2, <2>1, ElsewhereInv DEF TimerFires
<1>3. CASE DrainEnds
  BY <1>1, <1>3, ElsewhereInv DEF DrainEnds
<1>4. ASSUME NEW b \in rest, DropDead(b)
      PROVE  Inv' /\ Stays
  <2> DEFINE k == batchKey[b]
  <2>1. k \in Keys
    BY <1>4
  <2> DEFINE S == {k}
  <2>2. /\ pending' \in [Keys -> 0 .. MaxBatch]
        /\ \A l \in Keys : pending'[l] = pending[l] \/ (l \in S /\ pending'[l] = None)
    BY <1>4, <2>1, ConstantsAssumption DEF DropDead, None
  <2>3. /\ owed' \subseteq owed /\ \A j \in owed' : Conversation[j] \notin S
        /\ rest' \subseteq rest
    BY <1>4 DEF DropDead, JobsOf
  <2>4. /\ S \in SUBSET Keys /\ suppressed' = suppressed /\ disposed' = disposed
        /\ bound' = bound /\ peeked' = peeked /\ aborted' = aborted
        /\ UNCHANGED <<job, acked, used, batchKey, batchJobs, wakes, connected, selected,
                       delivering, looping, stage, handed, current, left, reply, timer, told>>
    BY <1>4, <2>1 DEF DropDead
  <2>5. /\ suppressed' \subseteq Keys /\ disposed' \in BOOLEAN
        /\ peeked' \in [Histories -> SUBSET Jobs] /\ aborted' \subseteq Histories
    BY <2>4
  <2> HIDE DEF S, Inv, TypeOK
  <2>6. QED
    BY <2>2, <2>3, <2>4, <2>5, DroppedInv
<1>5. ASSUME NEW b \in rest, Skip(b)
      PROVE  Inv' /\ Stays
  BY <1>1, <1>5, ElsewhereInv DEF Skip
<1>6. QED
  BY <1>2, <1>3, <1>4, <1>5, DeliverInv DEF DrainStep

LEMMA NextInv == Inv /\ [Next]_vars => Inv' /\ Stays
<1> SUFFICES ASSUME Inv, [Next]_vars PROVE Inv' /\ Stays
  OBVIOUS
<1> USE DEF jobVars, batchVars, flagVars, drainVars, replyVars
<1>1. CASE UNCHANGED vars
  BY <1>1, ElsewhereInv DEF vars, Inv, TypeOK, DrainsOK, WantedOK
<1>2. ASSUME NEW s \in Sessions, SessionChanges(s)
      PROVE  Inv' /\ Stays
  BY <1>2, ElsewhereInv DEF SessionChanges, Inv, TypeOK, DrainsOK, WantedOK
<1>3. CASE DisposeOwner
  <2>1. /\ pending' \in [Keys -> 0 .. MaxBatch]
        /\ \A l \in Keys : pending'[l] = None
    BY <1>3, ConstantsAssumption DEF DisposeOwner, None
  <2>2. owed' = {}
    BY <1>3 DEF DisposeOwner
  <2>3. Keys \in SUBSET Keys /\ suppressed' \subseteq Keys /\ bound' = {} /\ aborted' \subseteq Histories
    BY <1>3 DEF DisposeOwner, Inv, TypeOK
  <2>4. QED
    BY <1>3, <2>1, <2>2, <2>3, DroppedInv DEF DisposeOwner, Inv, TypeOK
<1>4. QED
  BY <1>1, <1>2, <1>3, JobSteps, UserSteps, HistorySteps, DrainSteps DEF Next

(* Batches, drains, deliveries and counters are well typed, for any        *)
(* conversations, histories, sessions and jobs (backgroundJobs.ts).        *)
THEOREM BackgroundTypes == Spec => []TypeOK
<1>1. Inv => TypeOK
  BY DEF Inv
<1>2. QED
  BY <1>1, InitInv, NextInv, PTL DEF Spec

(* Refusals, failures, merges, stops and collections lose no result that   *)
(* its conversation wants: only a drain that comes to an outdated batch of *)
(* its copy does (drain's pending.delete, backgroundJobs.ts).              *)
THEOREM ResultsKept == Spec => ResultsStay
<1>1. Inv /\ [Next]_vars => [Stays]_vars
  BY NextInv
<1>2. QED
  BY <1>1, InitInv, NextInv, PTL DEF Spec, ResultsStay, Stays

\* A reply that gets ready is of its own history, and once its conversation
\* is stopped, or the window is gone, its abort signal is set.
StopsOK ==
  \A h \in Histories : stage[h] = "starting" =>
    /\ reply[h] \in Keys /\ HistoryOf[reply[h]] = h
    /\ disposed \/ reply[h] \in suppressed => h \in aborted

\* Only ModelAsked takes a history to its reply.
LEMMA ReplyBegins ==
  ASSUME Inv, [Next]_vars, NEW h \in Histories, stage[h] # "reply", stage'[h] = "reply"
  PROVE  ModelAsked(h)
<1> USE DEF jobVars, batchVars, flagVars, drainVars, replyVars
<1>1. stage \in [Histories -> Stages]
  BY DEF Inv, TypeOK
<1>2. stage' # stage
  OBVIOUS
<1>3. ASSUME NEW g \in Histories, Resumes(g)
      PROVE  FALSE
  BY <1>1, <1>3 DEF Resumes
<1>4. ASSUME NEW g \in Histories, HistoryStep(g)
      PROVE  ModelAsked(h)
  <2>1. ~Peek(g) /\ ~Acknowledge(g) /\ ~HumanReplyEnds(g)
    BY <1>2 DEF Peek, Acknowledge, HumanReplyEnds
  <2>2. ~DeliveryRefused(g) /\ ~DeliveryFails(g) /\ ~BackgroundReplyEnds(g)
    BY <1>3 DEF DeliveryRefused, DeliveryFails, BackgroundReplyEnds
  <2>3. ~StartFails(g) /\ ~ReplyNotAsked(g)
    BY <1>3 DEF StartFails, ReplyNotAsked
  <2>4. ~BackgroundReply(g)
    BY <1>1 DEF BackgroundReply
  <2>5. ModelAsked(g)
    BY <1>4, <2>1, <2>2, <2>3, <2>4 DEF HistoryStep
  <2>6. g = h
    BY <1>1, <2>5 DEF ModelAsked
  <2>7. QED
    BY <2>5, <2>6
<1>5. ~DrainStep
  <2>1. \A b \in rest : ~Deliver(b)
    BY <1>1 DEF Deliver
  <2>2. QED
    BY <1>2, <2>1 DEF DrainStep, TimerFires, DrainEnds, DropDead, Skip
<1>6. ~UNCHANGED vars /\ ~DisposeOwner /\ \A s \in Sessions : ~SessionChanges(s)
  BY <1>2 DEF vars, DisposeOwner, SessionChanges
<1>7. \A j \in Jobs : ~Launch(j) /\ ~Bind(j) /\ ~JobEnds(j) /\ ~Collect(j)
  BY <1>2 DEF Launch, Bind, JobEnds, Collect
<1>8. \A k \in Keys : ~HumanRun(k) /\ ~Stop(k) /\ ~SuppressBackground(k) /\ ~SelectConversation(k)
  BY <1>2 DEF HumanRun, Stop, SuppressBackground, Suppress, SelectConversation
<1>9. QED
  BY <1>4, <1>5, <1>6, <1>7, <1>8 DEF Next

\* Steps that begin no reply with results, and set all signals they should.
LEMMA SignalsKept ==
  ASSUME Inv, StopsOK,
         \A h \in Histories : stage'[h] = "starting" =>
           stage[h] = "starting" /\ reply'[h] = reply[h] /\ (h \in aborted => h \in aborted'),
         \/ disposed' = disposed /\ suppressed' \subseteq suppressed
         \/ \E k \in Keys : /\ disposed' = disposed /\ suppressed' = suppressed \cup {k}
                           /\ \A h \in Histories : stage[h] = "starting" /\ reply[h] = k => h \in aborted'
         \/ \A h \in Histories : stage[h] = "starting" => h \in aborted'
  PROVE  StopsOK'
BY DEF StopsOK

LEMMA NextStops == Inv /\ StopsOK /\ [Next]_vars => StopsOK'
<1> SUFFICES ASSUME Inv, StopsOK, [Next]_vars PROVE StopsOK'
  OBVIOUS
<1> USE DEF jobVars, batchVars, flagVars, drainVars, replyVars
<1>1. /\ stage \in [Histories -> Stages] /\ reply \in [Histories -> Replies]
      /\ aborted \subseteq Histories
  BY DEF Inv, TypeOK
<1>2. ASSUME UNCHANGED <<stage, reply, aborted, disposed>>, suppressed' \subseteq suppressed
      PROVE  StopsOK'
  BY <1>2, SignalsKept
<1>3. ASSUME NEW h \in Histories, Resumes(h), disposed' = disposed, suppressed' = suppressed,
             UNCHANGED <<reply, aborted>> \/ ReplyOver(h)
      PROVE  StopsOK'
  <2>1. stage' = [stage EXCEPT ![h] = "free"]
    BY <1>3 DEF Resumes
  <2>2. \A g \in Histories : stage'[g] = "starting" =>
          stage[g] = "starting" /\ reply'[g] = reply[g] /\ (g \in aborted => g \in aborted')
    BY <1>1, <1>3, <2>1 DEF ReplyOver
  <2>3. QED
    BY <1>3, <2>2, SignalsKept
<1>4. CASE UNCHANGED vars
  BY <1>2, <1>4 DEF vars
<1>5. ASSUME NEW j \in Jobs, Launch(j) \/ Bind(j) \/ JobEnds(j) \/ Collect(j)
      PROVE  StopsOK'
  BY <1>2, <1>5 DEF Launch, Bind, JobEnds, Collect
<1>6. ASSUME NEW s \in Sessions, SessionChanges(s)
      PROVE  StopsOK'
  BY <1>2, <1>6 DEF SessionChanges
<1>7. CASE DrainStep
  <2>1. ASSUME NEW b \in rest, Deliver(b)
        PROVE  StopsOK'
    <3>1. \A h \in Histories : stage'[h] = "starting" => stage[h] = "starting"
      BY <1>1, <2>1 DEF Deliver
    <3>2. UNCHANGED <<reply, aborted, disposed, suppressed>>
      BY <2>1 DEF Deliver
    <3>3. QED
      BY <3>1, <3>2, SignalsKept
  <2>2. QED
    BY <1>2, <1>7, <2>1 DEF DrainStep, TimerFires, DrainEnds, DropDead, Skip
<1>8. CASE DisposeOwner
  <2>1. /\ UNCHANGED <<stage, reply>>
        /\ aborted' = aborted \cup {h \in Histories : reply[h] # NoReply}
    BY <1>8 DEF DisposeOwner
  <2>2. \A h \in Histories : stage[h] = "starting" => reply[h] # NoReply
    BY KeysAssumption DEF StopsOK
  <2>3. QED
    BY <2>1, <2>2, SignalsKept
<1>9. ASSUME NEW k \in Keys, HumanRun(k)
      PROVE  StopsOK'
  <2>1. /\ stage' = stage /\ aborted' = aborted /\ disposed' = disposed /\ suppressed' \subseteq suppressed
        /\ reply' = IF Idle(HistoryOf[k]) THEN [reply EXCEPT ![HistoryOf[k]] = k] ELSE reply
    BY <1>9 DEF HumanRun
  <2>2. \A h \in Histories : stage[h] = "starting" => reply'[h] = reply[h]
    BY <1>1, <2>1, ConstantsAssumption, KeysAssumption DEF StopsOK, Idle
  <2>3. QED
    BY <2>1, <2>2, SignalsKept
<1>10. ASSUME NEW k \in Keys, Stop(k) \/ SuppressBackground(k)
       PROVE  StopsOK'
  <2>1. /\ UNCHANGED <<stage, reply, disposed>> /\ suppressed' = suppressed \cup {k}
        /\ aborted \subseteq aborted'
    BY <1>10 DEF Stop, SuppressBackground, Suppress
  <2>2. \A h \in Histories : stage[h] = "starting" /\ reply[h] = k => h \in aborted'
    BY <1>10 DEF Stop, SuppressBackground, StopsOK
  <2>3. QED
    BY <2>1, <2>2, SignalsKept
<1>11. ASSUME NEW k \in Keys, SelectConversation(k)
       PROVE  StopsOK'
  BY <1>2, <1>11 DEF SelectConversation
<1>12. ASSUME NEW h \in Histories, HistoryStep(h)
       PROVE  StopsOK'
  <2>1. CASE Peek(h) \/ Acknowledge(h)
    BY <1>2, <2>1 DEF Peek, Acknowledge
  <2>2. CASE HumanReplyEnds(h)
    <3>1. /\ stage' = stage /\ stage[h] # "starting" /\ UNCHANGED <<disposed, suppressed>>
          /\ reply' = [reply EXCEPT ![h] = NoReply] /\ aborted' = aborted \ {h}
      BY <2>2 DEF HumanReplyEnds, ReplyOver
    <3>2. \A g \in Histories : stage[g] = "starting" =>
            reply'[g] = reply[g] /\ (g \in aborted => g \in aborted')
      BY <1>1, <3>1
    <3>3. QED
      BY <3>1, <3>2, SignalsKept
  <2>3. CASE DeliveryRefused(h) \/ DeliveryFails(h)
    BY <1>3, <2>3 DEF DeliveryRefused, DeliveryFails
  <2>4. CASE StartFails(h) \/ ReplyNotAsked(h) \/ BackgroundReplyEnds(h)
    BY <1>3, <2>4 DEF StartFails, ReplyNotAsked, BackgroundReplyEnds
  <2>5. CASE BackgroundReply(h)
    <3> DEFINE k == batchKey[current[h]]
    <3>1. /\ stage[h] = "reading" /\ StillWanted(k) /\ Idle(h)
          /\ reply' = [reply EXCEPT ![h] = k] /\ stage' = [stage EXCEPT ![h] = "starting"]
          /\ UNCHANGED <<aborted, disposed, suppressed>>
      BY <2>5 DEF BackgroundReply
    <3>2. k \in Keys /\ HistoryOf[k] = h /\ ~disposed /\ k \notin suppressed
      BY <3>1 DEF Inv, TypeOK, DrainsOK, DeliveryOK, Batches, StillWanted, CanDeliver
    <3>3. \A g \in Histories : g # h => stage'[g] = stage[g] /\ reply'[g] = reply[g]
      BY <1>1, <3>1
    <3>4. reply'[h] = k
      BY <1>1, <3>1
    <3> HIDE DEF k
    <3>5. QED
      BY <3>1, <3>2, <3>3, <3>4 DEF StopsOK
  <2>6. CASE ModelAsked(h)
    <3>1. \A g \in Histories : stage'[g] = "starting" => stage[g] = "starting"
      BY <1>1, <2>6 DEF ModelAsked
    <3>2. UNCHANGED <<reply, aborted, disposed, suppressed>>
      BY <2>6 DEF ModelAsked
    <3>3. QED
      BY <3>1, <3>2, SignalsKept
  <2>7. QED
    BY <1>12, <2>1, <2>2, <2>3, <2>4, <2>5, <2>6 DEF HistoryStep
<1>13. QED
  BY <1>4, <1>5, <1>6, <1>7, <1>8, <1>9, <1>10, <1>11, <1>12 DEF Next

(* Wherever a stop or the end of the window falls in the awaits between    *)
(* the choice of a batch and the request, the model is not asked about the *)
(* results: the second look of deliver catches those before it, the abort  *)
(* signal those after it (executionService.ts: deliver, abort,             *)
(* suppressBackground, disposeOwner).  StopsOK says that none falls        *)
(* between the two.                                                        *)
THEOREM StopHolds == Spec => StopIsFinal
<1> DEFINE Begins(h) ==
      stage[h] # "reply" /\ stage'[h] = "reply" => ~disposed /\ reply'[h] \notin suppressed
<1>1. Init => StopsOK
  BY DEF Init, StopsOK
<1>2. ASSUME Inv, StopsOK, [Next]_vars, NEW h \in Histories
      PROVE  Begins(h)
  <2> SUFFICES ASSUME stage[h] # "reply", stage'[h] = "reply"
               PROVE  ~disposed /\ reply'[h] \notin suppressed
    OBVIOUS
  <2>1. ModelAsked(h)
    BY <1>2, ReplyBegins
  <2>2. stage[h] = "starting" /\ h \notin aborted /\ reply' = reply
    BY <2>1 DEF ModelAsked, NotStopped, replyVars
  <2>3. QED
    BY <1>2, <2>2 DEF StopsOK
<1>3. Inv /\ StopsOK /\ [Next]_vars => [\A h \in Histories : Begins(h)]_vars
  BY <1>2
<1>4. QED
  BY <1>1, <1>3, InitInv, NextInv, NextStops, PTL DEF Spec, StopIsFinal, Begins

-----------------------------------------------------------------------------
(* While all results are of one conversation, one drain at most has work:  *)
(* no copy of a batch outlives the delivery or the removal of the batch.   *)
OneLauncher == \A i, j \in Jobs : Conversation[i] = Conversation[j]
LaunchedBy(k) == \E j \in Jobs : Conversation[j] = k

CopiesOK ==
  /\ \A b \in 1 .. used : LaunchedBy(batchKey[b])
  /\ \A h \in Histories : left[h] = {}
  /\ ~looping => rest = {}
  /\ \A b \in rest : pending[batchKey[b]] = b
  /\ \A h \in Histories : stage[h] # "free" => handed[h] = batchJobs[current[h]]

\* A result is queued once, when its command has ended and is acknowledged.
EndedOK ==
  /\ bound \subseteq acked
  /\ \A b \in Batches : \A j \in batchJobs[b] : job[j] = "done" /\ j \in acked
  /\ \A h \in Histories : \A j \in peeked[h] : job[j] = "done" /\ j \in acked
  /\ \A j \in Jobs : told[j] # 0 => job[j] = "done" /\ j \in acked

\* A running reply has read results of its own conversation only.
RepliesOK ==
  \A h \in Histories :
    /\ reply[h] # NoReply => HistoryOf[reply[h]] = h
    /\ peeked[h] # {} => reply[h] # NoReply
    /\ peeked[h] \subseteq JobsOf(reply[h])

\* What is told is not pending, not in delivery, and nobody has read it.
IsPending(j) == \E k \in Keys : pending[k] # None /\ j \in batchJobs[pending[k]]
IsPeeked(j) == \E h \in Histories : j \in peeked[h]

ToldOK ==
  /\ ToldOnce
  /\ \A j \in Jobs : IsPending(j) \/ IsPeeked(j) => told[j] = 0
  /\ \A h \in Histories : \A j \in handed[h] :
       /\ stage[h] \in {"reading", "starting"} => told[j] = 0
       /\ stage[h] # "free" => ~IsPending(j) /\ ~IsPeeked(j)

OnceInv == CopiesOK /\ EndedOK /\ RepliesOK /\ ToldOK

LEMMA OnceInit == Init => OnceInv
<1> SUFFICES ASSUME Init PROVE OnceInv
  OBVIOUS
<1>1. used = 0 /\ 1 .. used = {}
  BY DEF Init
<1>2. CopiesOK
  BY <1>1 DEF Init, CopiesOK
<1>3. EndedOK
  BY DEF Init, EndedOK
<1>4. RepliesOK
  BY DEF Init, RepliesOK
<1>5. ToldOK
  BY DEF Init, ToldOK, ToldOnce, IsPending, IsPeeked
<1>6. QED
  BY <1>2, <1>3, <1>4, <1>5 DEF OnceInv

\* There is one batch to look at, one delivery and one reply with results.
LEMMA OnlyOne ==
  ASSUME OneLauncher, Inv, OnceInv
  PROVE  /\ \A b, c \in 1 .. used : batchKey[b] = batchKey[c]
         /\ \A b, c \in rest : b = c
         /\ \A g, h \in Histories : stage[g] # "free" /\ stage[h] # "free" => g = h
         /\ \A g, h \in Histories : peeked[g] # {} /\ peeked[h] # {} => g = h
         /\ \A h \in Histories, b \in 1 .. used : peeked[h] # {} => h = HistoryOf[batchKey[b]]
<1>1. \A b, c \in 1 .. used : batchKey[b] = batchKey[c]
  BY DEF OneLauncher, OnceInv, CopiesOK, LaunchedBy
<1>2. rest \subseteq 1 .. used
  BY DEF Inv, DrainsOK
<1>3. \A b, c \in rest : b = c
  BY <1>1, <1>2 DEF OnceInv, CopiesOK
<1>4. \A h \in Histories : stage[h] # "free" => current[h] \in 1 .. used /\ HistoryOf[batchKey[current[h]]] = h
  BY DEF Inv, DrainsOK, DeliveryOK
<1>5. \A g, h \in Histories : stage[g] # "free" /\ stage[h] # "free" => g = h
  BY <1>1, <1>4
<1>6. \A h \in Histories : peeked[h] # {} =>
        HistoryOf[reply[h]] = h /\ \E j \in Jobs : reply[h] = Conversation[j]
  BY DEF OnceInv, RepliesOK, JobsOf
<1>7. \A g, h \in Histories : peeked[g] # {} /\ peeked[h] # {} => g = h
  BY <1>6 DEF OneLauncher
<1>8. \A h \in Histories, b \in 1 .. used : peeked[h] # {} => h = HistoryOf[batchKey[b]]
  BY <1>6 DEF OneLauncher, OnceInv, CopiesOK, LaunchedBy
<1>9. QED
  BY <1>1, <1>3, <1>5, <1>7, <1>8

\* Steps that queue, deliver and tell nothing.
LEMMA LessPending ==
  ASSUME Inv, OnceInv, UNCHANGED <<drainVars, told, used, batchKey>>, Quiet,
         acked \subseteq acked', bound' \subseteq acked',
         \A j \in Jobs : job[j] = "done" => job'[j] = "done",
         \A k \in Keys : pending'[k] \in {pending[k], None},
         \A b \in Batches : batchJobs'[b] \subseteq batchJobs[b],
         \A h \in Histories : stage[h] # "free" => batchJobs'[current[h]] = batchJobs[current[h]],
         \A h \in Histories :
           /\ reply'[h] # NoReply => HistoryOf[reply'[h]] = h
           /\ peeked'[h] # {} => reply'[h] # NoReply
           /\ peeked'[h] \subseteq JobsOf(reply'[h]),
         \A h \in Histories : \A j \in peeked'[h] : IsPeeked(j) \/ IsPending(j)
  PROVE  OnceInv'
<1> USE DEF drainVars
<1>1. \A j \in Jobs : IsPending(j)' => IsPending(j)
  <2>1. ASSUME NEW j, NEW k \in Keys, pending'[k] # None, j \in batchJobs'[pending'[k]]
        PROVE  pending[k] # None /\ j \in batchJobs[pending[k]]
    <3>1. pending'[k] = pending[k]
      BY <2>1
    <3>2. pending[k] \in Batches
      BY <2>1, <3>1 DEF Inv, TypeOK, Batches, None
    <3>3. QED
      BY <2>1, <3>1, <3>2
  <2>2. QED
    BY <2>1 DEF IsPending
<1>2. \A j \in Jobs : IsPeeked(j)' => IsPeeked(j) \/ IsPending(j)
  BY DEF IsPeeked
<1>3. /\ handed \in [Histories -> SUBSET Jobs] /\ peeked \in [Histories -> SUBSET Jobs]
      /\ batchJobs \in [Batches -> SUBSET Jobs]
  BY DEF Inv, TypeOK
<1>4. CopiesOK'
  BY DEF OnceInv, CopiesOK, LaunchedBy, Quiet
<1>5. EndedOK'
  <2>1. \A j : IsPeeked(j) \/ IsPending(j) => j \in Jobs /\ job[j] = "done" /\ j \in acked
    <3>1. \A k \in Keys : pending[k] # None => pending[k] \in Batches
      BY DEF Inv, TypeOK, Batches, None
    <3>2. QED
      BY <1>3, <3>1 DEF IsPeeked, IsPending, OnceInv, EndedOK
  <2>2. \A h \in Histories : \A j \in peeked'[h] : job'[j] = "done" /\ j \in acked'
    BY <2>1
  <2>3. \A b \in Batches : \A j \in batchJobs'[b] : job'[j] = "done" /\ j \in acked'
    BY <1>3 DEF OnceInv, EndedOK
  <2>4. QED
    BY <2>2, <2>3 DEF OnceInv, EndedOK
<1>6. RepliesOK'
  BY DEF RepliesOK, JobsOf
<1>7. ToldOK'
  BY <1>1, <1>2, <1>3 DEF OnceInv, ToldOK, ToldOnce
<1>8. QED
  BY <1>4, <1>5, <1>6, <1>7 DEF OnceInv

\* A command is queued when it has ended and its launch is acknowledged,
\* whichever comes last: in no batch, no delivery and no reply before.
LEMMA QueueOnce ==
  ASSUME Inv, OnceInv, NEW j \in Jobs, Queue(j), Quiet,
         job[j] # "done" \/ j \notin acked, job'[j] = "done", j \in acked',
         acked \subseteq acked', bound' \subseteq acked',
         \A i \in Jobs : job[i] = "done" => job'[i] = "done",
         UNCHANGED <<drainVars, replyVars, told>>
  PROVE  OnceInv'
<1> DEFINE k == Conversation[j]
           b == IF pending[k] = None THEN used + 1 ELSE pending[k]
<1> USE DEF drainVars, replyVars
<1>1. k \in Keys /\ b \in Batches
  BY ConstantsAssumption DEF Queue, Batches, None, Inv, TypeOK
<1>2. /\ used' = IF pending[k] = None THEN used + 1 ELSE used
      /\ batchKey' = [batchKey EXCEPT ![b] = k]
      /\ batchJobs' = [batchJobs EXCEPT ![b] = @ \cup {j}]
      /\ pending' = [pending EXCEPT ![k] = b]
  BY DEF Queue
<1>3. /\ batchKey \in [Batches -> Keys] /\ batchJobs \in [Batches -> SUBSET Jobs]
      /\ pending \in [Keys -> 0 .. MaxBatch] /\ used \in 0 .. MaxBatch /\ told \in [Jobs -> Nat]
      /\ handed \in [Histories -> SUBSET Jobs] /\ peeked \in [Histories -> SUBSET Jobs]
  BY DEF Inv, TypeOK
<1>4. /\ pending[k] # None => b = pending[k] /\ b <= used
      /\ pending[k] = None => b = used + 1 /\ batchJobs[b] = {}
  BY <1>1, <1>3 DEF Inv, BatchesOK, Batches
<1>5. \A h \in Histories : stage[h] # "free" => current[h] \in 1 .. used /\ current[h] # b
  BY <1>1, <1>3, <1>4 DEF Inv, DrainsOK, DeliveryOK
<1>6. /\ \A c \in Batches : j \notin batchJobs[c]
      /\ told[j] = 0 /\ ~IsPeeked(j)
  BY DEF OnceInv, EndedOK, IsPeeked
<1> HIDE DEF b
<1>7. CopiesOK'
  <2>1. \A c \in 1 .. used' : c \in Batches /\ (c = b \/ c \in 1 .. used)
    <3>1. b \in 1 .. MaxBatch
      BY <1>1 DEF Batches
    <3>2. QED
      BY <1>2, <1>3, <1>4, <3>1, ConstantsAssumption DEF Batches
  <2>2. \A c \in 1 .. used' : LaunchedBy(batchKey'[c])
    <3>1. LaunchedBy(k)
      BY DEF LaunchedBy
    <3>2. \A c \in 1 .. used : LaunchedBy(batchKey[c])
      BY DEF OnceInv, CopiesOK
    <3>3. \A c \in 1 .. used' : batchKey'[c] = IF c = b THEN k ELSE batchKey[c]
      BY <1>1, <1>2, <1>3, <2>1
    <3>4. QED
      BY <2>1, <3>1, <3>2, <3>3
  <2>3. rest = {} /\ rest' = {} /\ \A h \in Histories : left'[h] = {}
    BY DEF OnceInv, CopiesOK, Quiet
  <2>4. \A h \in Histories : stage[h] # "free" => batchJobs'[current[h]] = batchJobs[current[h]]
    BY <1>2, <1>3, <1>5 DEF Batches
  <2>5. \A h \in Histories : stage'[h] # "free" => handed'[h] = batchJobs'[current'[h]]
    BY <2>4 DEF OnceInv, CopiesOK
  <2>6. QED
    BY <2>2, <2>3, <2>5 DEF CopiesOK, LaunchedBy
<1>8. EndedOK'
  <2>1. \A c \in Batches : batchJobs'[c] \subseteq batchJobs[c] \cup {j}
    BY <1>1, <1>2, <1>3
  <2>2. \A c \in Batches : \A i \in batchJobs'[c] : job'[i] = "done" /\ i \in acked'
    BY <1>3, <2>1 DEF OnceInv, EndedOK
  <2>3. QED
    BY <1>3, <2>2 DEF OnceInv, EndedOK
<1>9. RepliesOK'
  BY DEF OnceInv, RepliesOK, JobsOf
<1>10. ToldOK'
  <2>1. \A i \in Jobs : IsPending(i)' => IsPending(i) \/ i = j
    <3>1. ASSUME NEW i \in Jobs, i # j, NEW l \in Keys, pending'[l] # None, i \in batchJobs'[pending'[l]]
          PROVE  pending[l] # None /\ i \in batchJobs[pending[l]]
      <4>1. pending'[l] \in Batches /\ i \in batchJobs[pending'[l]]
        BY <1>1, <1>2, <1>3, <3>1 DEF Batches, None
      <4>2. CASE l = k
        BY <1>1, <1>2, <1>3, <1>4, <4>1, <4>2
      <4>3. CASE l # k
        BY <1>1, <1>2, <1>3, <3>1, <4>1, <4>3
      <4>4. QED
        BY <4>2, <4>3
    <3>2. QED
      BY <3>1 DEF IsPending
  <2>2. \A i \in Jobs : IsPeeked(i)' <=> IsPeeked(i)
    BY DEF IsPeeked
  <2>3. \A h \in Histories : stage[h] # "free" => j \notin handed[h]
    <3>1. \A h \in Histories : stage[h] # "free" => current[h] \in Batches
      BY <1>3, <1>5, ConstantsAssumption DEF Batches
    <3>2. QED
      BY <1>6, <3>1 DEF OnceInv, CopiesOK
  <2>4. QED
    BY <1>3, <1>6, <2>1, <2>2, <2>3 DEF OnceInv, ToldOK, ToldOnce
<1>11. QED
  BY <1>7, <1>8, <1>9, <1>10 DEF OnceInv

\* The results of S need no notice any more: their batch shrinks.
LEMMA CollectedLess ==
  ASSUME Inv, NEW k \in Keys, NEW S, Collected(k, S)
  PROVE  /\ bound' \subseteq bound
         /\ \A l \in Keys : pending'[l] \in {pending[l], None}
         /\ \A b \in Batches : batchJobs'[b] \subseteq batchJobs[b]
         /\ \A h \in Histories : stage[h] # "free" => batchJobs'[current[h]] = batchJobs[current[h]]
         /\ pending'[k] # None => batchJobs'[pending'[k]] \cap S = {}
<1>1. /\ batchJobs \in [Batches -> SUBSET Jobs] /\ pending \in [Keys -> 0 .. MaxBatch]
      /\ used \in 0 .. MaxBatch
  BY DEF Inv, TypeOK
<1>2. \A h \in Histories : stage[h] # "free" => current[h] \in Batches /\ pending[k] # current[h]
  BY <1>1, ConstantsAssumption DEF Inv, DrainsOK, DeliveryOK, Batches
<1>3. CASE pending[k] = None
  BY <1>1, <1>3 DEF Collected
<1>4. CASE pending[k] # None
  <2>1. pending[k] \in Batches
    BY <1>1, <1>4 DEF Batches, None
  <2>2. /\ batchJobs' = [batchJobs EXCEPT ![pending[k]] = @ \ S]
        /\ pending' = IF batchJobs[pending[k]] \subseteq S THEN [pending EXCEPT ![k] = None] ELSE pending
        /\ bound' \subseteq bound
    BY <1>4 DEF Collected
  <2>3. QED
    BY <1>1, <1>2, <2>1, <2>2
<1>5. QED
  BY <1>3, <1>4

LEMMA JobsOnce ==
  ASSUME Inv, OnceInv, NEW j \in Jobs, Launch(j) \/ Bind(j) \/ JobEnds(j) \/ Collect(j)
  PROVE  OnceInv'
<1> DEFINE k == Conversation[j]
<1> USE DEF jobVars, batchVars, flagVars, drainVars, replyVars
<1>1. /\ Quiet /\ UNCHANGED <<drainVars, replyVars, told>>
      /\ k \in Keys /\ job \in [Jobs -> {"idle", "running", "done", "cancelled"}]
      /\ bound \subseteq acked
  BY ConstantsAssumption DEF Launch, Bind, JobEnds, Collect, Inv, TypeOK, OnceInv, EndedOK
<1>2. /\ \A h \in Histories :
           /\ reply'[h] # NoReply => HistoryOf[reply'[h]] = h
           /\ peeked'[h] # {} => reply'[h] # NoReply
           /\ peeked'[h] \subseteq JobsOf(reply'[h])
      /\ \A h \in Histories : \A i \in peeked'[h] : IsPeeked(i)
  BY <1>1 DEF OnceInv, RepliesOK, IsPeeked
<1>3. ASSUME UNCHANGED batchVars, acked \subseteq acked', bound' \subseteq acked',
             \A i \in Jobs : job[i] = "done" => job'[i] = "done"
      PROVE  OnceInv'
  BY <1>1, <1>2, <1>3, LessPending
<1>4. CASE Launch(j)
  <2>1. /\ job[j] = "idle" /\ job' = [job EXCEPT ![j] = "running"]
        /\ UNCHANGED <<bound, acked>> /\ UNCHANGED batchVars
    BY <1>4 DEF Launch
  <2>2. \A i \in Jobs : job[i] = "done" => job'[i] = "done"
    BY <1>1, <2>1
  <2>3. QED
    BY <1>1, <1>3, <2>1, <2>2
<1>5. CASE Bind(j)
  <2>1. job' = job /\ acked' = acked \cup {j} /\ j \notin acked /\ job[j] # "idle"
    BY <1>5 DEF Bind
  <2>2. \/ UNCHANGED batchVars /\ bound' \in {bound, bound \cup {j}}
        \/ job[j] # "running" /\ Settled(j, job[j]) /\ bound' = bound
    BY <1>5 DEF Bind
  <2>3. CASE UNCHANGED batchVars /\ bound' \in {bound, bound \cup {j}}
    BY <1>1, <1>3, <2>1, <2>3
  <2>4. CASE job[j] # "running" /\ Settled(j, job[j]) /\ bound' = bound
    <3>1. CASE UNCHANGED batchVars
      BY <2>3, <2>4, <3>1
    <3>2. CASE job[j] = "done" /\ Queue(j)
      BY <1>1, <2>1, <2>4, <3>2, QueueOnce
    <3>3. QED
      BY <2>4, <3>1, <3>2 DEF Settled
  <2>5. QED
    BY <2>2, <2>3, <2>4
<1>6. CASE JobEnds(j)
  <2>1. /\ job[j] = "running" /\ bound' = bound \ {j} /\ acked' = acked
    BY <1>6 DEF JobEnds
  <2>2. PICK status \in {"done", "cancelled"} :
          /\ job' = [job EXCEPT ![j] = status]
          /\ IF j \in bound THEN Settled(j, status) ELSE UNCHANGED <<batchVars, timer, owed>>
    BY <1>6 DEF JobEnds
  <2>3. job'[j] = status /\ \A i \in Jobs : job[i] = "done" => job'[i] = "done"
    BY <1>1, <2>1, <2>2
  <2>4. CASE UNCHANGED batchVars
    BY <1>1, <1>3, <2>1, <2>3, <2>4
  <2>5. CASE status = "done" /\ j \in bound /\ Queue(j)
    <3>1. j \in acked' /\ bound' \subseteq acked' /\ job[j] # "done" /\ job'[j] = "done"
      BY <1>1, <2>1, <2>3, <2>5
    <3>2. QED
      BY <1>1, <2>1, <2>3, <2>5, <3>1, QueueOnce
  <2>6. QED
    BY <2>2, <2>4, <2>5 DEF Settled
<1>7. CASE Collect(j)
  <2>1. Collected(k, {j}) /\ UNCHANGED <<job, acked, used, batchKey>>
    BY <1>7 DEF Collect
  <2>2. /\ bound' \subseteq bound
        /\ \A l \in Keys : pending'[l] \in {pending[l], None}
        /\ \A b \in Batches : batchJobs'[b] \subseteq batchJobs[b]
        /\ \A h \in Histories : stage[h] # "free" => batchJobs'[current[h]] = batchJobs[current[h]]
    BY <1>1, <2>1, CollectedLess
  <2>3. bound' \subseteq acked' /\ acked \subseteq acked' /\ \A i \in Jobs : job[i] = "done" => job'[i] = "done"
    BY <1>1, <2>1, <2>2
  <2>4. QED
    BY <1>1, <1>2, <2>1, <2>2, <2>3, LessPending
<1>8. QED
  BY <1>4, <1>5, <1>6, <1>7

\* What the user, the window and the sessions do.
LEMMA UserOnce ==
  ASSUME Inv, OnceInv,
         \/ \E k \in Keys : HumanRun(k) \/ Stop(k) \/ SuppressBackground(k) \/ SelectConversation(k)
         \/ \E s \in Sessions : SessionChanges(s)
         \/ DisposeOwner
         \/ \E h \in Histories : HumanReplyEnds(h) \/ Peek(h)
  PROVE  OnceInv'
<1> USE DEF jobVars, batchVars, flagVars, drainVars, replyVars
<1>1. /\ Quiet /\ UNCHANGED <<drainVars, told, used, batchKey, batchJobs, job, acked>>
  BY DEF HumanRun, Stop, SuppressBackground, Suppress, SelectConversation, SessionChanges, DisposeOwner,
         HumanReplyEnds, Peek
<1>2. /\ pending \in [Keys -> 0 .. MaxBatch] /\ reply \in [Histories -> Replies]
      /\ peeked \in [Histories -> SUBSET Jobs] /\ batchJobs \in [Batches -> SUBSET Jobs]
      /\ bound \subseteq acked
  BY DEF Inv, TypeOK, OnceInv, EndedOK
<1>3. bound' \subseteq acked'
  BY <1>1, <1>2 DEF HumanRun, Stop, SuppressBackground, Suppress, SelectConversation, SessionChanges,
                    DisposeOwner, HumanReplyEnds, Peek
<1>4. \A l \in Keys : pending'[l] \in {pending[l], None}
  BY <1>2 DEF HumanRun, Stop, SuppressBackground, Suppress, SelectConversation, SessionChanges,
               DisposeOwner, HumanReplyEnds, Peek
<1>5. /\ \A h \in Histories :
           /\ reply'[h] # NoReply => HistoryOf[reply'[h]] = h
           /\ peeked'[h] # {} => reply'[h] # NoReply
           /\ peeked'[h] \subseteq JobsOf(reply'[h])
      /\ \A h \in Histories : \A j \in peeked'[h] : IsPeeked(j) \/ IsPending(j)
  <2>1. \A h \in Histories :
          /\ reply[h] # NoReply => HistoryOf[reply[h]] = h
          /\ peeked[h] # {} => reply[h] # NoReply
          /\ peeked[h] \subseteq JobsOf(reply[h])
    BY DEF OnceInv, RepliesOK
  <2>2. CASE reply' = reply /\ \A h \in Histories : peeked'[h] \in {peeked[h], {}}
    BY <2>1, <2>2 DEF IsPeeked
  <2>3. ASSUME NEW k \in Keys, HumanRun(k)
        PROVE  /\ peeked' = peeked
               /\ \A h \in Histories :
                    \/ reply'[h] = reply[h]
                    \/ reply[h] = NoReply /\ reply'[h] = k /\ h = HistoryOf[k]
    BY <1>2, <2>3 DEF HumanRun, Idle
  <2>4. CASE \E k \in Keys : HumanRun(k)
    BY <2>1, <2>3, <2>4 DEF IsPeeked
  <2>5. ASSUME NEW g \in Histories, HumanReplyEnds(g)
        PROVE  /\ reply' = [reply EXCEPT ![g] = NoReply] /\ peeked' = [peeked EXCEPT ![g] = {}]
    BY <2>5 DEF HumanReplyEnds, ReplyOver
  <2>6. CASE \E g \in Histories : HumanReplyEnds(g)
    <3>1. PICK g \in Histories : HumanReplyEnds(g)
      BY <2>6
    <3>2. /\ reply'[g] = NoReply /\ peeked'[g] = {}
          /\ \A h \in Histories \ {g} : reply'[h] = reply[h] /\ peeked'[h] = peeked[h]
      BY <1>2, <2>5, <3>1
    <3>3. QED
      BY <2>1, <3>2 DEF IsPeeked
  <2>7. CASE \E g \in Histories : Peek(g)
    <3>1. PICK g \in Histories : Peek(g)
      BY <2>7
    <3>2. /\ reply' = reply /\ reply[g] # NoReply /\ reply[g] \in Keys
          /\ pending[reply[g]] # None
          /\ peeked' = [peeked EXCEPT ![g] = batchJobs[pending[reply[g]]]]
      BY <1>2, <3>1 DEF Peek, Replies
    <3>3. pending[reply[g]] \in 1 .. used /\ pending[reply[g]] \in Batches
          /\ batchKey[pending[reply[g]]] = reply[g]
      BY <1>2, <3>2 DEF Inv, BatchesOK, TypeOK, Batches, None
    <3>4. batchJobs[pending[reply[g]]] \subseteq JobsOf(reply[g])
      BY <3>3 DEF Inv, BatchesOK
    <3>5. \A h \in Histories : peeked'[h] = IF h = g THEN batchJobs[pending[reply[g]]] ELSE peeked[h]
      BY <1>2, <3>2
    <3>6. \A j \in batchJobs[pending[reply[g]]] : IsPending(j)
      BY <3>2 DEF IsPending
    <3>7. QED
      BY <2>1, <3>2, <3>4, <3>5, <3>6 DEF IsPeeked
  <2>8. QED
    BY <1>2, <2>2, <2>4, <2>6, <2>7 DEF Stop, SuppressBackground, Suppress, SelectConversation, SessionChanges, DisposeOwner
<1>6. QED
  BY <1>1, <1>3, <1>4, <1>5, LessPending

\* A running reply has stored the notice: what it read is told and pending
\* no more.
LEMMA AcknowledgeOnce ==
  ASSUME OneLauncher, Inv, OnceInv, NEW h \in Histories, Acknowledge(h)
  PROVE  OnceInv'
<1> DEFINE k == reply[h]
           S == peeked[h]
<1> USE DEF flagVars, drainVars
<1>1. /\ Quiet /\ k # NoReply /\ S # {} /\ Collected(k, S) /\ told' = Bump(S)
      /\ peeked' = [peeked EXCEPT ![h] = {}]
      /\ UNCHANGED <<job, acked, used, batchKey, drainVars, reply>>
  BY DEF Acknowledge
<1>2. /\ k \in Keys /\ peeked \in [Histories -> SUBSET Jobs] /\ told \in [Jobs -> Nat]
      /\ batchJobs \in [Batches -> SUBSET Jobs] /\ pending \in [Keys -> 0 .. MaxBatch]
      /\ handed \in [Histories -> SUBSET Jobs]
  BY <1>1 DEF Inv, TypeOK, Replies
<1>3. /\ bound' \subseteq bound
      /\ \A l \in Keys : pending'[l] \in {pending[l], None}
      /\ \A b \in Batches : batchJobs'[b] \subseteq batchJobs[b]
      /\ \A g \in Histories : stage[g] # "free" => batchJobs'[current[g]] = batchJobs[current[g]]
      /\ pending'[k] # None => batchJobs'[pending'[k]] \cap S = {}
  BY <1>1, <1>2, CollectedLess
<1>4. S \subseteq JobsOf(k) /\ S \subseteq Jobs /\ \A g \in Histories : peeked'[g] = {}
  BY <1>1, <1>2, OnlyOne DEF OnceInv, RepliesOK
<1>5. \A i \in Jobs : told'[i] = IF i \in S THEN told[i] + 1 ELSE told[i]
  BY <1>1 DEF Bump
<1> HIDE DEF S
<1>6. \A i \in S : IsPeeked(i) /\ told[i] = 0 /\ job[i] = "done" /\ i \in acked
  BY <1>2, <1>4 DEF IsPeeked, OnceInv, ToldOK, EndedOK, S
<1>7. CopiesOK'
  BY <1>1, <1>3 DEF OnceInv, CopiesOK, LaunchedBy, Quiet
<1>8. EndedOK'
  BY <1>1, <1>2, <1>3, <1>4, <1>5, <1>6 DEF OnceInv, EndedOK
<1>9. RepliesOK'
  BY <1>1, <1>4 DEF OnceInv, RepliesOK, JobsOf
<1>10. \A i \in Jobs : IsPending(i)' => IsPending(i) /\ i \notin S
  <2>1. ASSUME NEW i \in Jobs, NEW l \in Keys, pending'[l] # None, i \in batchJobs'[pending'[l]]
        PROVE  pending[l] # None /\ i \in batchJobs[pending[l]] /\ i \notin S
    <3>1. pending'[l] = pending[l] /\ pending[l] \in Batches
      BY <1>2, <1>3, <2>1 DEF Batches, None
    <3>2. i \in batchJobs[pending[l]]
      BY <1>3, <2>1, <3>1
    <3>3. batchJobs[pending[l]] \subseteq JobsOf(l)
      BY <2>1, <3>1 DEF Inv, BatchesOK
    <3>4. Conversation[i] = l
      BY <3>2, <3>3 DEF JobsOf
    <3>5. CASE l = k
      BY <1>3, <2>1, <3>1, <3>2, <3>5
    <3>6. CASE l # k
      BY <1>4, <2>1, <3>1, <3>2, <3>4, <3>6 DEF JobsOf
    <3>7. QED
      BY <3>5, <3>6
  <2>2. QED
    BY <2>1 DEF IsPending
<1>11. ToldOK'
  <2>1. \A i \in Jobs : ~IsPeeked(i)'
    BY <1>4 DEF IsPeeked
  <2>2. \A i \in Jobs : told'[i] <= 1
    BY <1>2, <1>5, <1>6 DEF OnceInv, ToldOK, ToldOnce
  <2>3. \A i \in Jobs : IsPending(i)' => told'[i] = 0
    BY <1>5, <1>10 DEF OnceInv, ToldOK
  <2>4. ASSUME NEW g \in Histories, NEW i \in handed[g], stage[g] # "free"
        PROVE  i \in Jobs /\ told'[i] = told[i] /\ ~IsPending(i)'
    BY <1>2, <1>5, <1>6, <1>10, <2>4 DEF OnceInv, ToldOK
  <2>5. QED
    BY <1>1, <2>1, <2>2, <2>3, <2>4 DEF OnceInv, ToldOK, ToldOnce
<1>12. QED
  BY <1>7, <1>8, <1>9, <1>11 DEF OnceInv

\* The loop of a drain but for its deliveries.
LEMMA LoopOnce ==
  ASSUME OneLauncher, Inv, OnceInv,
         TimerFires \/ DrainEnds \/ \E b \in rest : DropDead(b) \/ Skip(b)
  PROVE  OnceInv'
<1> USE DEF jobVars, batchVars, flagVars, replyVars
<1>1. /\ UNCHANGED <<jobVars, used, batchKey, batchJobs, replyVars, told>>
      /\ UNCHANGED <<stage, handed, current, left>>
  BY DEF TimerFires, DrainEnds, DropDead, Skip
<1>2. /\ pending \in [Keys -> 0 .. MaxBatch] /\ handed \in [Histories -> SUBSET Jobs]
  BY DEF Inv, TypeOK
<1>3. \A l \in Keys : pending'[l] \in {pending[l], None}
  BY <1>2 DEF TimerFires, DrainEnds, DropDead, Skip
<1>4. \A i \in Jobs : (IsPending(i)' => IsPending(i)) /\ (IsPeeked(i)' => IsPeeked(i))
  BY <1>1, <1>3 DEF IsPending, IsPeeked
<1>5. /\ ~looping' => rest' = {}
      /\ \A b \in rest' : pending'[batchKey[b]] = b
  <2>1. CASE TimerFires
    <3>1. looping' /\ pending' = pending /\ \A b \in rest' : \E k \in Keys : b = pending[k] /\ pending[k] # None
      BY <2>1 DEF TimerFires
    <3>2. QED
      BY <3>1 DEF Inv, BatchesOK
  <2>2. CASE DrainEnds
    BY <2>2 DEF DrainEnds
  <2>3. ASSUME NEW b \in rest, DropDead(b) \/ Skip(b)
        PROVE  rest' = {} /\ looping'
    BY <2>3, OnlyOne DEF DropDead, Skip
  <2>4. QED
    BY <2>1, <2>2, <2>3
<1>6. CopiesOK'
  BY <1>1, <1>5 DEF OnceInv, CopiesOK, LaunchedBy
<1>7. EndedOK' /\ RepliesOK'
  BY <1>1 DEF OnceInv, EndedOK, RepliesOK, JobsOf
<1>8. ToldOK'
  BY <1>1, <1>2, <1>4 DEF OnceInv, ToldOK, ToldOnce
<1>9. QED
  BY <1>6, <1>7, <1>8 DEF OnceInv

\* A delivery takes the pending batch: it is looked at in no other copy,
\* and no reply runs that could have read it.
LEMMA DeliverOnce ==
  ASSUME OneLauncher, Inv, OnceInv, NEW b \in rest, Deliver(b)
  PROVE  OnceInv'
<1> DEFINE k == batchKey[b]
           h == HistoryOf[k]
<1> USE DEF jobVars, replyVars
<1>1. /\ b \in 1 .. used /\ b \in Batches /\ k \in Keys /\ h \in Histories
      /\ pending[k] = b /\ rest = {b}
  <2>1. b \in 1 .. used /\ b \in Batches
    BY DEF Inv, DrainsOK, TypeOK
  <2>2. k \in Keys /\ h \in Histories
    BY <2>1, ConstantsAssumption DEF Inv, TypeOK
  <2>3. rest = {b} /\ pending[k] = b
    BY OnlyOne DEF OnceInv, CopiesOK
  <2>4. QED
    BY <2>1, <2>2, <2>3
<1>2. /\ h \notin delivering /\ reply[h] = NoReply
      /\ looping' = FALSE /\ rest' = {} /\ pending' = [pending EXCEPT ![k] = None]
      /\ stage' = [stage EXCEPT ![h] = "reading"] /\ current' = [current EXCEPT ![h] = b]
      /\ handed' = [handed EXCEPT ![h] = batchJobs[b]] /\ left' = [left EXCEPT ![h] = rest \ {b}]
      /\ UNCHANGED <<jobVars, used, batchKey, batchJobs, replyVars, told>>
  BY DEF Deliver, Deliverable, Idle, Cleared
<1>3. /\ pending \in [Keys -> 0 .. MaxBatch] /\ handed \in [Histories -> SUBSET Jobs]
      /\ stage \in [Histories -> Stages]
      /\ current \in [Histories -> 0 .. MaxBatch] /\ left \in [Histories -> SUBSET Batches]
      /\ batchJobs \in [Batches -> SUBSET Jobs]
  BY DEF Inv, TypeOK
<1>4. stage[h] = "free" /\ \A g \in Histories : stage[g] = "free"
  <2>1. stage[h] = "free"
    BY <1>1, <1>2 DEF Inv, DrainsOK
  <2>2. ASSUME NEW g \in Histories, stage[g] # "free"
        PROVE  g = h
    <3>1. current[g] \in 1 .. used /\ HistoryOf[batchKey[current[g]]] = g
      BY <2>2 DEF Inv, DrainsOK, DeliveryOK
    <3>2. batchKey[current[g]] = batchKey[b]
      BY <1>1, <3>1, OnlyOne
    <3>3. QED
      BY <3>1, <3>2
  <2>3. QED
    BY <2>1, <2>2
<1>5. \A g \in Histories : peeked[g] = {}
  BY <1>1, <1>2, OnlyOne DEF OnceInv, RepliesOK
<1> HIDE DEF k, h
<1>6. \A g \in Histories :
        /\ stage'[g] = IF g = h THEN "reading" ELSE "free"
        /\ g = h => handed'[g] = batchJobs[b] /\ current'[g] = b
        /\ left'[g] = {}
  BY <1>1, <1>2, <1>3, <1>4 DEF OnceInv, CopiesOK
<1>7. CopiesOK'
  BY <1>2, <1>6 DEF OnceInv, CopiesOK, LaunchedBy
<1>8. EndedOK' /\ RepliesOK'
  BY <1>2 DEF OnceInv, EndedOK, RepliesOK, JobsOf
<1>9. \A i \in Jobs : ~IsPeeked(i)' /\ (IsPending(i)' => IsPending(i) /\ i \notin batchJobs[b])
  <2>1. ASSUME NEW i \in batchJobs[b], NEW l \in Keys, pending'[l] # None, i \in batchJobs[pending'[l]]
        PROVE  FALSE
    <3>1. l # k /\ pending'[l] = pending[l] /\ pending[l] \in Batches
      BY <1>1, <1>2, <1>3, <2>1 DEF Batches, None
    <3>2. batchJobs[pending[l]] \subseteq JobsOf(l) /\ batchJobs[b] \subseteq JobsOf(k)
      BY <1>1, <2>1, <3>1 DEF Inv, BatchesOK, k
    <3>3. QED
      BY <2>1, <3>1, <3>2 DEF JobsOf
  <2>2. \A l \in Keys : pending'[l] # None => pending'[l] = pending[l]
    BY <1>1, <1>2, <1>3
  <2>3. QED
    BY <1>2, <1>5, <2>1, <2>2 DEF IsPending, IsPeeked
<1>10. \A i \in batchJobs[b] : i \in Jobs /\ told[i] = 0
  BY <1>1, <1>3 DEF OnceInv, ToldOK, IsPending, None, Batches
<1>11. ToldOK'
  <2>1. \A g \in Histories : \A i \in handed'[g] : stage'[g] # "free" =>
          i \in batchJobs[b] /\ told'[i] = 0
    BY <1>2, <1>6, <1>10
  <2>2. \A g \in Histories : \A i \in handed'[g] :
          /\ stage'[g] \in {"reading", "starting"} => told'[i] = 0
          /\ stage'[g] # "free" => ~IsPending(i)' /\ ~IsPeeked(i)'
    BY <1>9, <1>10, <2>1
  <2>3. \A i \in Jobs : IsPending(i)' \/ IsPeeked(i)' => told'[i] = 0
    BY <1>2, <1>9 DEF OnceInv, ToldOK
  <2>4. ToldOnce'
    BY <1>2 DEF OnceInv, ToldOK, ToldOnce
  <2>5. QED
    BY <2>2, <2>3, <2>4 DEF ToldOK
<1>12. QED
  BY <1>7, <1>8, <1>11 DEF OnceInv

\* A reply begins for the conversation of its delivery.
LEMMA ReplyOnce ==
  ASSUME Inv, OnceInv, NEW h \in Histories, BackgroundReply(h)
  PROVE  OnceInv'
<1> DEFINE k == batchKey[current[h]]
<1> USE DEF jobVars, batchVars
<1>1. /\ Quiet /\ stage[h] = "reading" /\ reply[h] = NoReply
      /\ reply' = [reply EXCEPT ![h] = k] /\ stage' = [stage EXCEPT ![h] = "starting"]
      /\ UNCHANGED <<jobVars, batchVars, looping, rest, handed, current, left, peeked, told>>
  BY DEF BackgroundReply, Idle
<1>2. reply \in [Histories -> Replies] /\ stage \in [Histories -> Stages]
  BY DEF Inv, TypeOK
<1>3. HistoryOf[k] = h
  BY <1>1 DEF Inv, DrainsOK, DeliveryOK
<1>4. peeked[h] = {}
  BY <1>1 DEF OnceInv, RepliesOK
<1> HIDE DEF k
<1>5. \A g \in Histories :
        /\ stage'[g] # "free" => stage[g] # "free"
        /\ stage'[g] \in {"reading", "starting"} => stage[g] \in {"reading", "starting"}
        /\ reply'[g] = IF g = h THEN k ELSE reply[g]
  BY <1>1, <1>2
<1>6. CopiesOK' /\ EndedOK'
  BY <1>1, <1>5 DEF OnceInv, CopiesOK, LaunchedBy, EndedOK
<1>7. RepliesOK'
  BY <1>1, <1>3, <1>4, <1>5 DEF OnceInv, RepliesOK, JobsOf
<1>8. ToldOK'
  BY <1>1, <1>5 DEF OnceInv, ToldOK, ToldOnce, IsPending, IsPeeked
<1>9. QED
  BY <1>6, <1>7, <1>8 DEF OnceInv

\* The results of a delivery are told when the model is asked about them.
LEMMA AskedOnce ==
  ASSUME OneLauncher, Inv, OnceInv, NEW h \in Histories, ModelAsked(h)
  PROVE  OnceInv'
<1> DEFINE S == handed[h]
<1> USE DEF jobVars, batchVars, replyVars
<1>1. /\ Quiet /\ stage[h] = "starting" /\ stage' = [stage EXCEPT ![h] = "reply"]
      /\ told' = Bump(S)
      /\ UNCHANGED <<jobVars, batchVars, looping, rest, handed, current, left, reply, peeked>>
  BY DEF ModelAsked
<1>2. /\ handed \in [Histories -> SUBSET Jobs] /\ told \in [Jobs -> Nat]
      /\ stage \in [Histories -> Stages]
      /\ batchJobs \in [Batches -> SUBSET Jobs] /\ peeked \in [Histories -> SUBSET Jobs]
  BY DEF Inv, TypeOK
<1>3. current[h] \in Batches /\ S = batchJobs[current[h]]
  BY <1>1, ConstantsAssumption DEF Inv, DrainsOK, DeliveryOK, OnceInv, CopiesOK, TypeOK, Batches
<1>4. \A i \in Jobs : told'[i] = IF i \in S THEN told[i] + 1 ELSE told[i]
  BY <1>1 DEF Bump
<1>5. \A i \in S : i \in Jobs /\ told[i] = 0 /\ ~IsPending(i) /\ ~IsPeeked(i) /\ job[i] = "done" /\ i \in acked
  BY <1>1, <1>2, <1>3 DEF OnceInv, ToldOK, EndedOK
<1> HIDE DEF S
<1>6. \A g \in Histories : stage'[g] = IF g = h THEN "reply" ELSE "free"
  BY <1>1, <1>2, OnlyOne
<1>7. CopiesOK'
  BY <1>1, <1>3, <1>6 DEF OnceInv, CopiesOK, LaunchedBy, S
<1>8. EndedOK' /\ RepliesOK'
  BY <1>1, <1>4, <1>5 DEF OnceInv, EndedOK, RepliesOK, JobsOf
<1>9. \A i : (IsPending(i)' <=> IsPending(i)) /\ (IsPeeked(i)' <=> IsPeeked(i))
  BY <1>1 DEF IsPending, IsPeeked
<1>10. ToldOK'
  <2>1. ToldOnce'
    BY <1>2, <1>4, <1>5 DEF OnceInv, ToldOK, ToldOnce
  <2>2. \A i \in Jobs : IsPending(i)' \/ IsPeeked(i)' => told'[i] = 0
    BY <1>4, <1>5, <1>9 DEF OnceInv, ToldOK
  <2>3. \A g \in Histories : stage'[g] \notin {"reading", "starting"}
    BY <1>6
  <2>4. \A g \in Histories : stage'[g] # "free" => g = h
    BY <1>6
  <2>5. \A i \in handed'[h] : ~IsPending(i)' /\ ~IsPeeked(i)'
    BY <1>1, <1>5, <1>9 DEF S
  <2>6. QED
    BY <2>1, <2>2, <2>3, <2>4, <2>5 DEF ToldOK
<1>11. QED
  BY <1>7, <1>8, <1>10 DEF OnceInv

\* A batch that goes back to its conversation, with what is pending there.
LEMMA RequeueOnce ==
  ASSUME Inv, OnceInv, NEW h \in Histories, stage[h] # "free",
         \/ Requeue(batchKey[current[h]], current[h])
         \/ UNCHANGED <<batchJobs, pending>>
  PROVE  /\ \A i \in Jobs : IsPending(i)' => IsPending(i) \/ i \in handed[h]
         /\ \A b \in Batches : \A i \in batchJobs'[b] : job[i] = "done" /\ i \in acked
<1> DEFINE c == current[h]
           k == batchKey[current[h]]
<1>1. /\ batchJobs \in [Batches -> SUBSET Jobs] /\ pending \in [Keys -> 0 .. MaxBatch]
      /\ batchKey \in [Batches -> Keys]
  BY DEF Inv, TypeOK
<1>2. c \in Batches /\ k \in Keys /\ handed[h] = batchJobs[c]
  <2>1. c \in 1 .. used /\ used \in 0 .. MaxBatch /\ handed[h] = batchJobs[c]
    BY DEF Inv, DrainsOK, DeliveryOK, OnceInv, CopiesOK, TypeOK
  <2>2. c \in Batches
    BY <2>1, ConstantsAssumption DEF Batches
  <2>3. QED
    BY <1>1, <2>1, <2>2
<1>3. \A l \in Keys : pending[l] # None => pending[l] \in Batches
  BY <1>1 DEF Batches, None
<1>4. \A b \in Batches : \A i \in batchJobs[b] : job[i] = "done" /\ i \in acked
  BY DEF OnceInv, EndedOK
<1> HIDE DEF c, k
<1>5. CASE UNCHANGED <<batchJobs, pending>>
  BY <1>4, <1>5 DEF IsPending
<1>6. CASE /\ batchJobs' = IF pending[k] = None THEN batchJobs
                           ELSE [batchJobs EXCEPT ![c] = @ \cup batchJobs[pending[k]]]
           /\ pending' = [pending EXCEPT ![k] = c]
  <2>1. \A b \in Batches : \A i \in batchJobs'[b] :
          i \in batchJobs[b] \/ (b = c /\ pending[k] # None /\ i \in batchJobs[pending[k]])
    BY <1>1, <1>2, <1>6
  <2>2. \A b \in Batches : \A i \in batchJobs'[b] : job[i] = "done" /\ i \in acked
    BY <1>2, <1>3, <1>4, <2>1
  <2>3. ASSUME NEW l \in Keys, pending'[l] # None, NEW i \in batchJobs'[pending'[l]]
        PROVE  IsPending(i) \/ i \in handed[h]
    <3>1. CASE l = k
      <4>1. pending'[l] = c
        BY <1>1, <1>2, <1>6, <3>1
      <4>2. i \in batchJobs[c] \/ (pending[k] # None /\ i \in batchJobs[pending[k]])
        BY <1>2, <2>1, <2>3, <4>1
      <4>3. QED
        BY <1>2, <4>2 DEF IsPending
    <3>2. CASE l # k
      <4>1. pending'[l] = pending[l] /\ pending[l] \in Batches /\ pending[l] # None
        BY <1>1, <1>3, <1>6, <2>3, <3>2
      <4>2. i \in batchJobs[pending[l]] \/ (pending[k] # None /\ i \in batchJobs[pending[k]])
        BY <2>1, <2>3, <4>1
      <4>3. QED
        BY <1>2, <4>1, <4>2 DEF IsPending
    <3>3. QED
      BY <3>1, <3>2
  <2>4. QED
    BY <2>2, <2>3 DEF IsPending
<1>7. QED
  BY <1>5, <1>6 DEF Requeue, c, k

\* A delivery is over: refused, failed, or stored with its reply, whose last
\* save may fail.
LEMMA DeliveryEndsOnce ==
  ASSUME OneLauncher, Inv, OnceInv, NEW h \in Histories,
         \/ DeliveryRefused(h) \/ DeliveryFails(h)
         \/ StartFails(h) \/ ReplyNotAsked(h) \/ BackgroundReplyEnds(h)
  PROVE  OnceInv'
<1> USE DEF jobVars, batchVars, flagVars, replyVars
<1>1. /\ stage[h] # "free" /\ Quiet /\ Resumes(h)
      /\ UNCHANGED <<jobVars, used, batchKey>>
      /\ \/ Requeue(batchKey[current[h]], current[h])
         \/ UNCHANGED <<batchJobs, pending>>
  BY DEF DeliveryRefused, DeliveryFails, StartFails, ReplyNotAsked, BackgroundReplyEnds, ReplyOver
<1>2. \/ UNCHANGED <<reply, peeked>>
      \/ reply' = [reply EXCEPT ![h] = NoReply] /\ peeked' = [peeked EXCEPT ![h] = {}]
  BY DEF DeliveryRefused, DeliveryFails, StartFails, ReplyNotAsked, BackgroundReplyEnds, ReplyOver
<1>3. \/ stage[h] \in {"reading", "starting"} /\ told' = told
      \/ stage[h] = "starting" /\ told' = Bump(handed[h]) /\ UNCHANGED <<batchJobs, pending>>
      \/ stage[h] = "reply" /\ told' = told /\ UNCHANGED <<batchJobs, pending>>
      \/ /\ stage[h] = "reply"
         /\ told' = [j \in Jobs |-> IF j \in handed[h] THEN told[j] - 1 ELSE told[j]]
  BY DEF DeliveryRefused, DeliveryFails, StartFails, ReplyNotAsked, BackgroundReplyEnds, ReplyOver
<1>4. /\ handed \in [Histories -> SUBSET Jobs] /\ told \in [Jobs -> Nat]
      /\ reply \in [Histories -> Replies] /\ stage \in [Histories -> Stages]
      /\ peeked \in [Histories -> SUBSET Jobs] /\ left \in [Histories -> SUBSET Batches]
  BY DEF Inv, TypeOK
<1>5. /\ \A i \in Jobs : IsPending(i)' => IsPending(i) \/ i \in handed[h]
      /\ \A b \in Batches : \A i \in batchJobs'[b] : job[i] = "done" /\ i \in acked
  BY <1>1, RequeueOnce
<1>6. \A g \in Histories : stage'[g] = "free" /\ left'[g] = {}
  BY <1>1, <1>4, OnlyOne DEF Resumes, OnceInv, CopiesOK
<1>7. rest' = {} /\ looping'
  BY <1>1 DEF Resumes, OnceInv, CopiesOK
<1>8. CopiesOK'
  BY <1>1, <1>6, <1>7 DEF OnceInv, CopiesOK, LaunchedBy
<1>9. \A g \in Histories : \/ reply'[g] = reply[g] /\ peeked'[g] = peeked[g]
                           \/ reply'[g] = NoReply /\ peeked'[g] = {}
  BY <1>2, <1>4
<1>10. RepliesOK'
  BY <1>9 DEF OnceInv, RepliesOK, JobsOf
<1>11. \A i \in Jobs : IsPeeked(i)' => IsPeeked(i)
  BY <1>9 DEF IsPeeked
<1>12. \A i \in Jobs : \/ told'[i] = told[i]
                       \/ i \in handed[h] /\ stage[h] = "reply" /\ told[i] = 1 /\ told'[i] = 0
                       \/ /\ i \in handed[h] /\ told[i] = 0 /\ told'[i] = 1
                          /\ UNCHANGED <<batchJobs, pending>>
  <2>1. stage[h] = "reply" => \A i \in handed[h] : told[i] = 1
    BY <1>4 DEF Inv, DrainsOK, DeliveryOK, OnceInv, ToldOK, ToldOnce
  <2>2. stage[h] = "starting" => \A i \in handed[h] : told[i] = 0
    BY DEF OnceInv, ToldOK
  <2>3. QED
    BY <1>3, <1>4, <2>1, <2>2 DEF Bump
<1>13. EndedOK'
  <2>1. current[h] \in Batches /\ handed[h] = batchJobs[current[h]]
    BY <1>1, ConstantsAssumption DEF Inv, DrainsOK, DeliveryOK, OnceInv, CopiesOK, TypeOK, Batches
  <2>2. \A i \in handed[h] : job[i] = "done" /\ i \in acked
    BY <2>1 DEF OnceInv, EndedOK
  <2>3. QED
    BY <1>1, <1>5, <1>9, <1>12, <2>2 DEF OnceInv, EndedOK
<1>14. ToldOK'
  <2>1. ToldOnce'
    BY <1>12 DEF OnceInv, ToldOK, ToldOnce
  <2>2. ASSUME NEW i \in Jobs, IsPeeked(i)' \/ IsPending(i)'
        PROVE  told'[i] = 0
    <3>1. CASE i \notin handed[h]
      BY <1>5, <1>11, <1>12, <2>2, <3>1 DEF OnceInv, ToldOK
    <3>2. CASE i \in handed[h]
      <4>1. ~IsPeeked(i) /\ ~IsPending(i) /\ (stage[h] \in {"reading", "starting"} => told[i] = 0)
        BY <1>1, <3>2 DEF OnceInv, ToldOK
      <4>2. IsPending(i)'
        BY <1>11, <2>2, <4>1
      <4>3. ~UNCHANGED <<batchJobs, pending>>
        BY <4>1, <4>2 DEF IsPending
      <4>4. \/ stage[h] \in {"reading", "starting"} /\ told' = told
            \/ told' = [j \in Jobs |-> IF j \in handed[h] THEN told[j] - 1 ELSE told[j]]
        BY <1>3, <4>3
      <4>5. stage[h] = "reply" => told[i] = 1
        BY <1>4, <3>2 DEF Inv, DrainsOK, DeliveryOK, OnceInv, ToldOK, ToldOnce
      <4>6. QED
        BY <1>3, <3>2, <4>1, <4>3, <4>4, <4>5
    <3>3. QED
      BY <3>1, <3>2
  <2>3. QED
    BY <1>6, <2>1, <2>2 DEF ToldOK
<1>15. QED
  BY <1>8, <1>10, <1>13, <1>14 DEF OnceInv

LEMMA NextOnce == OneLauncher /\ Inv /\ OnceInv /\ [Next]_vars => OnceInv'
<1> SUFFICES ASSUME OneLauncher, Inv, OnceInv, [Next]_vars PROVE OnceInv'
  OBVIOUS
<1>1. CASE UNCHANGED vars
  BY <1>1 DEF vars, jobVars, batchVars, flagVars, drainVars, replyVars, OnceInv, CopiesOK, EndedOK,
       RepliesOK, ToldOK, ToldOnce, IsPending, IsPeeked, LaunchedBy, JobsOf
<1>2. ASSUME NEW h \in Histories, HistoryStep(h)
      PROVE  OnceInv'
  BY <1>2, AcknowledgeOnce, UserOnce, ReplyOnce, AskedOnce, DeliveryEndsOnce DEF HistoryStep
<1>3. CASE DrainStep
  BY <1>3, LoopOnce, DeliverOnce DEF DrainStep
<1>4. QED
  BY <1>1, <1>2, <1>3, JobsOnce, UserOnce DEF Next

(* As long as all commands are of one conversation no result is put before *)
(* the model twice, whatever drains, deliveries, running replies, get_job, *)
(* stops and session losses do in between (backgroundJobs.ts: drain,       *)
(* requeue, acknowledge).  With a second conversation a stale copy of a    *)
(* batch may be delivered again, and the theorem needs its hypothesis.     *)
THEOREM OneLauncherToldOnce ==
  ASSUME OneLauncher
  PROVE  Spec => []ToldOnce
<1>1. Init => Inv /\ OnceInv
  BY InitInv, OnceInit
<1>2. Inv /\ OnceInv /\ [Next]_vars => Inv' /\ OnceInv'
  BY NextInv, NextOnce
<1>3. OnceInv => ToldOnce
  BY DEF OnceInv, ToldOK
<1>4. QED
  BY <1>1, <1>2, <1>3, PTL DEF Spec
=============================================================================
