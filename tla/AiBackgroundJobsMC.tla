------------------------- MODULE AiBackgroundJobsMC -------------------------
(* Instances of AiBackgroundJobs for TLC: two conversations that share a   *)
(* terminal and its history, and two of different terminals.               *)
EXTENDS AiBackgroundJobs, TLC

CONSTANTS k1, k2, h1, h2, s1, s2, j1, j2, j3

OneConversation == (j1 :> k1) @@ (j2 :> k1)

SharedHistoryOf == (k1 :> h1) @@ (k2 :> h1)
SharedSessionOf == (k1 :> s1) @@ (k2 :> s1)

TwoHistoriesOf == (k1 :> h1) @@ (k2 :> h2)
TwoSessionsOf == (k1 :> s1) @@ (k2 :> s2)
TwoConversations == (j1 :> k1) @@ (j2 :> k2) @@ (j3 :> k2)
=============================================================================
