----------------------------- MODULE MCServices -----------------------------
(***************************************************************************)
(* The services around a node that share no state: the download scheduler,   *)
(* withdrawals, the mining pool, webhook delivery, the explorer index and    *)
(* the soft-fork rehearsal.  A behaviour is about one of them, so that their *)
(* states add up instead of multiplying; the others stay in their first      *)
(* state.                                                                    *)
(***************************************************************************)
EXTENDS HeaderSync, Withdrawals, MiningPool, Webhooks, ExplorerIndex, VersionBits, TLC

VARIABLE service

\* Functions and negative numbers a .cfg cannot write.
MCNormal == "raw" :> "q1" @@ "q2" :> "q2"
MCGroup == "q1" :> "q1" @@ "q2" :> "q2"
MCBanAt == -1
MCLowScore == -1
MCDue == "w1" :> 2
MCMinApprovals == "hot" :> 2
MCSingleLimit == "hot" :> 3
MCBlockParent == <<0, 0, 2, 0>>
MCBlockHeight == 0 :> 0 @@ 1 :> 1 @@ 2 :> 1 @@ 3 :> 2 @@ 4 :> 1
MCZeroes == <<2, 1, 1, 3>>
MCMaxAttempts == <<2, 2>>
MCAbove == <<0, 1, 0, 3, 4>>
MCLevel == <<1, 2, 1, 2, 3>>
MCTxsOf == <<{"x"}, {"y"}, {}, {"x"}, {"y", "z"}>>
HighestBalance == 5

ServicesInit ==
  /\ service \in {"sync", "custody", "pool", "hooks", "index", "bits"}
  /\ SyncInit /\ PoolInit /\ HooksInit /\ IndexInit /\ BitsInit
  /\ CustodyInit /\ (service # "custody" => \A a \in DOMAIN balance : balance[a] = 0)

syncRest == <<service, custodyVars, poolVars, hookVars, indexVars, bitsVars>>
custodyRest == <<service, syncVars, poolVars, hookVars, indexVars, bitsVars>>
poolRest == <<service, syncVars, custodyVars, hookVars, indexVars, bitsVars>>
hooksRest == <<service, syncVars, custodyVars, poolVars, indexVars, bitsVars>>
indexRest == <<service, syncVars, custodyVars, poolVars, hookVars, bitsVars>>
bitsRest == <<service, syncVars, custodyVars, poolVars, hookVars, indexVars>>

SyncLoad == service = "sync" /\ SyncNext /\ UNCHANGED syncRest
CustodyLoad == /\ service = "custody" /\ CustodyNext /\ UNCHANGED custodyRest
               /\ \A a \in DOMAIN balance : balance'[a] <= HighestBalance
PoolLoad == service = "pool" /\ PoolNext /\ UNCHANGED poolRest
HooksLoad == service = "hooks" /\ HooksNext /\ UNCHANGED hooksRest
IndexLoad == service = "index" /\ IndexNext /\ UNCHANGED indexRest
BitsLoad == service = "bits" /\ BitsNext /\ UNCHANGED bitsRest

ServicesNext == SyncLoad \/ CustodyLoad \/ PoolLoad \/ HooksLoad \/ IndexLoad \/ BitsLoad

\* SyncFairness and HooksFairness, of the behaviours they are about.
ServicesFairness ==
  /\ WF_syncVars(service = "sync" /\ Assign) /\ WF_syncVars(service = "sync" /\ RetryStalled)
  /\ WF_syncVars(service = "sync" /\ SyncTick)
  /\ WF_hookVars(service = "hooks" /\ StartBatch(FALSE, FALSE))
  /\ WF_hookVars(service = "hooks" /\ \E ok \in BOOLEAN : Deliver(ok))
  /\ WF_hookVars(service = "hooks" /\ EndBatch) /\ WF_hookVars(service = "hooks" /\ HookTick)

ServicesSpec ==
  /\ ServicesInit
  /\ [][ServicesNext]_<<service, syncVars, custodyVars, poolVars, hookVars, indexVars, bitsVars>>
  /\ ServicesFairness
=============================================================================
