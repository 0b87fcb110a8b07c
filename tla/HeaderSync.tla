----------------------------- MODULE HeaderSync -----------------------------
(***************************************************************************)
(* Scheduling of block downloads (netcoin/sync.py): header segments become  *)
(* jobs, jobs are assigned to peers of the peer database (netcoin/peerdb.py)*)
(* and answered late, never, or in any order.  Headers are heights on one   *)
(* chain above the local tip; a segment either links or it does not.  The   *)
(* calls come from transports outside these files: any call at any time.    *)
(* Times are ages and remaining seconds, so that the clock needs no bound.  *)
(***************************************************************************)
EXTENDS Integers, FiniteSets

CONSTANTS
  Addresses,        \* the forms in which callers name peers
  Sources,            \* the normalised addresses of the peer database
  Normal,           \* PeerDatabase.normalize: [Addresses -> Sources]
  Group,            \* diversity_key: [Sources -> group]
  Blocks,           \* heights 1..n above the tip
  MaxRequests, RetrySeconds, StallSeconds, Limit,
  Penalty, BanAt, BanSeconds,     \* record_failure's 5, -20 and 3600
  LowScore, TopScore              \* bound below; TopScore is record_success's cap

\* The limits are the caller's; a max_attempts of 0 would be one request short of
\* the first.  Peers are finitely many.
ASSUME SchedulerAssumption ==
  {MaxRequests, RetrySeconds, StallSeconds} \subseteq Nat /\ MaxRequests > 0 /\ IsFiniteSet(Addresses)

VARIABLES
  jobs,             \* block -> its DownloadJob, NoJob when it has none
  bad,              \* bad_peers, as the strings they were reported under
  asked,            \* block -> requests sent and not answered yet
  db                \* peer database: score and remaining ban of each peer

syncVars == <<jobs, bad, asked, db>>

NoJob == [status |-> "none", peer |-> "nobody", attempts |-> 0, age |-> 0]
Old == IF StallSeconds > RetrySeconds THEN StallSeconds ELSE RetrySeconds
Known == {b \in Blocks : jobs[b].status # "none"}

SyncInit ==
  /\ jobs = [b \in Blocks |-> NoJob]
  /\ bad = {}
  /\ asked = [b \in Blocks |-> 0]
  /\ db = [p \in Sources |-> [score |-> 0, ban |-> 0]]

\* candidates: peers that are not banned, the best score of each group.
Candidates(d) ==
  {p \in Sources : /\ d[p].ban = 0
                 /\ \A q \in Sources : Group[q] = Group[p] /\ d[q].ban = 0 => d[q].score <= d[p].score}
\* One order the query may give them in: scores descending, one per group.
Selections(d) ==
  {S \in SUBSET Candidates(d) : \A g \in {Group[p] : p \in Candidates(d)} : Cardinality({p \in S : Group[p] = g}) = 1}

\* record_headers with a segment that links: jobs for blocks without one.
RecordHeaders(a, top) ==
  /\ jobs' = [b \in Blocks |->
                IF b <= top /\ jobs[b] = NoJob
                THEN [status |-> "queued", peer |-> a, attempts |-> 0, age |-> Old] ELSE jobs[b]]
  /\ db' = [db EXCEPT ![Normal[a]].score = IF @ + 1 > TopScore THEN TopScore ELSE @ + 1]
  /\ UNCHANGED <<bad, asked>>

MarkedBad(a) ==
  [b \in Blocks |-> IF jobs[b].peer = a /\ jobs[b].status \notin {"none", "done", "failed"}
                    THEN [jobs[b] EXCEPT !.status = "retry"] ELSE jobs[b]]

\* ... and with one that does not: mark_bad_peer, then the coordinator's penalty.
BadHeaders(a) ==
  LET p == Normal[a]
      score == db[p].score - Penalty
  IN  /\ bad' = bad \union {a}
      /\ jobs' = MarkedBad(a)
      /\ db' = [db EXCEPT ![p].score = IF score < LowScore THEN LowScore ELSE score,
                          ![p].ban = IF score <= BanAt THEN BanSeconds ELSE @]
      /\ UNCHANGED asked

\* Faulty variant: jobs to be retried are not ready.
FaultyReady ==
  LET ready == {b \in Known : jobs[b].status = "queued" /\ jobs[b].age >= RetrySeconds}
  IN  {b \in ready : Cardinality({c \in ready : c < b}) < Limit}

\* next_jobs: the ready ones with the lowest heights.
Ready ==
  LET ready == {b \in Known : jobs[b].status \in {"queued", "retry"} /\ jobs[b].age >= RetrySeconds}
  IN  {b \in ready : Cardinality({c \in ready : c < b}) < Limit}

\* assignment_plan: round robin over the healthy of the selected peers.  The
\* order of equal scores is not fixed, so any even spread may result.
Assign ==
  \E S \in Selections(db) :
    LET healthy == S \ bad
    IN  /\ healthy # {} /\ Ready # {}
        /\ \E to \in [Ready -> healthy] :
             /\ \A p, q \in healthy :
                  Cardinality({b \in Ready : to[b] = p}) <= Cardinality({b \in Ready : to[b] = q}) + 1
             /\ jobs' = [b \in Blocks |->
                           IF b \in Ready
                           THEN [status |-> "downloading", peer |-> to[b], attempts |-> jobs[b].attempts + 1, age |-> 0]
                           ELSE jobs[b]]
        /\ asked' = [b \in Blocks |-> IF b \in Ready THEN asked[b] + 1 ELSE asked[b]]
        /\ UNCHANGED <<bad, db>>

\* An answer, to whichever request of the block it belongs: mark_done,
\* mark_failed.  Neither looks at the status.
BodyArrives(b) ==
  /\ asked[b] > 0
  /\ asked' = [asked EXCEPT ![b] = @ - 1]
  /\ jobs' = [jobs EXCEPT ![b].status = "done"]
  /\ UNCHANGED <<bad, db>>

\* Faulty variant: one failure is enough to give up.
FaultyGivenUp(b) == "failed"

AfterFailure(b) == IF jobs[b].attempts >= MaxRequests THEN "failed" ELSE "retry"

BodyFails(b) ==
  /\ asked[b] > 0
  /\ asked' = [asked EXCEPT ![b] = @ - 1]
  /\ jobs' = [jobs EXCEPT ![b].status = AfterFailure(b)]
  /\ UNCHANGED <<bad, db>>

Stalled == {b \in Known : jobs[b].status = "downloading" /\ jobs[b].age >= StallSeconds}

RetryStalled ==
  /\ Stalled # {}
  /\ jobs' = [b \in Blocks |-> IF b \in Stalled THEN [jobs[b] EXCEPT !.status = AfterFailure(b)] ELSE jobs[b]]
  /\ UNCHANGED <<bad, asked, db>>

SyncTick ==
  /\ jobs' = [b \in Blocks |-> [jobs[b] EXCEPT !.age = IF b \in Known /\ @ < Old THEN @ + 1 ELSE @]]
  /\ db' = [p \in Sources |-> [db[p] EXCEPT !.ban = IF @ > 0 THEN @ - 1 ELSE 0]]
  /\ UNCHANGED <<bad, asked>>

SyncNext ==
  \/ \E a \in Addresses : BadHeaders(a) \/ \E top \in Blocks : RecordHeaders(a, top)
  \/ Assign \/ RetryStalled \/ SyncTick
  \/ \E b \in Blocks : BodyArrives(b) \/ BodyFails(b)

SyncSpec == SyncInit /\ [][SyncNext]_syncVars

\* What the scheduler needs of its callers: that plans are asked for, stalled
\* jobs swept and time passes.  No fairness for answers or headers.
SyncFairness == WF_syncVars(Assign) /\ WF_syncVars(RetryStalled) /\ WF_syncVars(SyncTick)

(* ---------------- properties --------------------------------------------- *)
\* A job is downloaded from nobody the scheduler has marked bad under the name
\* it assigned: marking takes the peer's running jobs back (sync.py:275-280).
BadPeersReleased == \A b \in Known : jobs[b].status = "downloading" => jobs[b].peer \notin bad

\* The same, for the peer the name stands for: what the transport's form of an
\* address means to the database's (sync.py:317-333, peerdb.py normalize).
BadPeersUnused ==
  \A b \in Known : jobs[b].status = "downloading" => \A a \in bad : Normal[a] # jobs[b].peer

\* A job is given up only after max_attempts requests, whichever of sweeps and
\* late answers give it up; and each marking of a peer costs at most one
\* request more than that (sync.py:260-280, 335-344).
AttemptsCounted ==
  \A b \in Known :
    /\ jobs[b].status = "failed" => jobs[b].attempts >= MaxRequests
    /\ jobs[b].attempts <= MaxRequests + Cardinality(bad)
    /\ asked[b] <= jobs[b].attempts

\* The bookkeeping of peers and of attempts together.
JobsSound == BadPeersReleased /\ AttemptsCounted

\* Every queued block is downloaded or given up, whatever the peers answer or
\* fail to, unless no usable peer is left (sync.py:247-344).
JobsSettle ==
  \A b \in Blocks :
    b \in Known ~> (jobs[b].status \in {"done", "failed"} \/ \E S \in Selections(db) : S \subseteq bad)
=============================================================================
