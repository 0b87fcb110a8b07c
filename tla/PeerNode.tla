------------------------------ MODULE PeerNode ------------------------------
(***************************************************************************)
(* The HTTP node's dealings with its peers (netcoin/node.py): the peer set  *)
(* and the timed bans with their two files, the scores, and the relay queue *)
(* with its inventory, attempts and backoff.  Every request has a thread of *)
(* its own and none of this state has a lock, so a drain of the queue is    *)
(* split at its network calls and an add_peer between its checks and its    *)
(* effect; the rest of a request is one step.                               *)
(***************************************************************************)
EXTENDS Integers, SequencesExt

CONSTANTS
  Peers,            \* peer URLs other than self_url
  TrustSets,        \* the sets of configured (--peer) peers a start may have
  FirstPeers,       \* the peers file the first start finds
  MaxPeers,         \* max_peers
  BanThreshold,     \* ban_threshold, negative
  BanTTL,           \* ban_ttl_seconds
  Transactions, BlockIds,  \* inventory ids to relay; a block may be forced again
  MaxInventory, MaxQueue, MaxAttempts, Backoff,   \* the relay limits of __init__
  Threads,          \* threads that may drain the queue
  MaxItems,         \* bound on the relay items ever queued
  MinScore, MaxScore, \* bounds: no visit is modelled past them
  MaxTime, MaxRestarts, None

ASSUME NetworkAssumption ==
  /\ TrustSets \subseteq SUBSET Peers /\ FirstPeers \subseteq Peers
  /\ BanThreshold \in Int /\ BanTTL \in Nat /\ MaxTime \in Nat
  /\ MaxInventory \in Nat /\ MaxQueue \in Nat \ {0} /\ MaxAttempts \in Nat \ {0}
  /\ Threads # {}

VARIABLES
  clock,
  restarts,
  trusted,          \* trusted_peers
  rep,              \* peers, bans (peer -> ban time or None), scores; and the two files
  adding,           \* peers that passed add_peer's checks and are not in yet
  inventory,        \* _relay_inventory, oldest first
  items,            \* the RelayItem objects, in creation order
  queue,            \* the list object _relay_queue names: indices of items
  drain,            \* per thread, the frame of its drain_relay_queue
  ghost             \* what the properties excuse: raced bans, overlapping drains

relayVars == <<inventory, items, queue, drain>>
vars == <<clock, restarts, trusted, rep, adding, inventory, items, queue, drain, ghost>>

Banned(r) == {p \in Peers : r.bans[p] # None}
NoBans == [p \in Peers |-> None]

\* _save_peers and _save_banned write what memory holds.
SavePeers(r) == [r EXCEPT !.peersFile = r.peers]
SaveBanned(r) == [r EXCEPT !.bansFile = r.bans]

Prune(r, now) ==
  LET expired == {p \in Banned(r) : now - r.bans[p] > BanTTL}
  IN  IF expired = {} THEN r
      ELSE SaveBanned([r EXCEPT !.bans = [p \in Peers |-> IF p \in expired THEN None ELSE @[p]]])

\* ban_peer up to the first file, of each of the peers in out, and all of it.
BanInMemory(r, out, now) ==
  SavePeers([r EXCEPT !.bans = [p \in Peers |-> IF p \in out THEN now ELSE @[p]],
                      !.scores = [p \in Peers |-> IF p \in out THEN 0 ELSE @[p]],
                      !.peers = @ \ out])

\* Faulty variant: the banned peer stays on the list.
FaultyBan(r, ps, now) ==
  SaveBanned(SavePeers([r EXCEPT !.bans = [p \in Peers |-> IF p \in ps \ trusted THEN now ELSE @[p]]]))

Ban(r, ps, now) ==
  IF ps \subseteq trusted THEN r ELSE SaveBanned(BanInMemory(r, ps \ trusted, now))

\* score_peer, one after the other, of all the peers that delta is about.
Scored(r, delta, now) ==
  LET scores == [p \in Peers |-> IF p \in DOMAIN delta THEN r.scores[p] + delta[p] ELSE r.scores[p]]
  IN  Ban([r EXCEPT !.scores = scores],
          {p \in Peers : p \in DOMAIN delta /\ scores[p] <= BanThreshold}, now)

Unbanned(r, ps) ==
  IF ps \intersect Banned(r) = {} THEN r
  ELSE SaveBanned([r EXCEPT !.bans = [p \in Peers |-> IF p \in ps THEN None ELSE @[p]]])

\* A start with configured peers: _load_banned, _unban_trusted, _load_peers, then
\* add_peer for each, in their order, until the list is full.
Loaded(r, configured, now) ==
  Unbanned(Prune([r EXCEPT !.bans = r.bansFile, !.scores = [p \in Peers |-> 0]], now), configured)

Filled(list, configured) ==
  {list \union added : added \in {s \in SUBSET (configured \ list) :
     /\ s = {} \/ Cardinality(list \union s) <= MaxPeers
     /\ s = configured \ list \/ Cardinality(list \union s) >= MaxPeers}}

Started(r, configured, now) ==
  {SavePeers([Loaded(r, configured, now) EXCEPT !.peers = list]) : list \in Filled(r.peersFile, configured)}

Frame(pc, live, src, now) ==
  [pc |-> pc, live |-> live, src |-> src, pos |-> 1, rem |-> <<>>, now |-> now, to |-> {}]
Idle == Frame("idle", FALSE, <<>>, 0)

Init ==
  /\ clock = 0 /\ restarts = 0
  /\ trusted \in TrustSets
  /\ rep \in Started([peers |-> {}, bans |-> NoBans, scores |-> [p \in Peers |-> 0],
                    peersFile |-> FirstPeers, bansFile |-> NoBans], trusted, 0)
  /\ adding = {}
  /\ inventory = <<>> /\ items = <<>> /\ queue = <<>>
  /\ drain = [t \in Threads |-> Idle]
  /\ ghost = [raced |-> {}, overlap |-> FALSE]

(* ---------------- peers and bans ---------------------------------------- *)
CheckPeer(p) ==
  /\ p \notin adding
  /\ rep' = IF p \in trusted THEN rep ELSE Prune(rep, clock)
  /\ IF (p \in trusted \/ rep'.bans[p] = None) /\ (p \in rep.peers \/ Cardinality(rep.peers) < MaxPeers)
     THEN adding' = adding \union {p}
     ELSE adding' = adding
  /\ UNCHANGED <<clock, restarts, trusted, relayVars, ghost>>

\* The set operation and the file: the cap is not looked at again.
AddPeer(p) ==
  /\ p \in adding
  /\ adding' = adding \ {p}
  /\ rep' = SavePeers([rep EXCEPT !.peers = @ \union {p}])
  /\ UNCHANGED <<clock, restarts, trusted, relayVars, ghost>>

\* Every step that may ban goes through here, to note the bans that race with
\* an add_peer whose checks are over.
SetRep(r) ==
  /\ rep' = r
  /\ ghost' = [ghost EXCEPT !.raced = @ \union (Banned(r) \intersect adding)]

\* An operator's ban and unban.
BanPeer(p) ==
  /\ SetRep(Ban(rep, {p}, clock))
  /\ UNCHANGED <<clock, restarts, trusted, adding, relayVars>>

UnbanPeer(p) ==
  /\ rep.bans[p] # None
  /\ SetRep(Unbanned(rep, {p}))
  /\ UNCHANGED <<clock, restarts, trusted, adding, relayVars>>

\* sync_all's visit of one peer: an exception costs 1; an incompatible peer
\* costs 2 and is then credited 1 with the others.
SyncWith(p) ==
  /\ p \in rep.peers
  /\ MinScore < rep.scores[p] /\ rep.scores[p] < MaxScore
  /\ \/ \E d \in {1, -1} : SetRep(Scored(rep, [q \in {p} |-> d], clock))
     \/ SetRep(Scored(Scored(rep, [q \in {p} |-> -2], clock), [q \in {p} |-> 1], clock))
  /\ UNCHANGED <<clock, restarts, trusted, adding, relayVars>>

\* The process ends between two steps and starts with a configuration that
\* may differ; memory is gone, the files stay.
Restarted(r, configured) ==
  /\ restarts < MaxRestarts
  /\ restarts' = restarts + 1
  /\ trusted' = configured
  /\ rep' \in Started(r, configured, clock)
  /\ adding' = {}
  /\ inventory' = <<>> /\ items' = <<>> /\ queue' = <<>>
  /\ drain' = [t \in Threads |-> Idle]
  /\ ghost' = [ghost EXCEPT !.overlap = FALSE]
  /\ UNCHANGED clock

Restart == \E configured \in TrustSets : Restarted(rep, configured)

\* ... or between the two files of ban_peer.
CrashInBan(p) ==
  /\ p \notin trusted
  /\ \E configured \in TrustSets : Restarted(BanInMemory(rep, {p}, clock), configured)

Tick ==
  /\ clock < MaxTime
  /\ clock' = clock + 1
  /\ UNCHANGED <<restarts, trusted, rep, adding, relayVars, ghost>>

(* ---------------- relay -------------------------------------------------- *)
Running(t) == drain[t].pc # "idle"
\* The list a drain iterates over: the node's own one as long as no other
\* drain has replaced it.
Source(t) == IF drain[t].live THEN queue ELSE drain[t].src

Remembered(id) ==
  LET longer == Append(inventory, id)
  IN  IF Len(longer) > MaxInventory THEN Tail(longer) ELSE longer

\* broadcast_transaction and broadcast_block up to their drain.  The inventory
\* is marked before the targets are known; force is the rebroadcast of a block.
Enqueue(id, force) ==
  /\ Len(items) < MaxItems
  /\ force \/ id \notin ToSet(inventory)
  /\ inventory' = IF force THEN inventory ELSE Remembered(id)
  /\ LET targets == rep.peers \ Banned(rep)
         full == Len(queue) >= MaxQueue
         item == [id |-> id, attempts |-> 0, peers |-> targets, next |-> 0,
                  status |-> "queued", done |-> {}]
     IN  IF targets = {}
         THEN UNCHANGED <<items, queue, ghost>>
         ELSE /\ items' = Append(IF full THEN [items EXCEPT ![Head(queue)].status = "dropped"] ELSE items,
                                 item)
              /\ queue' = Append(IF full THEN Tail(queue) ELSE queue, Len(items) + 1)
              /\ ghost' = [ghost EXCEPT !.overlap = @ \/ (full /\ \E t \in Threads : Running(t))]
  /\ UNCHANGED <<clock, restarts, trusted, rep, adding, drain>>

\* Faulty variant: a drain works on a copy of the queue and puts it back.
FaultyDrainOf(now) == Frame("loop", FALSE, queue, now)

DrainOf(now) == Frame("loop", TRUE, <<>>, now)

StartDrain(t) ==
  /\ ~Running(t)
  /\ queue # <<>>
  /\ drain' = [drain EXCEPT ![t] = DrainOf(clock)]
  /\ ghost' = [ghost EXCEPT !.overlap = @ \/ \E u \in Threads : Running(u)]
  /\ UNCHANGED <<clock, restarts, trusted, rep, adding, inventory, items, queue>>

\* The next item of the list: not due yet, or counted as an attempt and posted.
NextItem(t) ==
  /\ drain[t].pc = "loop"
  /\ drain[t].pos <= Len(Source(t))
  /\ LET n == Source(t)[drain[t].pos]
     IN  IF items[n].next > drain[t].now
         THEN /\ drain' = [drain EXCEPT ![t].rem = Append(@, n), ![t].pos = @ + 1]
              /\ UNCHANGED items
         ELSE /\ drain' = [drain EXCEPT ![t].pc = "post", ![t].to = items[n].peers, ![t].rem = Append(@, n)]
              /\ items' = [items EXCEPT ![n].attempts = @ + 1]
  /\ UNCHANGED <<clock, restarts, trusted, rep, adding, inventory, queue, ghost>>

\* Faulty variant: a retry goes to all peers again.
FaultyAfterPost(item, failed, now) ==
  IF failed # {} /\ item.attempts < MaxAttempts
  THEN [item EXCEPT !.next = now + Backoff * 2^(item.attempts - 1), !.status = "queued"]
  ELSE [item EXCEPT !.status = IF failed = {} THEN "delivered" ELSE "failed"]

AfterPost(item, failed, now) ==
  IF failed # {} /\ item.attempts < MaxAttempts
  THEN [item EXCEPT !.peers = failed, !.next = now + Backoff * 2^(item.attempts - 1), !.status = "queued"]
  ELSE [item EXCEPT !.status = IF failed = {} THEN "delivered" ELSE "failed"]

\* The posts of one item have ended; `failed` of its peers did not take it.
\* (The item sits at the end of rem while it is posted.)
Posted(t, failed) ==
  LET d == drain[t]
      n == Last(d.rem)
      after == AfterPost(items[n], failed, d.now)
  IN  /\ d.pc = "post"
      /\ \A p \in d.to \ failed : rep.scores[p] < MaxScore
      /\ SetRep(Scored(rep, [p \in d.to |-> IF p \in failed THEN -1 ELSE 1], clock))
      /\ items' = [items EXCEPT ![n] = [after EXCEPT !.done = @ \union (d.to \ failed)]]
      /\ drain' = [drain EXCEPT ![t] =
                     [d EXCEPT !.pc = "loop", !.pos = @ + 1, !.to = {},
                               !.rem = IF after.status = "queued" THEN @ ELSE Front(@)]]
      /\ UNCHANGED <<clock, restarts, trusted, adding, inventory, queue>>

Left(d) == IF d.live THEN [d EXCEPT !.live = FALSE, !.src = queue] ELSE d

\* The loop is over: the list of what remains becomes the queue, and drains
\* that were iterating over the old list go on with it.
EndDrain(t) ==
  /\ drain[t].pc = "loop"
  /\ drain[t].pos > Len(Source(t))
  /\ queue' = drain[t].rem
  /\ drain' = [u \in Threads |-> IF u = t THEN Idle ELSE Left(drain[u])]
  /\ UNCHANGED <<clock, restarts, trusted, rep, adding, inventory, items, ghost>>

PeerNext ==
  \/ \E p \in Peers : CheckPeer(p) \/ AddPeer(p) \/ BanPeer(p) \/ UnbanPeer(p) \/ SyncWith(p) \/ CrashInBan(p)
  \/ Restart

RelayNext ==
  \/ \E id \in Transactions \union BlockIds : Enqueue(id, FALSE)
  \/ \E id \in BlockIds : Enqueue(id, TRUE)
  \/ \E t \in Threads : StartDrain(t) \/ NextItem(t) \/ EndDrain(t)
  \/ \E t \in Threads : \E failed \in SUBSET drain[t].to : Posted(t, failed)

Next == PeerNext \/ RelayNext \/ Tick

Spec == Init /\ [][Next]_vars

(* ---------------- properties --------------------------------------------- *)
\* Peers, times and scores of the node and of its two files (node.py:200-262).
TypeOK ==
  /\ clock \in 0..MaxTime /\ trusted \in TrustSets /\ adding \subseteq Peers
  /\ ghost \in [raced : SUBSET Peers, overlap : BOOLEAN]
  /\ rep \in [peers : SUBSET Peers, peersFile : SUBSET Peers, scores : [Peers -> Int],
             bans : [Peers -> (0..MaxTime) \union {None}],
             bansFile : [Peers -> (0..MaxTime) \union {None}]]

\* A configured peer is never banned, whatever it was before the restart that
\* made it one ("Trusted (configured) peers are never banned", node.py:370).
TrustedNeverBanned == trusted \intersect Banned(rep) = {}

\* A ban takes the peer off the list, and no restart, gossip or score brings it
\* back while the ban lasts, unless the ban raced with an add_peer that had
\* passed its checks (node.py:275-295, 368-384).
BannedNotPeer == rep.peers \intersect Banned(rep) \subseteq ghost.raced

\* What the files would give a restart is what the node runs with: no start
\* forgets a ban or a peer (node.py:318-360, 527-534).
FilesCurrent == rep.peersFile = rep.peers /\ rep.bansFile = rep.bans

\* A ban holds: against gossip and scores, across restarts, and never against a
\* configured peer.
BansHold == TypeOK /\ TrustedNeverBanned /\ BannedNotPeer /\ FilesCurrent

\* The inventory and the queue stay within their bounds, however drains overlap
\* and whatever they put back, and name items that exist (node.py:238-262).
RelayBounded ==
  /\ Len(inventory) <= MaxInventory /\ Len(queue) <= MaxQueue
  /\ \A t \in Threads : ToSet(queue) \union ToSet(drain[t].rem) \subseteq DOMAIN items

\* As long as no two drains overlap and no running drain loses its head to a
\* full queue, an item that is neither delivered nor given up is in the queue
\* or in the running drain: enqueueing during a drain loses nothing (node.py:971-1006).
RelayKept ==
  \A n \in DOMAIN items :
    items[n].status = "queued" =>
      n \in ToSet(queue) \union UNION {ToSet(Source(t)) \union ToSet(drain[t].rem) : t \in Threads}
RelayKeptUncut == RelayBounded /\ (ghost.overlap \/ RelayKept)

\* Without overlap a peer that took an item is not sent it again by a retry,
\* and the attempts stay within relay_max_attempts (node.py:979-994).
RetriesOnlyMissing ==
  ghost.overlap \/ \A n \in DOMAIN items :
    /\ items[n].attempts <= MaxAttempts
    /\ items[n].status = "queued" => items[n].peers \intersect items[n].done = {}
=============================================================================
