--------------------------- MODULE PeerNodeProofs ---------------------------
(***************************************************************************)
(* Bans hold, for any peers, configurations, caps, thresholds and numbers of *)
(* restarts.  What a step does to the reputation is a change of one record,  *)
(* so each way to change it has a lemma: no way unbans or lists a peer that  *)
(* it should not, and each leaves the files as it leaves the memory.         *)
(* The relay queue loses nothing as long as no two drains overlap: one       *)
(* thread at most is then not idle, and its frame splits the queue in what   *)
(* it has kept and what is to come.  Each step of a drain moves the split,   *)
(* and the lemmas about it speak of one frame, queue and list of items.      *)
(***************************************************************************)
EXTENDS PeerNode, TLAPS

Reps == [peers : SUBSET Peers, peersFile : SUBSET Peers, scores : [Peers -> Int],
         bans : [Peers -> (0..MaxTime) \union {None}],
         bansFile : [Peers -> (0..MaxTime) \union {None}]]

\* The files would give a restart what memory holds.
Saved(r) == r.peersFile = r.peers /\ r.bansFile = r.bans

\* From a saved r, the saved s bans nobody but peers of the set new, and lists no
\* banned peer that r did not list.
Follows(r, s, new) ==
  /\ s \in Reps /\ Saved(s)
  /\ Banned(s) \subseteq Banned(r) \union new
  /\ s.peers \intersect Banned(s) \subseteq r.peers \intersect Banned(r)

\* Inductive: a peer that is about to be added is not banned, or its ban raced.
BansInv == BansHold /\ adding \intersect Banned(rep) \subseteq ghost.raced

-----------------------------------------------------------------------------
(* The ways a reputation changes *)

LEMMA PruneFollows ==
  ASSUME NEW r \in Reps, Saved(r), NEW now \in 0..MaxTime
  PROVE  Follows(r, Prune(r, now), {}) /\ Prune(r, now).peers = r.peers
<1> DEFINE expired == {p \in Banned(r) : now - r.bans[p] > BanTTL}
           bans == [p \in Peers |-> IF p \in expired THEN None ELSE r.bans[p]]
           s == SaveBanned([r EXCEPT !.bans = bans])
<1>1. bans \in [Peers -> (0..MaxTime) \union {None}]
  BY DEF Reps
<1>2. s \in Reps /\ s.bans = bans /\ Saved(s) /\ s.peers = r.peers
  BY <1>1 DEF SaveBanned, Reps, Saved
<1>3. Banned(s) \subseteq Banned(r)
  BY <1>2 DEF Banned
<1>4. Follows(r, s, {}) /\ Follows(r, r, {})
  BY <1>2, <1>3 DEF Follows
<1>5. Prune(r, now) \in {r, s}
  BY DEF Prune
<1> QED
  BY <1>2, <1>4, <1>5

LEMMA UnbannedFollows ==
  ASSUME NEW r \in Reps, Saved(r), NEW ps
  PROVE  /\ Follows(r, Unbanned(r, ps), {}) /\ Unbanned(r, ps).peers = r.peers
         /\ Banned(Unbanned(r, ps)) \intersect ps = {}
<1> DEFINE bans == [p \in Peers |-> IF p \in ps THEN None ELSE r.bans[p]]
           s == SaveBanned([r EXCEPT !.bans = bans])
<1>1. bans \in [Peers -> (0..MaxTime) \union {None}]
  BY DEF Reps
<1>2. s \in Reps /\ s.bans = bans /\ Saved(s) /\ s.peers = r.peers
  BY <1>1 DEF SaveBanned, Reps, Saved
<1>3. Banned(s) \subseteq Banned(r) /\ Banned(s) \intersect ps = {}
  BY <1>2 DEF Banned
<1>4. Follows(r, s, {}) /\ Follows(r, r, {})
  BY <1>2, <1>3 DEF Follows
<1> QED
  BY <1>2, <1>3, <1>4 DEF Unbanned

LEMMA BanFollows ==
  ASSUME NEW r \in Reps, Saved(r), NEW ps, NEW now \in 0..MaxTime
  PROVE  Follows(r, Ban(r, ps, now), ps \ trusted)
<1> DEFINE out == ps \ trusted
           bans == [p \in Peers |-> IF p \in out THEN now ELSE r.bans[p]]
           scores == [p \in Peers |-> IF p \in out THEN 0 ELSE r.scores[p]]
           m == [r EXCEPT !.bans = bans, !.scores = scores, !.peers = r.peers \ out]
           s == SaveBanned(SavePeers(m))
<1>1. bans \in [Peers -> (0..MaxTime) \union {None}] /\ scores \in [Peers -> Int]
  BY DEF Reps
<1>2. m \in Reps /\ m.bans = bans /\ m.peers = r.peers \ out
  BY <1>1 DEF Reps
<1>3. s \in Reps /\ s.bans = bans /\ Saved(s) /\ s.peers = r.peers \ out
  <2> HIDE DEF m
  <2> QED
    BY <1>2 DEF SaveBanned, SavePeers, Reps, Saved
<1>4. Banned(s) \subseteq Banned(r) \union out
  BY <1>3 DEF Banned
<1>5. \A p \in Peers \ out : p \in Banned(s) => p \in Banned(r)
  BY <1>4
<1>6. Follows(r, s, out)
  BY <1>3, <1>4, <1>5 DEF Follows
<1>7. Follows(r, r, out)
  BY DEF Follows
<1>8. Ban(r, ps, now) \in {r, s}
  BY DEF Ban, BanInMemory
<1> QED
  BY <1>6, <1>7, <1>8

LEMMA ScoredFollows ==
  ASSUME NEW r \in Reps, Saved(r), NEW delta, \A p \in DOMAIN delta : delta[p] \in Int,
         NEW now \in 0..MaxTime
  PROVE  Follows(r, Scored(r, delta, now), Peers \ trusted)
<1> DEFINE scores == [p \in Peers |-> IF p \in DOMAIN delta THEN r.scores[p] + delta[p] ELSE r.scores[p]]
           s == [r EXCEPT !.scores = scores]
           out == {p \in Peers : p \in DOMAIN delta /\ scores[p] <= BanThreshold}
<1>1. scores \in [Peers -> Int]
  BY DEF Reps
<1>2. s \in Reps /\ Saved(s) /\ s.bans = r.bans /\ s.peers = r.peers
  BY <1>1 DEF Reps, Saved
<1>3. Follows(s, Ban(s, out, now), out \ trusted)
  BY <1>2, BanFollows
<1>4. Scored(r, delta, now) = Ban(s, out, now)
  BY DEF Scored
<1> QED
  BY <1>2, <1>3, <1>4 DEF Follows, Banned

\* A start takes the bans from their file and lists nobody who is banned but
\* those that both files name.
LEMMA StartedSound ==
  ASSUME NEW r \in Reps, NEW configured \in SUBSET Peers, NEW now \in 0..MaxTime,
         NEW s \in Started(r, configured, now)
  PROVE  /\ s \in Reps /\ Saved(s)
         /\ configured \intersect Banned(s) = {}
         /\ s.peers \intersect Banned(s) \subseteq r.peersFile \intersect {p \in Peers : r.bansFile[p] # None}
<1> DEFINE zero == [p \in Peers |-> 0]
           read == [r EXCEPT !.bans = r.bansFile, !.scores = zero]
           pruned == Prune(read, now)
           l == Loaded(r, configured, now)
<1>1. read \in Reps /\ read.bans = r.bansFile /\ read.bansFile = read.bans /\ read.peersFile = r.peersFile
  <2>1. zero \in [Peers -> Int]
    OBVIOUS
  <2> HIDE DEF zero
  <2> QED
    BY <2>1 DEF Reps
<1>2. /\ pruned \in Reps /\ pruned.bansFile = pruned.bans
      /\ Banned(pruned) \subseteq Banned(read)
  <2> HIDE DEF read
  <2> DEFINE expired == {p \in Banned(read) : now - read.bans[p] > BanTTL}
             bans == [p \in Peers |-> IF p \in expired THEN None ELSE read.bans[p]]
             p1 == SaveBanned([read EXCEPT !.bans = bans])
  <2>1. bans \in [Peers -> (0..MaxTime) \union {None}]
    BY <1>1 DEF Reps
  <2>2. p1 \in Reps /\ p1.bans = bans /\ p1.bansFile = p1.bans
    BY <1>1, <2>1 DEF SaveBanned, Reps
  <2>3. Banned(p1) \subseteq Banned(read)
    BY <2>2 DEF Banned
  <2>4. pruned \in {read, p1}
    BY DEF Prune
  <2> QED
    BY <1>1, <2>2, <2>3, <2>4
<1>3. /\ l \in Reps /\ l.bansFile = l.bans
      /\ Banned(l) \subseteq Banned(pruned) /\ Banned(l) \intersect configured = {}
  <2> HIDE DEF pruned
  <2> DEFINE bans == [p \in Peers |-> IF p \in configured THEN None ELSE pruned.bans[p]]
             l1 == SaveBanned([pruned EXCEPT !.bans = bans])
  <2>1. bans \in [Peers -> (0..MaxTime) \union {None}]
    BY <1>2 DEF Reps
  <2>2. l1 \in Reps /\ l1.bans = bans /\ l1.bansFile = l1.bans
    BY <1>2, <2>1 DEF SaveBanned, Reps
  <2>3. Banned(l1) \subseteq Banned(pruned) /\ Banned(l1) \intersect configured = {}
    BY <2>2 DEF Banned
  <2>4. l = Unbanned(pruned, configured)
    BY DEF Loaded, pruned
  <2> QED
    BY <1>2, <2>2, <2>3, <2>4 DEF Unbanned
<1>4. PICK added \in SUBSET configured : s = SavePeers([l EXCEPT !.peers = r.peersFile \union added])
  BY DEF Started, Filled
<1>5. r.peersFile \union added \in SUBSET Peers
  BY <1>4 DEF Reps
<1>6. s \in Reps /\ s.bans = l.bans /\ Saved(s) /\ s.peers = r.peersFile \union added
  <2> HIDE DEF l
  <2> QED
    BY <1>3, <1>4, <1>5 DEF SavePeers, Reps, Saved
<1>7. Banned(s) = Banned(l) /\ Banned(read) = {p \in Peers : r.bansFile[p] # None}
  BY <1>1, <1>6 DEF Banned
<1> HIDE DEF read, pruned, l
<1> QED
  BY <1>2, <1>3, <1>4, <1>6, <1>7
-----------------------------------------------------------------------------
(* Steps *)

LEMMA BansInitially == Init => BansInv
<1> SUFFICES ASSUME Init
             PROVE  BansInv
  OBVIOUS
<1> DEFINE first == [peers |-> {}, bans |-> NoBans, scores |-> [p \in Peers |-> 0],
                     peersFile |-> FirstPeers, bansFile |-> NoBans]
<1>1. NoBans \in [Peers -> (0..MaxTime) \union {None}] /\ [p \in Peers |-> 0] \in [Peers -> Int]
  BY DEF NoBans
<1>2. first \in Reps /\ first.bansFile = NoBans
  BY <1>1, NetworkAssumption DEF Reps
<1>3. {p \in Peers : first.bansFile[p] # None} = {}
  BY <1>2 DEF NoBans
<1>4. 0 \in 0..MaxTime /\ clock = 0
  BY NetworkAssumption DEF Init
<1>5. trusted \in TrustSets /\ trusted \in SUBSET Peers
  BY NetworkAssumption DEF Init
<1>6. rep \in Started(first, trusted, 0)
  BY DEF Init
<1> HIDE DEF first
<1>7. rep \in Reps /\ Saved(rep) /\ trusted \intersect Banned(rep) = {} /\ rep.peers \intersect Banned(rep) = {}
  BY <1>2, <1>3, <1>4, <1>5, <1>6, StartedSound
<1>8. adding = {} /\ ghost \in [raced : SUBSET Peers, overlap : BOOLEAN]
  BY DEF Init
<1> QED
  BY <1>4, <1>5, <1>7, <1>8 DEF BansInv, BansHold, TypeOK, TrustedNeverBanned, BannedNotPeer,
     FilesCurrent, Saved, Reps

\* What a step does to the reputation while the process lives: new bans are
\* noted if they race, and none is of a configured peer.
LEMMA SetRepKeeps ==
  ASSUME BansInv, NEW new, new \intersect trusted = {}, NEW r, Follows(rep, r, new), SetRep(r),
         UNCHANGED <<clock, trusted, adding>>
  PROVE  BansInv'
<1>1. rep' = r /\ r \in Reps /\ Saved(r)
  BY DEF SetRep, Follows
<1>2. /\ ghost' \in [raced : SUBSET Peers, overlap : BOOLEAN]
      /\ ghost'.raced = ghost.raced \union (Banned(r) \intersect adding)
  BY DEF SetRep, BansInv, BansHold, TypeOK, Banned
<1>3. Banned(rep)' = Banned(r)
  BY <1>1 DEF Banned
<1>4. trusted \intersect Banned(r) = {}
  BY DEF BansInv, BansHold, TrustedNeverBanned, Follows
<1>5. r.peers \intersect Banned(r) \subseteq ghost.raced
  BY DEF BansInv, BansHold, BannedNotPeer, Follows
<1>6. clock' = clock /\ trusted' = trusted /\ adding' = adding
  OBVIOUS
<1>7. TypeOK'
  BY <1>1, <1>2, <1>6 DEF BansInv, BansHold, TypeOK, Reps
<1>8. TrustedNeverBanned' /\ BannedNotPeer' /\ FilesCurrent'
  BY <1>1, <1>2, <1>3, <1>4, <1>5, <1>6 DEF TrustedNeverBanned, BannedNotPeer, FilesCurrent, Saved
<1>9. (adding \intersect Banned(rep) \subseteq ghost.raced)'
  BY <1>2, <1>3, <1>6
<1> QED
  BY <1>7, <1>8, <1>9 DEF BansInv, BansHold

\* A start, after which nothing is about to be added.
LEMMA RestartKeeps ==
  ASSUME BansInv, NEW r \in Reps, NEW configured \in TrustSets, Restarted(r, configured),
         r.peersFile \intersect {p \in Peers : r.bansFile[p] # None} \subseteq ghost.raced
  PROVE  BansInv'
<1>1. /\ clock' = clock /\ trusted' = configured /\ adding' = {}
      /\ rep' \in Started(r, configured, clock)
      /\ ghost' = [ghost EXCEPT !.overlap = FALSE]
  BY DEF Restarted
<1>2. configured \in SUBSET Peers /\ clock \in 0..MaxTime
  BY NetworkAssumption DEF BansInv, BansHold, TypeOK
<1>3. /\ rep' \in Reps /\ Saved(rep') /\ configured \intersect Banned(rep') = {}
      /\ rep'.peers \intersect Banned(rep') \subseteq ghost.raced
  BY <1>1, <1>2, StartedSound
<1>4. ghost' \in [raced : SUBSET Peers, overlap : BOOLEAN] /\ ghost'.raced = ghost.raced
  BY <1>1 DEF BansInv, BansHold, TypeOK
<1>5. TypeOK'
  BY <1>1, <1>2, <1>3, <1>4 DEF TypeOK, Reps
<1>6. TrustedNeverBanned' /\ BannedNotPeer' /\ FilesCurrent'
  BY <1>1, <1>3, <1>4 DEF TrustedNeverBanned, BannedNotPeer, FilesCurrent, Saved
<1> QED
  BY <1>1, <1>5, <1>6 DEF BansInv, BansHold

\* A step that does not touch the reputation.
LEMMA OthersKeep ==
  ASSUME BansInv, UNCHANGED <<trusted, rep, adding>>, ghost'.raced = ghost.raced,
         ghost' \in [raced : SUBSET Peers, overlap : BOOLEAN], clock' \in 0..MaxTime
  PROVE  BansInv'
BY DEF BansInv, BansHold, TypeOK, TrustedNeverBanned, BannedNotPeer, FilesCurrent, Banned

LEMMA BansKept == BansInv /\ [Next]_vars => BansInv'
<1> SUFFICES ASSUME BansInv, [Next]_vars
             PROVE  BansInv'
  OBVIOUS
<1>0. /\ rep \in Reps /\ Saved(rep) /\ clock \in 0..MaxTime /\ clock \in Int
      /\ trusted \in TrustSets /\ trusted \subseteq Peers /\ adding \subseteq Peers
      /\ ghost \in [raced : SUBSET Peers, overlap : BOOLEAN]
  BY NetworkAssumption DEF BansInv, BansHold, TypeOK, FilesCurrent, Reps, Saved
<1>1. ASSUME NEW p \in Peers, CheckPeer(p)
      PROVE  BansInv'
  <2>1. /\ UNCHANGED <<clock, trusted, ghost>> /\ rep' \in {rep, Prune(rep, clock)}
        /\ adding' \in {adding, adding \union {p}}
        /\ adding' # adding => p \in trusted \/ rep'.bans[p] = None
    BY <1>1 DEF CheckPeer
  <2>2. rep' \in Reps /\ Saved(rep') /\ rep'.peers = rep.peers /\ Banned(rep') \subseteq Banned(rep)
    BY <1>0, <2>1, PruneFollows DEF Follows
  <2>3. adding' # adding => p \notin Banned(rep')
    BY <2>1, <2>2 DEF BansInv, BansHold, TrustedNeverBanned, Banned
  <2>4. TypeOK'
    BY <1>0, <2>1, <2>2 DEF TypeOK, Reps
  <2>5. TrustedNeverBanned' /\ BannedNotPeer' /\ FilesCurrent'
    BY <2>1, <2>2 DEF BansInv, BansHold, TrustedNeverBanned, BannedNotPeer, FilesCurrent, Saved, Banned
  <2>6. (adding \intersect Banned(rep) \subseteq ghost.raced)'
    BY <2>1, <2>2, <2>3 DEF BansInv, Banned
  <2> QED
    BY <2>4, <2>5, <2>6 DEF BansInv, BansHold
<1>2. ASSUME NEW p \in Peers, AddPeer(p)
      PROVE  BansInv'
  <2>1. /\ UNCHANGED <<clock, trusted, ghost>> /\ p \in adding /\ adding' = adding \ {p}
        /\ rep' = SavePeers([rep EXCEPT !.peers = rep.peers \union {p}])
    BY <1>2 DEF AddPeer
  <2>2. rep' \in Reps /\ Saved(rep') /\ rep'.peers = rep.peers \union {p} /\ rep'.bans = rep.bans
    BY <1>0, <2>1 DEF SavePeers, Reps, Saved
  <2>3. Banned(rep') = Banned(rep) /\ Banned(rep)' = Banned(rep)
    BY <2>2 DEF Banned
  <2>4. TypeOK'
    BY <1>0, <2>1, <2>2 DEF TypeOK, Reps
  <2>5. TrustedNeverBanned' /\ BannedNotPeer' /\ FilesCurrent'
    BY <2>1, <2>2, <2>3 DEF BansInv, BansHold, TrustedNeverBanned, BannedNotPeer, FilesCurrent, Saved
  <2> QED
    BY <2>1, <2>3, <2>4, <2>5 DEF BansInv, BansHold
<1>3. ASSUME NEW p \in Peers, BanPeer(p)
      PROVE  BansInv'
  <2>1. Follows(rep, Ban(rep, {p}, clock), {p} \ trusted)
    BY <1>0, BanFollows
  <2> QED
    BY <1>3, <2>1, SetRepKeeps DEF BanPeer
<1>4. ASSUME NEW p \in Peers, UnbanPeer(p)
      PROVE  BansInv'
  <2>1. Follows(rep, Unbanned(rep, {p}), {})
    BY <1>0, UnbannedFollows
  <2> QED
    BY <1>4, <2>1, SetRepKeeps DEF UnbanPeer
<1>5. ASSUME NEW p \in Peers, SyncWith(p)
      PROVE  BansInv'
  <2> DEFINE By(d) == [q \in {p} |-> d]
             first == Scored(rep, By(-2), clock)
             new == Peers \ trusted
  <2>1. ASSUME NEW r \in Reps, Saved(r), NEW d \in {1, -1, -2}
        PROVE  Follows(r, Scored(r, By(d), clock), new)
    <3>1. \A q \in DOMAIN By(d) : By(d)[q] \in Int
      OBVIOUS
    <3> HIDE DEF By
    <3> QED
      BY <1>0, <2>1, <3>1, ScoredFollows
  <2> HIDE DEF new
  <2>2. Follows(rep, first, new) /\ Follows(first, Scored(first, By(1), clock), new)
    BY <1>0, <2>1 DEF Follows
  <2>3. Follows(rep, Scored(first, By(1), clock), new)
    <3> HIDE DEF first, By
    <3> QED
      BY <2>2 DEF Follows
  <2>4. new \intersect trusted = {}
    BY DEF new
  <2>5. \/ \E d \in {1, -1} : SetRep(Scored(rep, By(d), clock))
        \/ SetRep(Scored(first, By(1), clock))
    BY <1>5 DEF SyncWith
  <2>6. UNCHANGED <<clock, trusted, adding>>
    BY <1>5 DEF SyncWith
  <2> HIDE DEF first, By
  <2> QED
    BY <1>0, <2>1, <2>3, <2>4, <2>5, <2>6, SetRepKeeps
<1>6. ASSUME NEW p \in Peers, CrashInBan(p)
      PROVE  BansInv'
  <2> DEFINE out == {p}
             bans == [q \in Peers |-> IF q \in out THEN clock ELSE rep.bans[q]]
             scores == [q \in Peers |-> IF q \in out THEN 0 ELSE rep.scores[q]]
             m == [rep EXCEPT !.bans = bans, !.scores = scores, !.peers = rep.peers \ out]
             r == BanInMemory(rep, out, clock)
  <2>1. bans \in [Peers -> (0..MaxTime) \union {None}] /\ scores \in [Peers -> Int]
    BY <1>0 DEF Reps
  <2>2. m \in Reps /\ m.peers = rep.peers \ out /\ m.bansFile = rep.bansFile
    BY <1>0, <2>1 DEF Reps
  <2>3. r = SavePeers(m)
    BY DEF BanInMemory
  <2>4. r \in Reps /\ r.peersFile = rep.peers \ out /\ r.bansFile = rep.bansFile
    <3> HIDE DEF m, r
    <3> QED
      BY <2>2, <2>3 DEF SavePeers, Reps
  <2>5. r.peersFile \intersect {q \in Peers : r.bansFile[q] # None} \subseteq ghost.raced
    <3> HIDE DEF r
    <3> QED
      BY <1>0, <2>4 DEF BansInv, BansHold, BannedNotPeer, Banned, Saved
  <2>6. PICK configured \in TrustSets : Restarted(r, configured)
    BY <1>6 DEF CrashInBan
  <2> HIDE DEF r
  <2> QED
    BY <2>4, <2>5, <2>6, RestartKeeps
<1>7. CASE Restart
  <2>1. rep.peersFile \intersect {p \in Peers : rep.bansFile[p] # None} \subseteq ghost.raced
    BY <1>0 DEF BansInv, BansHold, BannedNotPeer, Banned, Saved
  <2> QED
    BY <1>0, <1>7, <2>1, RestartKeeps DEF Restart
<1>8. CASE RelayNext
  <2>1. ASSUME NEW t \in Threads, NEW failed \in SUBSET drain[t].to, Posted(t, failed)
        PROVE  BansInv'
    <3> DEFINE delta == [p \in drain[t].to |-> IF p \in failed THEN -1 ELSE 1]
               new == Peers \ trusted
    <3>1. \A p \in DOMAIN delta : delta[p] \in Int
      OBVIOUS
    <3>2. SetRep(Scored(rep, delta, clock)) /\ UNCHANGED <<clock, trusted, adding>>
      BY <2>1 DEF Posted
    <3> HIDE DEF delta
    <3>3. Follows(rep, Scored(rep, delta, clock), new)
      BY <1>0, <3>1, ScoredFollows
    <3> QED
      BY <3>2, <3>3, SetRepKeeps
  <2>2. ASSUME NEW id, NEW force, Enqueue(id, force)
        PROVE  BansInv'
    <3>1. UNCHANGED <<clock, trusted, rep, adding>>
      BY <2>2 DEF Enqueue
    <3>2. ghost' = ghost \/ \E x \in BOOLEAN : ghost' = [ghost EXCEPT !.overlap = ghost.overlap \/ x]
      BY <2>2, Zenon DEF Enqueue
    <3> QED
      BY <1>0, <3>1, <3>2, OthersKeep
  <2>3. ASSUME NEW t \in Threads, StartDrain(t) \/ NextItem(t) \/ EndDrain(t)
        PROVE  BansInv'
    <3>1. UNCHANGED <<clock, trusted, rep, adding>>
      BY <2>3 DEF StartDrain, NextItem, EndDrain
    <3>2. ghost' = ghost \/ \E x \in BOOLEAN : ghost' = [ghost EXCEPT !.overlap = ghost.overlap \/ x]
      BY <2>3, Zenon DEF StartDrain, NextItem, EndDrain
    <3> QED
      BY <1>0, <3>1, <3>2, OthersKeep
  <2> QED
    BY <1>8, <2>1, <2>2, <2>3 DEF RelayNext
<1>9. CASE Tick
  BY <1>0, <1>9, OthersKeep, NetworkAssumption DEF Tick
<1>10. CASE UNCHANGED vars
  BY <1>0, <1>10, OthersKeep DEF vars
<1> QED
  BY <1>1, <1>2, <1>3, <1>4, <1>5, <1>6, <1>7, <1>8, <1>9, <1>10 DEF Next, PeerNext

-----------------------------------------------------------------------------
\* A ban holds against gossip, scores, restarts with another configuration and a
\* crash between the two files, and no configured peer is ever banned, for every
\* set of peers, cap and threshold (node.py:275-393).
THEOREM EveryBanHolds == Spec => []BansHold
<1>1. BansInv => BansHold
  BY DEF BansInv
<1> QED
  BY BansInitially, BansKept, <1>1, PTL DEF Spec
-----------------------------------------------------------------------------
(* The relay queue *)

\* What the fields of an item and of a drain's frame may hold.
Times == {0} \union {a + Backoff * 2^b : a \in 0..MaxTime, b \in Int}
Items == [id : Transactions \union BlockIds, attempts : Nat, peers : SUBSET Peers, next : Times,
          status : {"queued", "dropped", "delivered", "failed"}, done : SUBSET Peers]
Frames == [pc : {"idle", "loop", "post"}, live : BOOLEAN, src : Seq(Nat), pos : Nat \ {0},
           rem : Seq(Nat), now : 0..MaxTime, to : SUBSET Peers]

Naming(s, its) == \A i \in DOMAIN s : s[i] \in DOMAIN its

\* The entries of its list that a drain has taken up, and what it may have kept.
Passed(d) == IF d.pc = "post" THEN d.pos ELSE d.pos - 1

\* A frame d that iterates over the list s.
Fits(d, s, its) ==
  /\ d.pc = "idle" => d = Idle
  /\ d.pc = "post" => d.rem # <<>>
  /\ Passed(d) <= Len(s) /\ Len(d.rem) <= Passed(d)
  /\ Len(d.src) <= MaxQueue
  /\ Naming(d.src, its) /\ Naming(d.rem, its)

RelayTyped ==
  /\ inventory \in Seq(Transactions \union BlockIds) /\ Len(inventory) <= MaxInventory
  /\ items \in Seq(Items)
  /\ queue \in Seq(Nat) /\ Len(queue) <= MaxQueue /\ Naming(queue, items)
  /\ drain \in [Threads -> Frames] /\ \A t \in Threads : Fits(drain[t], Source(t), items)

OneEach(s) == \A i, j \in DOMAIN s : s[i] = s[j] => i = j
Due(n, its) == its[n].status = "queued" /\ its[n].attempts < MaxAttempts
Posting(d, i) == d.pc = "post" /\ i = Len(d.rem)

\* A drain that runs alone has the queue q before it split in two: what it has
\* kept of the entries it took up, the one it posts at the end, and the entries
\* to come.  No item is twice in it and every item still to be sent is there.
Split(d, q) ==
  /\ OneEach(q) /\ OneEach(d.rem)
  /\ \A i \in DOMAIN d.rem : \E j \in 1..Passed(d) : d.rem[i] = q[j]
  /\ d.pc = "post" => d.rem[Len(d.rem)] = q[d.pos]
AllDue(d, q, its) ==
  /\ \A i \in DOMAIN q : i > Passed(d) => Due(q[i], its)
  /\ \A i \in DOMAIN d.rem : Posting(d, i) \/ Due(d.rem[i], its)
  /\ d.pc = "post" => its[q[d.pos]].status = "queued" /\ its[q[d.pos]].peers = d.to
NoneLost(d, q, its) ==
  \A n \in DOMAIN its : its[n].status = "queued" =>
    \/ \E i \in DOMAIN d.rem : d.rem[i] = n
    \/ \E i \in DOMAIN q : i > Passed(d) /\ q[i] = n
Line(d, q, its) == Split(d, q) /\ AllDue(d, q, its) /\ NoneLost(d, q, its)

Alone(t) ==
  (\A u \in Threads : u = t \/ ~Running(u)) /\ (Running(t) => drain[t].live) /\ Line(drain[t], queue, items)

SentOnce(its) ==
  \A n \in DOMAIN its :
    /\ its[n].attempts <= MaxAttempts
    /\ its[n].status = "queued" => its[n].peers \intersect its[n].done = {}

\* Inductive: as long as no two drains have overlapped, one thread at most is
\* not idle, and it has the whole line.
RelayInv == RelayTyped /\ (ghost.overlap \/ (SentOnce(items) /\ \E t \in Threads : Alone(t)))

LEMMA IdleFrame ==
  Idle \in Frames /\ Passed(Idle) = 0 /\ Idle.rem = <<>> /\ Idle.src = <<>> /\ Idle.pc = "idle" /\ Idle.live = FALSE
BY NetworkAssumption DEF Idle, Frame, Frames, Passed

LEMMA RelayStarts ==
  ASSUME inventory = <<>>, items = <<>>, queue = <<>>, drain = [t \in Threads |-> Idle]
  PROVE  RelayInv
<1>1. \A t \in Threads : drain[t] = Idle /\ Fits(drain[t], Source(t), items)
  BY IdleFrame, NetworkAssumption DEF Fits, Naming, Source
<1>2. RelayTyped
  BY <1>1, IdleFrame, NetworkAssumption DEF RelayTyped, Naming
<1>3. \A t \in Threads : Alone(t)
  BY <1>1, IdleFrame DEF Alone, Line, Split, AllDue, NoneLost, OneEach, Running, Posting
<1>4. SentOnce(items)
  BY DEF SentOnce
<1> QED
  BY <1>2, <1>3, <1>4, NetworkAssumption DEF RelayInv

\* Steps that are not about the relay.
LEMMA RelayUntouched ==
  ASSUME RelayInv, inventory' = inventory, items' = items, queue' = queue, drain' = drain,
         ghost'.overlap = ghost.overlap
  PROVE  RelayInv'
<1>1. RelayTyped'
  BY DEF RelayInv, RelayTyped, Fits, Naming, Source
<1>2. \A t \in Threads : Alone(t) => Alone(t)'
  BY DEF Alone, Running, Line
<1>3. SentOnce(items) => SentOnce(items')
  OBVIOUS
<1> QED
  BY <1>1, <1>2, <1>3 DEF RelayInv

LEMMA ItemReplaced ==
  ASSUME NEW its \in Seq(Items), NEW n \in DOMAIN its, NEW x \in Items
  PROVE  LET its2 == [its EXCEPT ![n] = x]
         IN  /\ its2 \in Seq(Items) /\ Len(its2) = Len(its) /\ DOMAIN its2 = DOMAIN its
             /\ its2[n] = x /\ \A m \in DOMAIN its \ {n} : its2[m] = its[m]
OBVIOUS

\* From a items and b entries to a new item at the end of the queue.
Appends(a, b, q, its, q2, its2) ==
  /\ DOMAIN q = 1..a /\ DOMAIN q2 = 1..(a + 1) /\ (\A i \in 1..a : q2[i] = q[i]) /\ q2[a + 1] = b + 1
  /\ DOMAIN its = 1..b /\ DOMAIN its2 = 1..(b + 1) /\ (\A n \in 1..b : its2[n] = its[n])
  /\ Naming(q, its) /\ Due(b + 1, its2)

LEMMA LineAppends ==
  ASSUME NEW d, Passed(d) \in Nat, NEW a \in Nat, Passed(d) <= a, d.pc = "post" => d.pos \in 1..a,
         NEW b \in Nat, NEW q, NEW its, NEW q2, NEW its2, Appends(a, b, q, its, q2, its2),
         Naming(d.rem, its), Line(d, q, its)
  PROVE  Line(d, q2, its2)
<1>0. /\ DOMAIN q = 1..a /\ DOMAIN q2 = 1..(a + 1) /\ (\A i \in 1..a : q2[i] = q[i]) /\ q2[a + 1] = b + 1
      /\ DOMAIN its = 1..b /\ DOMAIN its2 = 1..(b + 1) /\ (\A n \in 1..b : its2[n] = its[n])
      /\ Naming(q, its) /\ Due(b + 1, its2)
  BY DEF Appends
<1>1. Split(d, q2)
  <2>1. OneEach(q2)
    BY <1>0 DEF Line, Split, OneEach, Naming
  <2>2. ASSUME NEW i \in DOMAIN d.rem
        PROVE  \E j \in 1..Passed(d) : d.rem[i] = q2[j]
    BY <1>0 DEF Line, Split
  <2> QED
    BY <1>0, <2>1, <2>2 DEF Line, Split
<1>2. AllDue(d, q2, its2)
  <2>1. ASSUME NEW i \in DOMAIN q2, i > Passed(d)
        PROVE  Due(q2[i], its2)
    BY <1>0, <2>1 DEF Line, AllDue, Due, Naming
  <2>2. ASSUME NEW i \in DOMAIN d.rem
        PROVE  Posting(d, i) \/ Due(d.rem[i], its2)
    BY <1>0 DEF Line, AllDue, Due, Naming
  <2>3. d.pc = "post" => its2[q2[d.pos]].status = "queued" /\ its2[q2[d.pos]].peers = d.to
    BY <1>0 DEF Line, AllDue, Naming
  <2> QED
    BY <1>0, <2>1, <2>2, <2>3 DEF AllDue
<1>3. NoneLost(d, q2, its2)
  <2> SUFFICES ASSUME NEW n \in DOMAIN its2, its2[n].status = "queued",
                      ~ \E i \in DOMAIN d.rem : d.rem[i] = n
               PROVE  \E i \in DOMAIN q2 : i > Passed(d) /\ q2[i] = n
    BY <1>0 DEF NoneLost
  <2>1. CASE n = b + 1
    BY <1>0, <2>1
  <2>2. CASE n \in 1..b
    <3>1. PICK i \in DOMAIN q : i > Passed(d) /\ q[i] = n
      BY <1>0, <2>2 DEF Line, NoneLost
    <3>2. i \in DOMAIN q2 /\ q2[i] = n
      BY <1>0, <3>1
    <3> QED
      BY <1>0, <3>1, <3>2
  <2> QED
    BY <1>0, <2>1, <2>2
<1> QED
  BY <1>0, <1>1, <1>2, <1>3 DEF Line

\* ... and of a full one, which loses its head, when nothing drains it.
Overflows(a, b, q, its, q2, its2) ==
  /\ DOMAIN q = 1..a /\ DOMAIN q2 = 1..a /\ (\A i \in 1..(a - 1) : q2[i] = q[i + 1]) /\ q2[a] = b + 1
  /\ DOMAIN its = 1..b /\ DOMAIN its2 = 1..(b + 1) /\ Naming(q, its) /\ Due(b + 1, its2)
  /\ (\A n \in 1..b : n # q[1] => its2[n] = its[n]) /\ its2[q[1]].status = "dropped"

LEMMA LineOverflows ==
  ASSUME NEW a \in Nat \ {0}, NEW b \in Nat, NEW q, NEW its, NEW q2, NEW its2,
         Overflows(a, b, q, its, q2, its2), Line(Idle, q, its)
  PROVE  Line(Idle, q2, its2)
<1>0. /\ DOMAIN q = 1..a /\ DOMAIN q2 = 1..a /\ (\A i \in 1..(a - 1) : q2[i] = q[i + 1]) /\ q2[a] = b + 1
      /\ DOMAIN its = 1..b /\ DOMAIN its2 = 1..(b + 1) /\ Naming(q, its) /\ Due(b + 1, its2)
      /\ (\A n \in 1..b : n # q[1] => its2[n] = its[n]) /\ its2[q[1]].status = "dropped"
  BY DEF Overflows
<1>1. Passed(Idle) = 0 /\ Idle.pc = "idle" /\ DOMAIN Idle.rem = {} /\ OneEach(Idle.rem)
  BY IdleFrame DEF OneEach
<1>2. OneEach(q) /\ (\A i \in DOMAIN q : Due(q[i], its)) /\ \A i \in DOMAIN q : q[i] \in 1..b
  BY <1>0, <1>1 DEF Line, Split, AllDue, Naming
<1>3. \A i \in 2..a : q[i] # q[1]
  <2>1. \A i \in 2..a : i \in DOMAIN q /\ 1 \in DOMAIN q /\ i # 1
    BY <1>0
  <2> QED
    BY <1>2, <2>1 DEF OneEach
<1>4. OneEach(q2)
  <2>1. \A i \in 1..(a - 1) : i + 1 \in DOMAIN q /\ q2[i] = q[i + 1] /\ q2[i] # b + 1
    BY <1>0, <1>2
  <2>2. ASSUME NEW i \in 1..(a - 1), NEW j \in 1..(a - 1), q2[i] = q2[j]
        PROVE  i = j
    <3>1. q[i + 1] = q[j + 1] /\ i + 1 \in DOMAIN q /\ j + 1 \in DOMAIN q
      BY <1>0, <2>1, <2>2
    <3>2. i + 1 = j + 1
      BY <1>0, <1>2, <3>1 DEF OneEach
    <3> QED
      BY <1>0, <3>2
  <2>3. \A i \in DOMAIN q2 : i = a \/ i \in 1..(a - 1)
    BY <1>0
  <2> QED
    BY <1>0, <2>1, <2>2, <2>3 DEF OneEach
<1>5. ASSUME NEW i \in DOMAIN q2
      PROVE  Due(q2[i], its2)
  <2>1. CASE i = a
    BY <1>0, <2>1
  <2>2. CASE i < a
    <3>1. q2[i] = q[i + 1] /\ i + 1 \in 2..a
      BY <1>0, <2>2
    <3>2. its2[q2[i]] = its[q[i + 1]] /\ Due(q[i + 1], its)
      BY <1>0, <1>2, <1>3, <3>1
    <3> QED
      BY <1>0, <3>1, <3>2 DEF Due
  <2> QED
    BY <1>0, <2>1, <2>2
<1>6. ASSUME NEW n \in DOMAIN its2, its2[n].status = "queued"
      PROVE  \E i \in DOMAIN q2 : q2[i] = n
  <2>1. CASE n = b + 1
    BY <1>0, <2>1
  <2>2. CASE n \in 1..b
    <3>1. n # q[1] /\ its[n].status = "queued"
      BY <1>0, <1>6, <2>2
    <3>2. PICK i \in DOMAIN q : q[i] = n
      BY <1>0, <1>1, <2>2, <3>1 DEF Line, NoneLost
    <3>3. i - 1 \in 1..(a - 1) /\ q2[i - 1] = n
      BY <1>0, <3>1, <3>2
    <3> QED
      BY <1>0, <3>3
  <2> QED
    BY <1>0, <2>1, <2>2
<1>7. Split(Idle, q2) /\ AllDue(Idle, q2, its2)
  BY <1>0, <1>1, <1>4, <1>5 DEF Split, AllDue
<1>8. NoneLost(Idle, q2, its2)
  <2>1. \A i \in DOMAIN q2 : i > Passed(Idle)
    BY <1>0, <1>1
  <2> QED
    BY <1>0, <1>6, <2>1 DEF NoneLost
<1> QED
  BY <1>0, <1>7, <1>8 DEF Line

\* What is put aside for the excuse of the properties.
LEMMA OverlapNoted ==
  ASSUME ghost \in [raced : SUBSET Peers, overlap : BOOLEAN], NEW b \in BOOLEAN,
         ghost' = [ghost EXCEPT !.overlap = ghost.overlap \/ b]
  PROVE  ghost'.overlap = (ghost.overlap \/ b)
BY Zenon

LEMMA EntryAppended ==
  ASSUME NEW q \in Seq(Nat), NEW m \in Nat
  PROVE  LET q2 == Append(q, m)
         IN  /\ q2 \in Seq(Nat) /\ Len(q2) = Len(q) + 1 /\ DOMAIN q2 = 1..(Len(q) + 1)
             /\ (\A i \in 1..Len(q) : q2[i] = q[i]) /\ q2[Len(q) + 1] = m
OBVIOUS

LEMMA EntryShifted ==
  ASSUME NEW q \in Seq(Nat), q # <<>>, NEW m \in Nat
  PROVE  LET q2 == Append(Tail(q), m)
         IN  /\ q2 \in Seq(Nat) /\ Len(q2) = Len(q) /\ DOMAIN q2 = 1..Len(q)
             /\ (\A i \in 1..(Len(q) - 1) : q2[i] = q[i + 1]) /\ q2[Len(q)] = m
             /\ Len(q) \in Nat \ {0} /\ Head(q) = q[1] /\ 1 \in DOMAIN q
OBVIOUS

LEMMA NamingGrows ==
  ASSUME NEW b \in Nat, NEW its, DOMAIN its = 1..b, NEW its2, DOMAIN its2 = 1..(b + 1),
         NEW q, Naming(q, its)
  PROVE  /\ Naming(q, its2)
         /\ \A q2 : (\A i \in DOMAIN q2 : q2[i] = b + 1 \/ \E j \in DOMAIN q : q2[i] = q[j]) => Naming(q2, its2)
BY DEF Naming

LEMMA SentOnceGrows ==
  ASSUME NEW b \in Nat, NEW its, DOMAIN its = 1..b, SentOnce(its), NEW its2, DOMAIN its2 = 1..(b + 1),
         \A n \in 1..b : \/ its2[n] = its[n]
                         \/ its2[n].attempts = its[n].attempts /\ its2[n].status = "dropped",
         its2[b + 1].attempts = 0, its2[b + 1].done = {}
  PROVE  SentOnce(its2)
<1> SUFFICES ASSUME NEW n \in 1..(b + 1)
             PROVE  /\ its2[n].attempts <= MaxAttempts
                    /\ its2[n].status = "queued" => its2[n].peers \intersect its2[n].done = {}
  BY DEF SentOnce
<1>1. CASE n = b + 1
  BY <1>1, NetworkAssumption
<1>2. CASE n \in 1..b
  BY <1>2 DEF SentOnce
<1> QED
  BY <1>1, <1>2

LEMMA RememberedTyped ==
  ASSUME inventory \in Seq(Transactions \union BlockIds), Len(inventory) <= MaxInventory,
         NEW id \in Transactions \union BlockIds
  PROVE  /\ Remembered(id) \in Seq(Transactions \union BlockIds)
         /\ Len(Remembered(id)) <= MaxInventory
<1> DEFINE longer == Append(inventory, id)
<1>1. longer \in Seq(Transactions \union BlockIds) /\ Len(longer) = Len(inventory) + 1 /\ longer # <<>>
  OBVIOUS
<1>2. Tail(longer) \in Seq(Transactions \union BlockIds) /\ Len(Tail(longer)) = Len(inventory)
  BY <1>1
<1>3. Len(inventory) \in Nat
  OBVIOUS
<1>4. Remembered(id) = IF Len(longer) > MaxInventory THEN Tail(longer) ELSE longer
  BY DEF Remembered
<1> HIDE DEF longer
<1> QED
  BY <1>1, <1>2, <1>3, <1>4, NetworkAssumption

LEMMA EnqueueKeeps ==
  ASSUME RelayInv, ghost \in [raced : SUBSET Peers, overlap : BOOLEAN], rep.peers \subseteq Peers,
         NEW id \in Transactions \union BlockIds, NEW force, Enqueue(id, force)
  PROVE  RelayInv'
<1> DEFINE targets == rep.peers \ Banned(rep)
           full == Len(queue) >= MaxQueue
           item == [id |-> id, attempts |-> 0, peers |-> targets, next |-> 0,
                    status |-> "queued", done |-> {}]
           marked == IF full THEN [items EXCEPT ![Head(queue)].status = "dropped"] ELSE items
           rest == IF full THEN Tail(queue) ELSE queue
           running == \E t \in Threads : Running(t)
           a == Len(queue)
           b == Len(items)
<1>1. /\ inventory' = inventory \/ inventory' = Remembered(id)
      /\ drain' = drain
      /\ \/ UNCHANGED <<items, queue, ghost>>
         \/ /\ items' = Append(marked, item)
            /\ queue' = Append(rest, b + 1)
            /\ ghost' = [ghost EXCEPT !.overlap = ghost.overlap \/ (full /\ running)]
  BY Zenon DEF Enqueue
<1>2. /\ inventory \in Seq(Transactions \union BlockIds) /\ Len(inventory) <= MaxInventory
      /\ items \in Seq(Items) /\ DOMAIN items = 1..b /\ b \in Nat
      /\ queue \in Seq(Nat) /\ DOMAIN queue = 1..a /\ a \in Nat /\ a <= MaxQueue /\ Naming(queue, items)
      /\ drain \in [Threads -> Frames] /\ \A t \in Threads : Fits(drain[t], Source(t), items)
  BY DEF RelayInv, RelayTyped
<1>d. /\ DOMAIN items = 1..b /\ b \in Nat /\ DOMAIN queue = 1..a /\ a \in Nat /\ Naming(queue, items)
  BY <1>2
<1>q. queue \in Seq(Nat) /\ a <= MaxQueue /\ MaxQueue \in Nat \ {0}
  BY <1>2, NetworkAssumption
<1>f. full <=> a >= MaxQueue
  OBVIOUS
<1> HIDE DEF a, b, item, marked, rest, full
<1>3. /\ inventory' \in Seq(Transactions \union BlockIds) /\ Len(inventory') <= MaxInventory
  BY <1>1, <1>2, RememberedTyped
<1>4. CASE UNCHANGED <<items, queue, ghost>>
  <2>1. items' = items /\ queue' = queue /\ ghost' = ghost /\ drain' = drain
    BY <1>1, <1>4
  <2>2. RelayTyped'
    BY <1>2, <1>3, <2>1 DEF RelayTyped, Source
  <2>3. \A t \in Threads : Alone(t) => Alone(t)'
    BY <2>1 DEF Alone, Running
  <2> QED
    BY <2>1, <2>2, <2>3 DEF RelayInv
<1>5. CASE /\ items' = Append(marked, item)
           /\ queue' = Append(rest, b + 1)
           /\ ghost' = [ghost EXCEPT !.overlap = ghost.overlap \/ (full /\ running)]
  <2>1. /\ item \in Items /\ item.status = "queued" /\ item.attempts = 0 /\ item.done = {}
    BY DEF Items, Times, item
  <2>2. MaxQueue \in Nat \ {0} /\ (full => a = MaxQueue /\ queue # <<>> /\ Head(queue) = queue[1] /\ 1 \in DOMAIN queue)
    <3>1. full => a = MaxQueue
      BY <1>d, <1>q, <1>f
    <3>2. full => queue # <<>>
      BY <1>d, <1>q, <3>1
    <3> QED
      BY <1>d, <1>q, <3>1, <3>2, EntryShifted
  <2> DEFINE h == queue[1]
             x == [items[h] EXCEPT !.status = "dropped"]
  <2>3. /\ marked \in Seq(Items) /\ Len(marked) = b
        /\ \A n \in 1..b : ~(full /\ n = h) => marked[n] = items[n]
        /\ full => h \in 1..b /\ marked[h] = x /\ x.attempts = items[h].attempts /\ x.status = "dropped"
    <3>1. CASE full
      <4>1. h \in DOMAIN items /\ marked = [items EXCEPT ![h] = x]
        BY <1>2, <2>2, <3>1 DEF Naming, marked
      <4>2. items[h] \in Items
        BY <1>2, <4>1
      <4>3. x \in Items /\ x.attempts = items[h].attempts /\ x.status = "dropped"
        <5> HIDE DEF h
        <5> QED
          BY <4>2 DEF Items
      <4> HIDE DEF x, h, marked
      <4> QED
        BY <1>2, <3>1, <4>1, <4>3, ItemReplaced
    <3>2. CASE ~full
      BY <1>2, <3>2 DEF marked, b
    <3> QED
      BY <3>1, <3>2
  <2> HIDE DEF x
  <2>4. /\ items' \in Seq(Items) /\ DOMAIN items' = 1..(b + 1)
        /\ \A n \in 1..b : items'[n] = marked[n]
        /\ items'[b + 1] = item
    BY <1>5, <1>d, <2>1, <2>3
  <2>5. CASE full
    <3> DEFINE q2 == Append(Tail(queue), b + 1)
    <3>1. /\ q2 \in Seq(Nat) /\ Len(q2) = a /\ DOMAIN q2 = 1..a
          /\ \A i \in 1..(a - 1) : q2[i] = queue[i + 1]
          /\ q2[a] = b + 1
      BY <1>d, <1>q, <2>2, <2>5, EntryShifted DEF a
    <3>2. queue' = q2
      BY <1>5, <2>5 DEF rest
    <3> HIDE DEF q2
    <3>3. Naming(queue', items')
      <4>1. \A i \in DOMAIN q2 : q2[i] = b + 1 \/ \E j \in DOMAIN queue : q2[i] = queue[j]
        <5> SUFFICES ASSUME NEW i \in DOMAIN q2, i # a
                     PROVE  i + 1 \in DOMAIN queue /\ q2[i] = queue[i + 1]
          BY <3>1
        <5> QED
          BY <1>d, <3>1
      <4> QED
        BY <1>d, <2>4, <3>2, <4>1, NamingGrows
    <3>4. ASSUME NEW t \in Threads
          PROVE  Fits(drain[t], Source(t), items)'
      <4>1. drain'[t] = drain[t] /\ Len(Source(t)') = Len(Source(t))
        BY <1>1, <3>1, <3>2 DEF Source, a
      <4> QED
        BY <1>2, <2>4, <4>1 DEF Fits, Naming
    <3>5. RelayTyped'
      BY <1>1, <1>2, <1>3, <2>4, <3>1, <3>2, <3>3, <3>4 DEF RelayTyped
    <3>6. ASSUME ~ghost'.overlap
          PROVE  SentOnce(items') /\ \E t \in Threads : Alone(t)'
      <4>1. running \in BOOLEAN /\ full \in BOOLEAN
        BY DEF full
      <4>2. ~ghost.overlap /\ ~running
        <5> HIDE DEF running, full
        <5> QED
          BY <1>5, <2>5, <3>6, <4>1, OverlapNoted
      <4>3. SentOnce(items) /\ \E t \in Threads : Alone(t)
        BY <4>2 DEF RelayInv
      <4>4. PICK t \in Threads : Alone(t)
        BY <4>3
      <4>5. drain[t] = Idle
        BY <1>2, <4>2 DEF Running, Fits
      <4>6. \A n \in 1..b : items'[n] = items[n] \/ (n = h /\ items'[n] = x)
        BY <2>3, <2>4
      <4>7. SentOnce(items')
        <5>1. \A n \in 1..b : \/ items'[n] = items[n]
                              \/ items'[n].attempts = items[n].attempts /\ items'[n].status = "dropped"
          BY <2>3, <2>5, <4>6
        <5>2. items'[b + 1].attempts = 0 /\ items'[b + 1].done = {}
          BY <2>1, <2>4
        <5> QED
          BY <1>d, <2>4, <4>3, <5>1, <5>2, SentOnceGrows
      <4>8. Due(b + 1, items')
        BY <2>1, <2>4, NetworkAssumption DEF Due
      <4>9. Line(Idle, queue', items')
        <5>1. Line(Idle, queue, items) /\ a \in Nat \ {0}
          BY <1>2, <2>2, <2>5, <4>4, <4>5 DEF Alone
        <5>2. \A n \in 1..b : n # queue[1] => items'[n] = items[n]
          BY <4>6
        <5>3. items'[queue[1]].status = "dropped"
          BY <2>3, <2>4, <2>5
        <5> HIDE DEF h
        <5>4. Overflows(a, b, queue, items, queue', items')
          BY <1>d, <2>4, <3>1, <3>2, <4>8, <5>2, <5>3 DEF Overflows
        <5> QED
          BY <1>d, <5>1, <5>4, LineOverflows
      <4>10. Alone(t)'
        BY <1>1, <4>4, <4>5, <4>9 DEF Alone, Running
      <4> QED
        BY <4>7, <4>10
    <3> QED
      BY <3>5, <3>6 DEF RelayInv
  <2>6. CASE ~full
    <3>1. queue' = Append(queue, b + 1) /\ marked = items
      BY <1>5, <2>6 DEF marked, rest
    <3>2. /\ queue' \in Seq(Nat) /\ Len(queue') = a + 1 /\ DOMAIN queue' = 1..(a + 1) /\ a + 1 <= MaxQueue
          /\ \A i \in 1..a : queue'[i] = queue[i]
          /\ queue'[a + 1] = b + 1
      <4>1. a + 1 <= MaxQueue
        BY <1>d, <1>q, <1>f, <2>6
      <4>2. b + 1 \in Nat
        BY <1>d
      <4> QED
        BY <1>q, <3>1, <4>1, <4>2, EntryAppended DEF a
    <3>3. Naming(queue', items')
      <4>1. \A i \in DOMAIN queue' : queue'[i] = b + 1 \/ \E j \in DOMAIN queue : queue'[i] = queue[j]
        BY <1>d, <3>2
      <4> QED
        BY <1>d, <2>4, <4>1, NamingGrows
    <3>4. ASSUME NEW t \in Threads
          PROVE  Fits(drain[t], Source(t), items)'
      <4>1. drain'[t] = drain[t] /\ drain[t] \in Frames /\ drain[t].src \in Seq(Nat)
        BY <1>1, <1>2 DEF Frames
      <4>2. Len(Source(t)) \in Nat /\ Len(Source(t)') \in Nat /\ Len(Source(t)') >= Len(Source(t))
        BY <1>2, <3>2, <4>1 DEF Source
      <4>3. Passed(drain[t]) \in Int
        BY <4>1 DEF Passed, Frames
      <4> QED
        BY <1>2, <2>4, <4>1, <4>2, <4>3 DEF Fits, Naming
    <3>5. RelayTyped'
      BY <1>1, <1>2, <1>3, <2>4, <3>2, <3>3, <3>4 DEF RelayTyped
    <3>6. ASSUME ~ghost'.overlap
          PROVE  SentOnce(items') /\ \E t \in Threads : Alone(t)'
      <4>1. running \in BOOLEAN /\ full \in BOOLEAN
        BY DEF full
      <4>2. ~ghost.overlap
        <5> HIDE DEF running, full
        <5> QED
          BY <1>5, <3>6, <4>1, OverlapNoted
      <4>3. SentOnce(items) /\ \E t \in Threads : Alone(t)
        BY <4>2 DEF RelayInv
      <4>4. PICK t \in Threads : Alone(t)
        BY <4>3
      <4> DEFINE d == drain[t]
      <4>5. \A n \in 1..b : items'[n] = items[n]
        BY <2>4, <3>1
      <4>6. SentOnce(items')
        <5>1. items'[b + 1].attempts = 0 /\ items'[b + 1].done = {}
          BY <2>1, <2>4
        <5> QED
          BY <1>d, <2>4, <4>3, <4>5, <5>1, SentOnceGrows
      <4>7. Due(b + 1, items')
        BY <2>1, <2>4, NetworkAssumption DEF Due
      <4>8. Passed(d) \in Nat /\ Passed(d) <= a /\ (d.pc = "post" => d.pos \in 1..a) /\ Naming(d.rem, items)
        <5>1. d \in Frames /\ Fits(d, Source(t), items)
          BY <1>2
        <5>2. CASE Running(t)
          <6>1. Source(t) = queue
            BY <4>4, <5>2 DEF Alone, Source
          <6> HIDE DEF d
          <6>2. /\ d.pos \in Nat \ {0}
                /\ Passed(d) = IF d.pc = "post" THEN d.pos ELSE d.pos - 1
            BY <5>1 DEF Frames, Passed
          <6>3. Passed(d) <= a /\ Naming(d.rem, items)
            BY <5>1, <6>1 DEF Fits, a
          <6> QED
            BY <1>d, <6>2, <6>3
        <5>3. CASE ~Running(t)
          BY <1>2, <5>1, <5>3, IdleFrame DEF Running, Fits
        <5> QED
          BY <5>2, <5>3
      <4>9. Line(d, queue', items')
        <5>1. Line(d, queue, items)
          BY <4>4 DEF Alone
        <5>2. Appends(a, b, queue, items, queue', items')
          BY <1>d, <2>4, <3>2, <4>5, <4>7 DEF Appends
        <5> HIDE DEF d
        <5> QED
          BY <1>d, <4>8, <5>1, <5>2, LineAppends
      <4>10. Alone(t)'
        BY <1>1, <4>4, <4>9 DEF Alone, Running
      <4> QED
        BY <4>6, <4>10
    <3> QED
      BY <3>5, <3>6 DEF RelayInv
  <2> QED
    BY <2>5, <2>6
<1> QED
  BY <1>1, <1>4, <1>5

LEMMA StartDrainKeeps ==
  ASSUME RelayInv, clock \in 0..MaxTime, ghost \in [raced : SUBSET Peers, overlap : BOOLEAN],
         NEW t \in Threads, StartDrain(t)
  PROVE  RelayInv'
<1> DEFINE running == \E u \in Threads : Running(u)
           d == DrainOf(clock)
<1>1. /\ UNCHANGED <<inventory, items, queue>> /\ ~Running(t)
      /\ drain' = [drain EXCEPT ![t] = d]
      /\ ghost' = [ghost EXCEPT !.overlap = ghost.overlap \/ running]
  BY Zenon DEF StartDrain
<1>2. /\ d \in Frames /\ d.pc = "loop" /\ d.pos = 1 /\ d.rem = <<>> /\ d.src = <<>> /\ d.live /\ Passed(d) = 0
  BY NetworkAssumption DEF DrainOf, Frame, Frames, Passed
<1> HIDE DEF d
<1>3. RelayTyped'
  <2>1. drain \in [Threads -> Frames] /\ \A u \in Threads : Fits(drain[u], Source(u), items)
    BY DEF RelayInv, RelayTyped
  <2>2. drain' \in [Threads -> Frames] /\ drain'[t] = d /\ \A u \in Threads \ {t} : drain'[u] = drain[u]
    BY <1>1, <1>2, <2>1
  <2>3. Fits(d, queue, items)
    <3>1. Len(queue) \in Nat /\ Len(<<>>) = 0 /\ DOMAIN <<>> = {}
      BY DEF RelayInv, RelayTyped
    <3> QED
      BY <1>2, <3>1, NetworkAssumption DEF Fits, Naming
  <2>4. \A u \in Threads : Fits(drain[u], Source(u), items)'
    BY <1>1, <1>2, <2>1, <2>2, <2>3 DEF Source
  <2> QED
    BY <1>1, <2>2, <2>4 DEF RelayInv, RelayTyped
<1>4. ASSUME ~ghost'.overlap
      PROVE  SentOnce(items') /\ Alone(t)'
  <2>1. running \in BOOLEAN
    OBVIOUS
  <2>2. ~ghost.overlap /\ ~running
    <3> HIDE DEF running
    <3> QED
      BY <1>1, <1>4, <2>1, OverlapNoted
  <2>3. SentOnce(items) /\ \E u \in Threads : Alone(u)
    BY <2>2 DEF RelayInv
  <2>4. \A u \in Threads : drain[u] = Idle
    BY <2>2 DEF Running, RelayInv, RelayTyped, Fits
  <2>5. Line(Idle, queue, items)
    BY <2>3, <2>4 DEF Alone
  <2>6. Line(d, queue, items)
    BY <1>2, <2>5, IdleFrame DEF Line, Split, AllDue, NoneLost, Posting
  <2>7. drain'[t] = d /\ \A u \in Threads \ {t} : drain'[u] = Idle
    BY <1>1, <2>4 DEF RelayInv, RelayTyped
  <2> QED
    BY <1>1, <1>2, <2>3, <2>6, <2>7, IdleFrame DEF Alone, Running
<1> QED
  BY <1>3, <1>4 DEF RelayInv

\* The thread that runs while no two drains have overlapped has the line.
LEMMA RunnerIsAlone ==
  ASSUME RelayInv, ~ghost.overlap, NEW t \in Threads, Running(t)
  PROVE  SentOnce(items) /\ Alone(t) /\ Source(t) = queue /\ Line(drain[t], queue, items)
         /\ \A u \in Threads \ {t} : ~Running(u)
BY DEF RelayInv, Alone, Source

\* A step of one drain, which changes its frame to d and the items in place.
LEMMA FrameStep ==
  ASSUME RelayInv, NEW t \in Threads, NEW d \in Frames, Running(t), d.pc # "idle",
         d.live = drain[t].live, d.src = drain[t].src,
         UNCHANGED <<inventory, queue>>, ghost'.overlap = ghost.overlap,
         drain' = [drain EXCEPT ![t] = d],
         items' \in Seq(Items), DOMAIN items' = DOMAIN items,
         Fits(d, Source(t), items),
         ~ghost.overlap => SentOnce(items') /\ Line(d, queue, items')
  PROVE  RelayInv'
<1>1. drain \in [Threads -> Frames] /\ \A u \in Threads : Fits(drain[u], Source(u), items)
  BY DEF RelayInv, RelayTyped
<1>2. drain' \in [Threads -> Frames] /\ drain'[t] = d /\ \A u \in Threads \ {t} : drain'[u] = drain[u]
  BY <1>1
<1>3. \A u \in Threads : Source(u)' = Source(u)
  BY <1>2 DEF Source
<1>4. \A u \in Threads : Fits(drain'[u], Source(u)', items')
  BY <1>1, <1>2, <1>3 DEF Fits, Naming
<1>5. RelayTyped'
  BY <1>2, <1>4 DEF RelayInv, RelayTyped, Naming
<1>6. ~ghost.overlap => Alone(t)'
  BY <1>2, RunnerIsAlone DEF Alone, Running
<1> QED
  BY <1>5, <1>6 DEF RelayInv

\* The drain passes an item that is not due, or takes it up and posts it.
TakesUp(d, d2, q, n) ==
  /\ d.pc = "loop" /\ d.pos \in DOMAIN q /\ q[d.pos] = n /\ Len(d.rem) < d.pos
  /\ d2.pc \in {"loop", "post"} /\ Passed(d2) = d.pos /\ d2.rem = Append(d.rem, n)

AllTakenUp(d2, q, its, n) ==
  /\ Split(d2, q) /\ Due(n, its) /\ NoneLost(d2, q, its)
  /\ \A i \in DOMAIN q : i > Passed(d2) => Due(q[i], its) /\ q[i] # n
  /\ \A i \in DOMAIN d2.rem : i # Len(d2.rem) => Due(d2.rem[i], its) /\ d2.rem[i] # n
  /\ d2.rem[Len(d2.rem)] = n

LEMMA LineMoves ==
  ASSUME NEW d \in Frames, NEW a \in Nat, NEW q, DOMAIN q = 1..a, NEW its, Line(d, q, its),
         NEW d2 \in Frames, NEW n \in Nat, TakesUp(d, d2, q, n)
  PROVE  AllTakenUp(d2, q, its, n)
<1> DEFINE r == Len(d.rem)
<1>0. /\ d.pc = "loop" /\ d.pos \in 1..a /\ q[d.pos] = n /\ Len(d.rem) < d.pos
      /\ d2.pc \in {"loop", "post"} /\ Passed(d2) = d.pos /\ d2.rem = Append(d.rem, n)
  BY DEF TakesUp
<1>1. /\ r \in Nat /\ DOMAIN d.rem = 1..r
      /\ d.rem \in Seq(Nat) /\ d.pos \in Nat /\ Passed(d) = d.pos - 1
  BY <1>0 DEF Frames, Passed
<1>2. /\ DOMAIN d2.rem = 1..(r + 1) /\ Len(d2.rem) = r + 1
      /\ (\A i \in 1..r : d2.rem[i] = d.rem[i]) /\ d2.rem[r + 1] = n
  BY <1>0, <1>1, EntryAppended
<1> HIDE DEF r
<1>3. OneEach(q) /\ OneEach(d.rem) /\ \A i \in 1..r : \E j \in 1..(d.pos - 1) : d.rem[i] = q[j]
  BY <1>1 DEF Line, Split
<1>4. \A j \in 1..a : j # d.pos => q[j] # n
  BY <1>0, <1>3 DEF OneEach
<1>5. \A i \in 1..r : d.rem[i] # n
  BY <1>0, <1>1, <1>3, <1>4, SMTT(30)
<1>6. Split(d2, q)
  <2>1. OneEach(d2.rem)
    <3>1. \A i \in DOMAIN d2.rem : i = r + 1 \/ i \in 1..r
      BY <1>1, <1>2
    <3>2. ASSUME NEW i \in 1..r, NEW j \in 1..r, d2.rem[i] = d2.rem[j]
          PROVE  i = j
      BY <1>1, <1>2, <1>3, <3>2 DEF OneEach
    <3>3. \A i \in 1..r : d2.rem[i] # d2.rem[r + 1]
      BY <1>2, <1>5
    <3> QED
      BY <3>1, <3>2, <3>3 DEF OneEach
  <2>2. ASSUME NEW i \in 1..(r + 1)
        PROVE  \E j \in 1..d.pos : d2.rem[i] = q[j]
    <3>1. CASE i = r + 1
      BY <1>0, <1>1, <1>2, <3>1
    <3>2. CASE i \in 1..r
      <4>1. PICK j \in 1..(d.pos - 1) : d.rem[i] = q[j]
        BY <1>3, <3>2
      <4> QED
        BY <1>1, <1>2, <3>2, <4>1
    <3> QED
      BY <1>1, <3>1, <3>2
  <2>3. d2.pc = "post" => d2.pos = d.pos
    BY <1>0 DEF Passed
  <2> QED
    BY <1>0, <1>2, <1>3, <2>1, <2>2, <2>3 DEF Split
<1>7. Due(n, its)
  BY <1>0, <1>1 DEF Line, AllDue
<1>8. NoneLost(d2, q, its)
  <2> SUFFICES ASSUME NEW m \in DOMAIN its, its[m].status = "queued",
                      ~ \E i \in DOMAIN d2.rem : d2.rem[i] = m
               PROVE  \E i \in DOMAIN q : i > Passed(d2) /\ q[i] = m
    BY DEF NoneLost
  <2>1. m # n /\ ~ \E i \in DOMAIN d.rem : d.rem[i] = m
    <3>1. r + 1 \in DOMAIN d2.rem /\ \A i \in 1..r : i \in DOMAIN d2.rem
      BY <1>1, <1>2
    <3>2. m # n
      BY <1>2, <3>1
    <3>3. ASSUME NEW i \in 1..r
          PROVE  d.rem[i] # m
      BY <1>2, <3>1
    <3> QED
      BY <1>1, <3>2, <3>3
  <2>2. PICK i \in DOMAIN q : i > Passed(d) /\ q[i] = m
    BY <2>1 DEF Line, NoneLost
  <2>3. i # d.pos
    BY <1>0, <2>1, <2>2
  <2> QED
    BY <1>0, <1>1, <2>2, <2>3
<1>9. \A i \in DOMAIN q : i > Passed(d2) => Due(q[i], its) /\ q[i] # n
  BY <1>0, <1>1, <1>4 DEF Line, AllDue
<1>10. \A i \in DOMAIN d2.rem : i # Len(d2.rem) => Due(d2.rem[i], its) /\ d2.rem[i] # n
  <2>1. \A i \in 1..r : Due(d.rem[i], its)
    BY <1>0, <1>1 DEF Line, AllDue, Posting
  <2> QED
    BY <1>1, <1>2, <1>5, <2>1, SMTT(30)
<1>11. d2.rem[Len(d2.rem)] = n
  BY <1>2
<1> QED
  BY <1>6, <1>7, <1>8, <1>9, <1>10, <1>11 DEF AllTakenUp

LEMMA NextItemKeeps ==
  ASSUME RelayInv, NEW t \in Threads, NextItem(t)
  PROVE  RelayInv'
<1> DEFINE d == drain[t]
           a == Len(Source(t))
           n == Source(t)[d.pos]
           kept == Append(d.rem, n)
           to == items[n].peers
           next == d.pos + 1
           skipped == [d EXCEPT !.rem = kept, !.pos = next]
           taken == [d EXCEPT !.pc = "post", !.to = to, !.rem = kept]
           x == [items[n] EXCEPT !.attempts = items[n].attempts + 1]
<1>1. /\ d.pc = "loop" /\ d.pos <= a
      /\ UNCHANGED <<inventory, queue>> /\ ghost' = ghost
      /\ \/ drain' = [drain EXCEPT ![t] = skipped] /\ items' = items
         \/ drain' = [drain EXCEPT ![t] = taken] /\ items' = [items EXCEPT ![n] = x]
  BY DEF NextItem
<1>2. /\ drain \in [Threads -> Frames] /\ d \in Frames /\ Fits(d, Source(t), items)
      /\ items \in Seq(Items) /\ queue \in Seq(Nat) /\ Len(queue) <= MaxQueue /\ Naming(queue, items)
  BY DEF RelayInv, RelayTyped
<1>3. /\ Source(t) \in Seq(Nat) /\ a \in Nat /\ DOMAIN Source(t) = 1..a /\ Naming(Source(t), items)
  BY <1>2 DEF Source, Frames, Fits
<1>4. /\ d.pos \in 1..a /\ n \in Nat /\ n \in DOMAIN items /\ items[n] \in Items
      /\ d.rem \in Seq(Nat) /\ Len(d.rem) \in Nat /\ Passed(d) = d.pos - 1 /\ Len(d.rem) < d.pos
  BY <1>1, <1>2, <1>3 DEF Naming, Frames, Fits, Passed
<1>k. kept \in Seq(Nat) /\ kept = Append(d.rem, n) /\ to \in SUBSET Peers /\ to = items[n].peers
      /\ next \in Nat \ {0} /\ next - 1 = d.pos
  BY <1>4 DEF Items
<1> HIDE DEF a, d, n, kept, to, next
<1>5. /\ skipped \in Frames /\ skipped.pc = "loop" /\ Passed(skipped) = d.pos /\ skipped.rem = Append(d.rem, n)
      /\ skipped.live = d.live /\ skipped.src = d.src
  BY <1>1, <1>2, <1>4, <1>k DEF Frames, Passed
<1>6. /\ taken \in Frames /\ taken.pc = "post" /\ taken.pos = d.pos /\ Passed(taken) = d.pos
      /\ taken.rem = Append(d.rem, n) /\ taken.to = items[n].peers
      /\ taken.live = d.live /\ taken.src = d.src
  BY <1>1, <1>2, <1>4, <1>k DEF Frames, Passed
<1>7. /\ x \in Items /\ x.attempts = items[n].attempts + 1 /\ x.status = items[n].status
      /\ x.peers = items[n].peers /\ x.done = items[n].done /\ items[n].attempts \in Nat
  BY <1>4 DEF Items
<1> HIDE DEF skipped, taken, x
<1>8. ASSUME NEW d2 \in Frames, d2.pc \in {"loop", "post"}, Passed(d2) = d.pos, d2.rem = Append(d.rem, n),
             d2.src = d.src
      PROVE  Fits(d2, Source(t), items)
  <2>1. /\ Len(d2.rem) = Len(d.rem) + 1 /\ DOMAIN d2.rem = 1..(Len(d.rem) + 1)
        /\ (\A i \in 1..Len(d.rem) : d2.rem[i] = d.rem[i]) /\ d2.rem[Len(d.rem) + 1] = n
    BY <1>4, <1>8, EntryAppended
  <2>2. Naming(d.rem, items) /\ DOMAIN d.rem = 1..Len(d.rem) /\ Naming(d.src, items) /\ Len(d.src) <= MaxQueue
    BY <1>2, <1>4 DEF Fits
  <2>3. Naming(d2.rem, items)
    BY <1>4, <2>1, <2>2 DEF Naming
  <2>4. d2.rem # <<>>
    BY <1>4, <2>1
  <2>5. Passed(d2) <= a /\ Len(d2.rem) <= Passed(d2)
    BY <1>3, <1>4, <1>8, <2>1
  <2> QED
    BY <1>8, <2>2, <2>3, <2>4, <2>5 DEF Fits, a
<1>9. Running(t)
  BY <1>1 DEF Running, d
<1>10. ASSUME ~ghost.overlap
       PROVE  SentOnce(items) /\ Line(d, queue, items) /\ Source(t) = queue
  BY <1>9, <1>10, RunnerIsAlone DEF d
<1>11. CASE drain' = [drain EXCEPT ![t] = skipped] /\ items' = items
  <2>1. ASSUME ~ghost.overlap
        PROVE  Line(skipped, queue, items)
    <3>1. DOMAIN queue = 1..a /\ n = queue[d.pos]
      BY <1>3, <1>10, <2>1 DEF n
    <3>2. AllTakenUp(skipped, queue, items, n)
      <4>1. TakesUp(d, skipped, queue, n)
        BY <1>1, <1>4, <1>5, <3>1 DEF TakesUp
      <4> QED
        BY <1>2, <1>3, <1>4, <1>5, <1>10, <2>1, <3>1, <4>1, LineMoves
    <3> QED
      BY <1>5, <3>2 DEF Line, AllDue, AllTakenUp
  <2>2. Fits(skipped, Source(t), items)
    BY <1>5, <1>8
  <2> QED
    BY <1>1, <1>2, <1>5, <1>9, <1>10, <1>11, <2>1, <2>2, FrameStep DEF d
<1>12. CASE drain' = [drain EXCEPT ![t] = taken] /\ items' = [items EXCEPT ![n] = x]
  <2>0. /\ items' \in Seq(Items) /\ DOMAIN items' = DOMAIN items
        /\ items'[n] = x /\ \A m \in DOMAIN items \ {n} : items'[m] = items[m]
    BY <1>2, <1>4, <1>7, <1>12, ItemReplaced
  <2>1. ASSUME ~ghost.overlap
        PROVE  SentOnce(items') /\ Line(taken, queue, items')
    <3>1. DOMAIN queue = 1..a /\ n = queue[d.pos]
      BY <1>3, <1>10, <2>1 DEF n
    <3>2. AllTakenUp(taken, queue, items, n)
      <4>1. TakesUp(d, taken, queue, n)
        BY <1>1, <1>4, <1>6, <3>1 DEF TakesUp
      <4> QED
        BY <1>2, <1>3, <1>4, <1>6, <1>10, <2>1, <3>1, <4>1, LineMoves
    <3>p. /\ Split(taken, queue) /\ Due(n, items) /\ NoneLost(taken, queue, items)
          /\ \A i \in DOMAIN queue : i > Passed(taken) => Due(queue[i], items) /\ queue[i] # n
          /\ \A i \in DOMAIN taken.rem : i # Len(taken.rem) => Due(taken.rem[i], items) /\ taken.rem[i] # n
          /\ taken.rem[Len(taken.rem)] = n
      BY <3>2 DEF AllTakenUp
    <3>3. Naming(queue, items) /\ Naming(taken.rem, items)
      BY <1>2, <1>6, <1>8 DEF Fits
    <3>4. AllDue(taken, queue, items')
      <4>1. \A i \in DOMAIN queue : i > Passed(taken) => Due(queue[i], items')
        BY <2>0, <3>p, <3>3 DEF Due, Naming
      <4>2. \A i \in DOMAIN taken.rem : i # Len(taken.rem) => Due(taken.rem[i], items')
        BY <2>0, <3>p, <3>3 DEF Due, Naming
      <4>3. items'[n].status = "queued" /\ items'[n].peers = taken.to
        BY <1>6, <1>7, <2>0, <3>p DEF Due
      <4> QED
        BY <1>6, <3>1, <4>1, <4>2, <4>3 DEF AllDue, Posting
    <3>5. NoneLost(taken, queue, items')
      BY <1>7, <2>0, <3>p DEF NoneLost
    <3>6. SentOnce(items')
      <4>1. x.attempts <= MaxAttempts
        BY <1>7, <3>p, NetworkAssumption DEF Due
      <4> QED
        BY <1>4, <1>7, <1>10, <2>0, <2>1, <4>1 DEF SentOnce
    <3> QED
      BY <3>p, <3>4, <3>5, <3>6 DEF Line
  <2>2. Fits(taken, Source(t), items)
    BY <1>6, <1>8
  <2> QED
    BY <1>1, <1>2, <1>6, <1>9, <1>12, <2>0, <2>1, <2>2, FrameStep DEF d
<1> QED
  BY <1>1, <1>11, <1>12

LEMMA EntryRemoved ==
  ASSUME NEW s \in Seq(Nat), s # <<>>
  PROVE  /\ Front(s) \in Seq(Nat) /\ Len(Front(s)) = Len(s) - 1 /\ DOMAIN Front(s) = 1..(Len(s) - 1)
         /\ \A i \in 1..(Len(s) - 1) : Front(s)[i] = s[i]
         /\ Last(s) = s[Len(s)] /\ Len(s) \in DOMAIN s /\ DOMAIN s = 1..Len(s) /\ Len(s) \in Nat \ {0}
<1>1. Len(s) \in Nat \ {0} /\ DOMAIN s = 1..Len(s) /\ Last(s) = s[Len(s)]
  BY DEF Last
<1>2. Front(s) = SubSeq(s, 1, Len(s) - 1)
  BY DEF Front
<1>3. ASSUME NEW k \in 0..Len(s)
      PROVE  /\ SubSeq(s, 1, k) \in Seq(Nat) /\ Len(SubSeq(s, 1, k)) = k
             /\ \A i \in 1..k : SubSeq(s, 1, k)[i] = s[i]
  BY <1>1
<1>4. Len(s) - 1 \in 0..Len(s)
  BY <1>1
<1>5. /\ Front(s) \in Seq(Nat) /\ Len(Front(s)) = Len(s) - 1
      /\ \A i \in 1..(Len(s) - 1) : Front(s)[i] = s[i]
  BY <1>2, <1>3, <1>4
<1>6. DOMAIN Front(s) = 1..(Len(s) - 1)
  BY <1>5
<1> QED
  BY <1>1, <1>5, <1>6

LEMMA NamingRemoved ==
  ASSUME NEW s \in Seq(Nat), s # <<>>, NEW its, Naming(s, its)
  PROVE  Naming(Front(s), its)
<1>1. \A i \in DOMAIN Front(s) : i \in DOMAIN s /\ Front(s)[i] = s[i]
  <2>1. \A i \in 1..(Len(s) - 1) : i \in 1..Len(s)
    BY EntryRemoved
  <2> QED
    BY <2>1, EntryRemoved
<1> QED
  BY <1>1 DEF Naming

\* What the end of the posts makes of an item, sent to the peers of the set sent.
Settled(item, failed, now, sent) ==
  [AfterPost(item, failed, now) EXCEPT !.done = @ \union sent]

PutBack(x, after, item, failed, sent) ==
  /\ x \in Items /\ x.attempts = item.attempts /\ x.done = item.done \union sent
  /\ x.status = after.status
  /\ x.status = "queued" <=> failed # {} /\ item.attempts < MaxAttempts
  /\ x.status = "queued" => x.peers = failed

\* An item is put back, with what failed, or it is done with.
LEMMA AfterPostSound ==
  ASSUME NEW item \in Items, NEW failed \in SUBSET Peers, NEW now \in 0..MaxTime,
         NEW sent \in SUBSET Peers
  PROVE  PutBack(Settled(item, failed, now, sent), AfterPost(item, failed, now), item, failed, sent)
<1> DEFINE after == AfterPost(item, failed, now)
           retry == failed # {} /\ item.attempts < MaxAttempts
           next == now + Backoff * 2^(item.attempts - 1)
           ended == IF failed = {} THEN "delivered" ELSE "failed"
           again == [item EXCEPT !.peers = failed, !.next = next, !.status = "queued"]
           over == [item EXCEPT !.status = ended]
           done == item.done \union sent
<1>1. next \in Times /\ ended \in {"delivered", "failed"} /\ done \in SUBSET Peers
  BY DEF Times, Items
<1> HIDE DEF next, ended, done
<1>3. again \in Items /\ again.attempts = item.attempts /\ again.done = item.done /\ again.status = "queued"
      /\ again.peers = failed
  BY <1>1 DEF Items
<1>4. over \in Items /\ over.attempts = item.attempts /\ over.done = item.done /\ over.status = ended
  BY <1>1 DEF Items
<1>5. after = IF retry THEN again ELSE over
  BY DEF AfterPost, next, ended
<1> HIDE DEF again, over, after, retry
<1>6. /\ after \in Items /\ after.attempts = item.attempts /\ after.done = item.done
      /\ after.status = "queued" <=> retry
      /\ after.status = "queued" => after.peers = failed
  BY <1>1, <1>3, <1>4, <1>5
<1>7. after.done \union sent = done
  BY <1>6 DEF done
<1>8. /\ [after EXCEPT !.done = done] \in Items
      /\ [after EXCEPT !.done = done].attempts = after.attempts
      /\ [after EXCEPT !.done = done].status = after.status
      /\ [after EXCEPT !.done = done].peers = after.peers
      /\ [after EXCEPT !.done = done].done = done
  BY <1>1, <1>6 DEF Items
<1> QED
  BY <1>6, <1>7, <1>8 DEF PutBack, Settled, after, retry, done

\* The posts of an item end: d2 keeps it, due again, or leaves it out.
Resumes(d, d2, q, its, its2) ==
  /\ d.pc = "post" /\ d.rem # <<>> /\ d.pos \in DOMAIN q
  /\ d2.pc = "loop" /\ Passed(d2) = Passed(d)
  /\ DOMAIN its2 = DOMAIN its /\ \A m \in DOMAIN its : m # q[d.pos] => its2[m] = its[m]
  /\ \/ d2.rem = d.rem /\ Due(q[d.pos], its2)
     \/ d2.rem = Front(d.rem) /\ its2[q[d.pos]].status # "queued"

LEMMA LineResumes ==
  ASSUME NEW d \in Frames, NEW q, NEW its, Line(d, q, its), Naming(q, its), Naming(d.rem, its),
         NEW d2, NEW its2, Resumes(d, d2, q, its, its2)
  PROVE  Line(d2, q, its2)
<1>0. /\ d.pc = "post" /\ d.rem # <<>> /\ d.pos \in DOMAIN q
      /\ d2.pc = "loop" /\ Passed(d2) = Passed(d)
      /\ DOMAIN its2 = DOMAIN its /\ \A m \in DOMAIN its : m # q[d.pos] => its2[m] = its[m]
      /\ \/ d2.rem = d.rem /\ Due(q[d.pos], its2)
         \/ d2.rem = Front(d.rem) /\ its2[q[d.pos]].status # "queued"
  BY DEF Resumes
<1> DEFINE n == q[d.pos]
           r == Len(d.rem)
<1>1. /\ r \in Nat \ {0} /\ DOMAIN d.rem = 1..r /\ r \in DOMAIN d.rem
      /\ DOMAIN Front(d.rem) = 1..(r - 1) /\ \A i \in 1..(r - 1) : Front(d.rem)[i] = d.rem[i]
  BY <1>0, EntryRemoved DEF Frames
<1>2. /\ OneEach(q) /\ OneEach(d.rem) /\ d.rem[r] = n /\ n \in DOMAIN its
      /\ Passed(d) = d.pos /\ d.pos \in Nat
  BY <1>0 DEF Line, Split, Naming, Passed, Frames
<1>3. \A i \in DOMAIN d.rem : i # r => d.rem[i] # n /\ Due(d.rem[i], its)
  BY <1>0, <1>1, <1>2 DEF OneEach, Line, AllDue, Posting
<1>4. \A i \in DOMAIN q : i > d.pos => q[i] # n
  BY <1>0, <1>2 DEF OneEach
<1>5. ASSUME NEW i \in DOMAIN q, i > Passed(d2)
      PROVE  Due(q[i], its2)
  <2>1. Due(q[i], its) /\ q[i] # n
    BY <1>0, <1>2, <1>4, <1>5 DEF Line, AllDue
  <2> QED
    BY <1>0, <2>1 DEF Naming, Due
<1>6. \A i \in DOMAIN d.rem : i # r => Due(d.rem[i], its2)
  BY <1>0, <1>3 DEF Naming, Due
<1>7. ASSUME NEW m \in DOMAIN its, its2[m].status = "queued", m # n
      PROVE  \/ \E i \in DOMAIN d.rem : i # r /\ d.rem[i] = m
             \/ \E i \in DOMAIN q : i > Passed(d2) /\ q[i] = m
  <2>1. its[m].status = "queued"
    BY <1>0, <1>7
  <2>2. \/ \E i \in DOMAIN d.rem : d.rem[i] = m
        \/ \E i \in DOMAIN q : i > Passed(d2) /\ q[i] = m
    BY <1>0, <2>1 DEF Line, NoneLost
  <2> QED
    BY <1>0, <1>2, <1>7, <2>2
<1>8. CASE d2.rem = d.rem /\ Due(n, its2)
  <2>1. Split(d2, q)
    BY <1>0, <1>8 DEF Line, Split
  <2>2. AllDue(d2, q, its2)
    BY <1>0, <1>2, <1>5, <1>6, <1>8 DEF AllDue
  <2>3. NoneLost(d2, q, its2)
    BY <1>0, <1>1, <1>2, <1>7, <1>8 DEF NoneLost
  <2> QED
    BY <1>0, <2>1, <2>2, <2>3 DEF Line
<1>9. CASE d2.rem = Front(d.rem) /\ its2[n].status # "queued"
  <2> DEFINE f == Front(d.rem)
  <2>1. \A i \in DOMAIN f : i \in DOMAIN d.rem /\ i # r /\ f[i] = d.rem[i]
    BY <1>0, <1>1
  <2>2. \A i \in DOMAIN d.rem : i # r => i \in DOMAIN f
    BY <1>0, <1>1
  <2> HIDE DEF f
  <2>3. d2.rem = f
    BY <1>0, <1>9 DEF f
  <2>4. Split(d2, q)
    <3>1. OneEach(f)
      BY <1>0, <1>2, <2>1 DEF OneEach
    <3>2. \A i \in DOMAIN f : \E j \in 1..Passed(d2) : f[i] = q[j]
      BY <1>0, <2>1 DEF Line, Split
    <3> QED
      BY <1>0, <1>2, <2>3, <3>1, <3>2 DEF Split
  <2>5. AllDue(d2, q, its2)
    BY <1>0, <1>5, <1>6, <2>1, <2>3 DEF AllDue
  <2>6. NoneLost(d2, q, its2)
    BY <1>0, <1>7, <1>9, <2>1, <2>2, <2>3 DEF NoneLost
  <2> QED
    BY <1>0, <2>4, <2>5, <2>6 DEF Line
<1> QED
  BY <1>0, <1>8, <1>9

LEMMA PostedKeeps ==
  ASSUME RelayInv, ghost \in [raced : SUBSET Peers, overlap : BOOLEAN],
         NEW t \in Threads, NEW failed \in SUBSET drain[t].to, Posted(t, failed)
  PROVE  RelayInv'
<1> DEFINE d == drain[t]
           n == Last(d.rem)
           after == AfterPost(items[n], failed, d.now)
           sent == d.to \ failed
           x == Settled(items[n], failed, d.now, sent)
           next == d.pos + 1
           none == {}
           kept == IF after.status = "queued" THEN d.rem ELSE Front(d.rem)
           d2 == [d EXCEPT !.pc = "loop", !.pos = next, !.to = none, !.rem = kept]
<1>1. /\ d.pc = "post"
      /\ ghost'.overlap = ghost.overlap
      /\ items' = [items EXCEPT ![n] = x]
      /\ drain' = [drain EXCEPT ![t] = d2]
      /\ UNCHANGED <<inventory, queue>>
  <2>1. ghost' = [ghost EXCEPT !.raced = ghost.raced \union (Banned(rep') \intersect adding)]
    BY DEF Posted, SetRep
  <2> QED
    BY <2>1 DEF Posted, Settled
<1>2. /\ drain \in [Threads -> Frames] /\ d \in Frames /\ Fits(d, Source(t), items)
      /\ items \in Seq(Items) /\ queue \in Seq(Nat) /\ Naming(queue, items) /\ DOMAIN queue = 1..Len(queue)
  BY DEF RelayInv, RelayTyped
<1>3. /\ d.rem \in Seq(Nat) /\ d.rem # <<>> /\ d.pos \in Nat \ {0} /\ Passed(d) = d.pos
      /\ Naming(d.rem, items) /\ d.to \in SUBSET Peers /\ d.now \in 0..MaxTime
  BY <1>1, <1>2 DEF Frames, Fits, Passed
<1>4. Running(t)
  BY <1>1 DEF Running
<1>5. n = d.rem[Len(d.rem)] /\ n \in DOMAIN items /\ items[n] \in Items
  <2>1. n = d.rem[Len(d.rem)] /\ Len(d.rem) \in DOMAIN d.rem
    BY <1>3, EntryRemoved
  <2>2. n \in DOMAIN items
    BY <1>3, <2>1 DEF Naming
  <2> QED
    BY <1>2, <2>1, <2>2
<1>6. failed \in SUBSET Peers /\ failed \subseteq d.to
  BY <1>3
<1> HIDE DEF d, n
<1>7. next \in Nat \ {0} /\ next - 1 = d.pos
  BY <1>3
<1>8. none \in SUBSET Peers /\ sent \in SUBSET Peers
  BY <1>3
<1> HIDE DEF sent
<1>9. /\ x \in Items /\ x.attempts = items[n].attempts /\ x.done = items[n].done \union sent
      /\ x.status = after.status
      /\ x.status = "queued" <=> failed # {} /\ items[n].attempts < MaxAttempts
      /\ x.status = "queued" => x.peers = failed
  <2>1. items[n] \in Items /\ failed \in SUBSET Peers /\ d.now \in 0..MaxTime /\ sent \in SUBSET Peers
    BY <1>3, <1>5, <1>6, <1>8
  <2>2. PutBack(x, after, items[n], failed, sent)
    BY <2>1, AfterPostSound
  <2> HIDE DEF x, after
  <2> QED
    BY <2>2 DEF PutBack
<1>10. \/ after.status = "queued" /\ kept = d.rem
       \/ after.status # "queued" /\ kept = Front(d.rem)
  <2> HIDE DEF after
  <2> QED
    BY Zenon
<1> HIDE DEF next, none, kept, x, after
<1>11. kept \in Seq(Nat) /\ Len(kept) <= Len(d.rem) /\ Naming(kept, items)
  <2>1. /\ Front(d.rem) \in Seq(Nat) /\ Len(Front(d.rem)) = Len(d.rem) - 1 /\ Len(d.rem) \in Nat \ {0}
        /\ DOMAIN d.rem = 1..Len(d.rem) /\ DOMAIN Front(d.rem) = 1..(Len(d.rem) - 1)
        /\ \A i \in 1..(Len(d.rem) - 1) : Front(d.rem)[i] = d.rem[i]
    BY <1>3, EntryRemoved
  <2>2. Naming(Front(d.rem), items)
    BY <1>3, NamingRemoved
  <2>3. Len(Front(d.rem)) <= Len(d.rem)
    BY <2>1
  <2> QED
    BY <1>3, <1>10, <2>1, <2>2, <2>3
<1>12. /\ d2 \in Frames /\ d2.pc = "loop" /\ d2.pos = next /\ d2.rem = kept /\ d2.live = d.live
       /\ d2.src = d.src /\ Passed(d2) = d.pos
  BY <1>2, <1>7, <1>8, <1>11 DEF Frames, Passed
<1> HIDE DEF d2
<1>13. Fits(d2, Source(t), items)
  <2>1. Passed(d) <= Len(Source(t)) /\ Len(d.rem) <= Passed(d) /\ Len(d.src) <= MaxQueue /\ Naming(d.src, items)
    BY <1>2 DEF Fits
  <2>2. Len(d2.rem) <= Passed(d2)
    BY <1>3, <1>11, <1>12, <2>1
  <2> QED
    BY <1>3, <1>11, <1>12, <2>1, <2>2 DEF Fits
<1>14. /\ items' \in Seq(Items) /\ DOMAIN items' = DOMAIN items
       /\ items'[n] = x /\ \A m \in DOMAIN items \ {n} : items'[m] = items[m]
  BY <1>1, <1>2, <1>5, <1>9, ItemReplaced
<1>15. ASSUME ~ghost.overlap
       PROVE  SentOnce(items') /\ Line(d2, queue, items')
  <2>1. SentOnce(items) /\ Line(d, queue, items) /\ Source(t) = queue
    BY <1>4, <1>15, RunnerIsAlone DEF d
  <2>2. d.pos \in DOMAIN queue
    BY <1>2, <1>3, <2>1 DEF Fits
  <2>3. n = queue[d.pos] /\ items[n].status = "queued" /\ items[n].peers = d.to
    BY <1>1, <1>5, <2>1 DEF Line, Split, AllDue
  <2>4. items[n].attempts <= MaxAttempts /\ items[n].peers \intersect items[n].done = {}
    BY <1>5, <2>1, <2>3 DEF SentOnce
  <2>5. failed \intersect (items[n].done \union sent) = {}
    BY <1>6, <2>3, <2>4 DEF sent
  <2>6. SentOnce(items')
    BY <1>9, <1>14, <2>1, <2>4, <2>5 DEF SentOnce
  <2>7. \/ d2.rem = d.rem /\ Due(queue[d.pos], items')
        \/ d2.rem = Front(d.rem) /\ items'[queue[d.pos]].status # "queued"
    BY <1>9, <1>10, <1>12, <1>14, <2>3 DEF Due
  <2>8. Line(d2, queue, items')
    <3>1. Resumes(d, d2, queue, items, items')
      BY <1>1, <1>3, <1>12, <1>14, <2>2, <2>3, <2>7 DEF Resumes
    <3> QED
      BY <1>2, <1>3, <2>1, <3>1, LineResumes
  <2> QED
    BY <2>6, <2>8
<1> QED
  BY <1>1, <1>4, <1>12, <1>13, <1>14, <1>15, FrameStep DEF d

\* The queue becomes what the drain has kept.
LEMMA EndDrainKeeps ==
  ASSUME RelayInv, NEW t \in Threads, EndDrain(t)
  PROVE  RelayInv'
<1> DEFINE d == drain[t]
<1>1. /\ d.pc = "loop" /\ d.pos > Len(Source(t)) /\ queue' = d.rem
      /\ drain' = [u \in Threads |-> IF u = t THEN Idle ELSE Left(drain[u])]
      /\ UNCHANGED <<inventory, items, ghost>>
  BY DEF EndDrain
<1>2. /\ drain \in [Threads -> Frames] /\ \A u \in Threads : drain[u] \in Frames /\ Fits(drain[u], Source(u), items)
      /\ queue \in Seq(Nat) /\ Len(queue) <= MaxQueue /\ Naming(queue, items) /\ DOMAIN queue = 1..Len(queue)
      /\ Len(queue) \in Nat
  BY DEF RelayInv, RelayTyped
<1>3. /\ d \in Frames /\ d.rem \in Seq(Nat) /\ Naming(d.rem, items) /\ d.pos \in Nat /\ Passed(d) = d.pos - 1
      /\ Len(d.rem) \in Nat /\ DOMAIN d.rem = 1..Len(d.rem)
  BY <1>1, <1>2 DEF Frames, Fits, Passed
<1>4. /\ Len(Source(t)) \in Nat /\ Len(Source(t)) <= MaxQueue /\ Passed(d) = Len(Source(t))
      /\ Len(d.rem) <= Len(Source(t))
  <2>1. Len(Source(t)) \in Nat /\ Len(Source(t)) <= MaxQueue
    BY <1>2 DEF Source, Frames, Fits
  <2>2. Passed(d) <= Len(Source(t)) /\ Len(d.rem) <= Passed(d)
    BY <1>2 DEF Fits
  <2> QED
    BY <1>1, <1>3, <2>1, <2>2
<1>5. ASSUME NEW u \in Threads, u # t
      PROVE  drain'[u] \in Frames /\ Fits(drain'[u], Source(u)', items)
  <2> DEFINE e == drain[u]
             off == FALSE
             list == queue
             gone == [e EXCEPT !.live = off, !.src = list]
  <2>1. e \in Frames /\ Fits(e, Source(u), items) /\ drain'[u] = IF e.live THEN gone ELSE e
    BY <1>1, <1>2, <1>5 DEF Left
  <2>2. off \in BOOLEAN /\ ~off /\ list \in Seq(Nat) /\ list = queue
    BY <1>2
  <2> HIDE DEF e, off, list
  <2>3. gone \in Frames /\ gone.live = off /\ gone.src = list /\ gone.pc = e.pc /\ gone.pos = e.pos
        /\ gone.rem = e.rem
    BY <2>1, <2>2 DEF Frames
  <2> HIDE DEF gone
  <2>4. CASE ~e.live
    <3>1. drain'[u] = e /\ Source(u) = e.src /\ Source(u)' = e.src
      BY <2>1, <2>4 DEF Source, e
    <3> QED
      BY <2>1, <3>1
  <2>5. CASE e.live
    <3>1. drain'[u] = gone /\ Source(u) = queue /\ Source(u)' = queue
      BY <2>1, <2>2, <2>3, <2>5 DEF Source, e
    <3>2. e.pc # "idle"
      BY <2>1, <2>5, IdleFrame DEF Fits
    <3> QED
      BY <1>2, <2>1, <2>2, <2>3, <3>1, <3>2 DEF Fits, Passed
  <2> QED
    BY <2>4, <2>5
<1>6. drain'[t] = Idle /\ Source(t)' = <<>>
  BY <1>1, IdleFrame DEF Source
<1>7. Fits(Idle, <<>>, items)
  BY IdleFrame, NetworkAssumption DEF Fits, Naming
<1>8. RelayTyped'
  <2>1. drain' \in [Threads -> Frames]
    BY <1>1, <1>5, <1>6, IdleFrame
  <2>2. \A u \in Threads : Fits(drain'[u], Source(u)', items)
    BY <1>5, <1>6, <1>7
  <2>3. Len(queue') <= MaxQueue
    BY <1>1, <1>3, <1>4, NetworkAssumption
  <2> QED
    BY <1>1, <1>3, <2>1, <2>2, <2>3 DEF RelayInv, RelayTyped
<1>9. ASSUME ~ghost.overlap
      PROVE  SentOnce(items') /\ Alone(t)'
  <2>1. /\ SentOnce(items) /\ Line(d, queue, items) /\ Source(t) = queue
        /\ \A u \in Threads \ {t} : ~Running(u)
    BY <1>1, <1>9, RunnerIsAlone DEF Running
  <2>2. \A u \in Threads \ {t} : drain'[u].pc = "idle"
    <3> SUFFICES ASSUME NEW u \in Threads \ {t}
                 PROVE  drain'[u].pc = "idle"
      OBVIOUS
    <3>1. drain[u] = Idle
      BY <1>2, <2>1 DEF Running, Fits
    <3> QED
      BY <1>1, <3>1, IdleFrame DEF Left
  <2>3. \A i \in DOMAIN queue : ~(i > Passed(d))
    BY <1>2, <1>4, <2>1
  <2>4. /\ OneEach(d.rem) /\ \A i \in DOMAIN d.rem : Due(d.rem[i], items)
        /\ \A m \in DOMAIN items : items[m].status = "queued" => \E i \in DOMAIN d.rem : d.rem[i] = m
    BY <1>1, <2>1, <2>3 DEF Line, Split, AllDue, NoneLost, Posting
  <2>5. Line(Idle, d.rem, items)
    <3>1. Passed(Idle) = 0 /\ Idle.pc = "idle" /\ DOMAIN Idle.rem = {} /\ OneEach(Idle.rem)
      BY IdleFrame DEF OneEach
    <3>2. \A i \in DOMAIN d.rem : i > Passed(Idle)
      BY <1>3, <3>1
    <3> QED
      BY <2>4, <3>1, <3>2 DEF Line, Split, AllDue, NoneLost
  <2> QED
    BY <1>1, <1>6, <2>1, <2>2, <2>5, IdleFrame DEF Alone, Running
<1> QED
  BY <1>1, <1>8, <1>9 DEF RelayInv

LEMMA RelayGoesOn == BansInv /\ RelayInv /\ [Next]_vars => RelayInv'
<1> SUFFICES ASSUME BansInv, RelayInv, [Next]_vars
             PROVE  RelayInv'
  OBVIOUS
<1>0. /\ ghost \in [raced : SUBSET Peers, overlap : BOOLEAN] /\ clock \in 0..MaxTime
      /\ rep.peers \subseteq Peers
  BY DEF BansInv, BansHold, TypeOK
<1>1. ASSUME NEW r, SetRep(r), UNCHANGED relayVars
      PROVE  RelayInv'
  <2>1. ghost' = [ghost EXCEPT !.raced = ghost.raced \union (Banned(r) \intersect adding)]
    BY <1>1 DEF SetRep
  <2>2. ghost'.overlap = ghost.overlap
    BY <1>0, <2>1
  <2> QED
    BY <1>1, <2>2, RelayUntouched DEF relayVars
<1>2. ASSUME NEW r, NEW configured, Restarted(r, configured)
      PROVE  RelayInv'
  <2>1. inventory' = <<>> /\ items' = <<>> /\ queue' = <<>> /\ drain' = [t \in Threads |-> Idle]
    BY <1>2 DEF Restarted
  <2>2. (RelayInv)'
    <3>1. \A t \in Threads : drain'[t] = Idle /\ Fits(drain'[t], Source(t)', items')
      BY <2>1, IdleFrame, NetworkAssumption DEF Fits, Naming, Source
    <3>2. RelayTyped'
      BY <2>1, <3>1, IdleFrame, NetworkAssumption DEF RelayTyped, Naming
    <3>3. \A t \in Threads : Alone(t)'
      BY <2>1, <3>1, IdleFrame DEF Alone, Line, Split, AllDue, NoneLost, OneEach, Running, Posting
    <3>4. SentOnce(items')
      BY <2>1 DEF SentOnce
    <3> QED
      BY <3>2, <3>3, <3>4, NetworkAssumption DEF RelayInv
  <2> QED
    BY <2>2
<1>3. CASE PeerNext
  <2>1. ASSUME NEW p \in Peers, CheckPeer(p) \/ AddPeer(p)
        PROVE  RelayInv'
    BY <2>1, RelayUntouched DEF CheckPeer, AddPeer, relayVars
  <2>2. ASSUME NEW p \in Peers, BanPeer(p) \/ UnbanPeer(p) \/ SyncWith(p)
        PROVE  \E r : SetRep(r) /\ UNCHANGED relayVars
    BY <2>2 DEF BanPeer, UnbanPeer, SyncWith
  <2>3. ASSUME NEW p \in Peers, CrashInBan(p)
        PROVE  \E r, configured : Restarted(r, configured)
    BY <2>3 DEF CrashInBan
  <2>4. Restart => \E r, configured : Restarted(r, configured)
    BY DEF Restart
  <2> QED
    BY <1>1, <1>2, <1>3, <2>1, <2>2, <2>3, <2>4 DEF PeerNext
<1>4. CASE RelayNext
  <2>1. ASSUME NEW id \in Transactions \union BlockIds, NEW force \in BOOLEAN, Enqueue(id, force)
        PROVE  RelayInv'
    BY <1>0, <2>1, EnqueueKeeps
  <2>2. ASSUME NEW t \in Threads, StartDrain(t) \/ NextItem(t) \/ EndDrain(t)
        PROVE  RelayInv'
    BY <1>0, <2>2, StartDrainKeeps, NextItemKeeps, EndDrainKeeps
  <2>3. ASSUME NEW t \in Threads, NEW failed \in SUBSET drain[t].to, Posted(t, failed)
        PROVE  RelayInv'
    BY <1>0, <2>3, PostedKeeps
  <2> QED
    BY <1>4, <2>1, <2>2, <2>3 DEF RelayNext
<1>5. CASE Tick
  BY <1>5, RelayUntouched DEF Tick, relayVars
<1>6. CASE UNCHANGED vars
  BY <1>6, RelayUntouched DEF vars
<1> QED
  BY <1>3, <1>4, <1>5, <1>6 DEF Next

LEMMA RelayInitially == Init => RelayInv
BY RelayStarts DEF Init

LEMMA LineIsKept == RelayInv => RelayKeptUncut /\ RetriesOnlyMissing
<1> SUFFICES ASSUME RelayInv
             PROVE  RelayKeptUncut /\ RetriesOnlyMissing
  OBVIOUS
<1>1. RelayBounded
  <2>1. \A t \in Threads : Naming(drain[t].rem, items)
    BY DEF RelayInv, RelayTyped, Fits
  <2>2. Naming(queue, items)
    BY DEF RelayInv, RelayTyped
  <2> QED
    BY <2>1, <2>2 DEF RelayInv, RelayTyped, RelayBounded, ToSet, Naming
<1>2. ASSUME ~ghost.overlap
      PROVE  RelayKept
  <2>1. PICK t \in Threads : Alone(t)
    BY <1>2 DEF RelayInv
  <2>2. NoneLost(drain[t], queue, items)
    BY <2>1 DEF Alone, Line
  <2> SUFFICES ASSUME NEW n \in DOMAIN items, items[n].status = "queued"
               PROVE  n \in ToSet(queue) \union ToSet(drain[t].rem)
    BY DEF RelayKept
  <2> QED
    BY <2>2 DEF NoneLost, ToSet
<1>3. RetriesOnlyMissing
  BY DEF RelayInv, SentOnce, RetriesOnlyMissing
<1> QED
  BY <1>1, <1>2, <1>3 DEF RelayKeptUncut

\* The queue and the inventory stay within their bounds however drains overlap,
\* and as long as none do, an item that is neither delivered nor given up is in
\* the queue or with the drain (node.py:944-1006).
THEOREM RelayLosesNothing == Spec => []RelayKeptUncut
<1>1. Init => BansInv /\ RelayInv
  BY BansInitially, RelayInitially
<1>2. BansInv /\ RelayInv /\ [Next]_vars => (BansInv /\ RelayInv)'
  BY BansKept, RelayGoesOn
<1>3. BansInv /\ RelayInv => RelayKeptUncut
  BY LineIsKept
<1> QED
  BY <1>1, <1>2, <1>3, PTL DEF Spec

\* As long as no two drains overlap, no peer that took an item is sent it again,
\* and none is sent more than relay_max_attempts times (node.py:979-994).
THEOREM RetriesAreMissing == Spec => []RetriesOnlyMissing
<1>1. Init => BansInv /\ RelayInv
  BY BansInitially, RelayInitially
<1>2. BansInv /\ RelayInv /\ [Next]_vars => (BansInv /\ RelayInv)'
  BY BansKept, RelayGoesOn
<1>3. BansInv /\ RelayInv => RetriesOnlyMissing
  BY LineIsKept
<1> QED
  BY <1>1, <1>2, <1>3, PTL DEF Spec
=============================================================================
