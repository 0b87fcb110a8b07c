------------------------------ MODULE NodeSync ------------------------------
(***************************************************************************)
(* Several nodes (netcoin/node.py), each over its own Blockchain: a block is *)
(* posted to a node, accepted and relayed to its peers, and a background     *)
(* pass asks the peers one after the other for what the relay did not bring. *)
(* A pass is a sequence of requests, and everything may move between two of  *)
(* them: the peer's chain, the own one, the pages of a download.             *)
(*                                                                         *)
(* add_block is Blockchain's in short: the clock stands still here, and the   *)
(* pool and the cache are left out.  Scores, bans and the relay queue are PeerNode's: a  *)
(* block that a queue gives up is lost here.                                *)
(***************************************************************************)
EXTENDS Ledger

CONSTANTS
  Nodes, Topologies, \* the processes, and whom each of them may know
  HeaderLimit,       \* headers of one answer
  PageLimit,         \* blocks of one page of /chain
  MaxStored,         \* max_orphans of the chain
  MaxWaiting,        \* max_node_orphans
  MaxFaults,         \* bound on failed requests, lost blocks and restarts
  NoBlock

VARIABLES
  peers,     \* per node whom it asks and relays to; PeerNode changes it
  chains,    \* per node chain.chain
  stored,    \* chain.orphan_blocks, in insertion order
  waiting,   \* orphans, in insertion order
  seen,      \* blocks it has broadcast
  handling,  \* the block accept_block has just taken, or NoBlock
  pass,      \* per node where its sync_all stands
  mail,      \* blocks on their way, with their receiver
  found,     \* blocks mined so far
  faults

netVars == <<peers, chains, stored, waiting, seen, handling, pass, mail, found, faults>>

Sound == {b \in Blocks : ValidBranch(Blk[b].branch, 0)}
Work(n) == Blk[Tip(chains[n])].chainWork
NoPass == [pc |-> "idle", left |-> {}, peer |-> NoBlock, start |-> 0, wanted |-> <<>>, pages |-> <<>>]

NetInit ==
  /\ peers \in Topologies
  /\ chains = [n \in Nodes |-> <<Genesis>>]
  /\ stored = [n \in Nodes |-> <<>>] /\ waiting = [n \in Nodes |-> <<>>]
  /\ seen = [n \in Nodes |-> {}]
  /\ handling = [n \in Nodes |-> NoBlock]
  /\ pass = [n \in Nodes |-> NoPass]
  /\ mail = {} /\ found = {} /\ faults = 0

\* The stored blocks o that _maybe_reorg may move the chain c to.
Heavier(c, o) ==
  {b \in BlocksIn(o) \intersect Sound :
     /\ Blk[b].chainWork > Blk[Tip(c)].chainWork
     /\ BlocksIn(Blk[b].branch) \subseteq BlocksIn(c) \union BlocksIn(o)}

\* _switch_to: the blocks that it displaces are stored.
SwitchedTo(new, c, o) ==
  LET left == SelectSeq(c, LAMBDA b : b \notin BlocksIn(new) \union BlocksIn(o))
  IN  [chain |-> new, stored |-> SelectSeq(o \o left, LAMBDA b : b \notin BlocksIn(new))]

Reorged(c, o) ==
  LET best == Best(Heavier(c, o), o)
  IN  IF best = {} THEN [chain |-> c, stored |-> o]
      ELSE SwitchedTo(Blk[CHOOSE b \in best : TRUE].branch, c, o)

\* The last cap entries of a dict that b is put into.
Capped(o, b, cap) ==
  LET longer == IF b \in BlocksIn(o) THEN o ELSE Append(o, b)
  IN  SubSeq(longer, IF Len(longer) > cap THEN Len(longer) - cap + 1 ELSE 1, Len(longer))

\* What add_block leaves, and whether it returned or raised: it raises for an
\* unsound block on the tip, and for a stored one that is not active then.
Returned(r, ok) == [chain |-> r.chain, stored |-> r.stored, ok |-> ok]
ReturnedFor(b, r) == Returned(r, b \in BlocksIn(r.chain))

Added(n, b) ==
  LET c == chains[n]
      o == stored[n]
  IN  CASE b \in BlocksIn(c) -> Returned([chain |-> c, stored |-> o], TRUE)
        [] b \notin BlocksIn(c) /\ Blk[b].prev = Tip(c) ->
             IF b \in Sound THEN Returned(Reorged(Append(c, b), o), TRUE)
             ELSE Returned([chain |-> c, stored |-> o], FALSE)
        [] OTHER -> ReturnedFor(b, Reorged(c, Capped(o, b, MaxStored)))

BlockAdded(n, r) ==
  /\ chains' = [chains EXCEPT ![n] = r.chain]
  /\ stored' = [stored EXCEPT ![n] = r.stored]

(* ---------------- blocks that are posted --------------------------------- *)
\* Somebody finds a block on one that is known, and posts it to n.
Mine(n, b) ==
  /\ b \notin found /\ Blk[b].powOk /\ Blk[b].prev \in found \union {Genesis}
  /\ found' = found \union {b}
  /\ mail' = mail \union {<<n, b>>}
  /\ UNCHANGED <<peers, chains, stored, waiting, seen, handling, pass, faults>>

\* A block that was refused waits if it does not connect and is above the chain c.
LooksLikeOrphan(n, b, c) == Blk[b].prev # Tip(chains[n]) /\ Blk[b].height >= Len(c)

\* accept_block up to its loop.  A block that is refused makes the handler run a
\* pass of its own: see StartPass.
Receive(n, b) ==
  /\ <<n, b>> \in mail /\ handling[n] = NoBlock
  /\ mail' = mail \ {<<n, b>>}
  /\ LET r == Added(n, b) IN
       /\ BlockAdded(n, r)
       /\ handling' = [handling EXCEPT ![n] = IF r.ok THEN b ELSE NoBlock]
       /\ waiting' = [waiting EXCEPT ![n] =
            IF ~r.ok /\ LooksLikeOrphan(n, b, r.chain) THEN Capped(@, b, MaxWaiting) ELSE @]
  /\ UNCHANGED <<peers, seen, pass, found, faults>>

Connectable(n) == {b \in BlocksIn(waiting[n]) \intersect Sound : Blk[b].prev = Tip(chains[n])}

ConnectWaiting(n) ==
  /\ handling[n] # NoBlock
  /\ \E b \in Connectable(n) :
       /\ BlockAdded(n, Added(n, b))
       /\ waiting' = [waiting EXCEPT ![n] = SelectSeq(@, LAMBDA w : w # b)]
  /\ UNCHANGED <<peers, seen, handling, pass, mail, found, faults>>

\* relay_new_blocks: the block, and the tip when that is another one by now.
Relay(n) ==
  LET news == {handling[n], Tip(chains[n])} \ seen[n] IN
  /\ handling[n] # NoBlock /\ Connectable(n) = {}
  /\ handling' = [handling EXCEPT ![n] = NoBlock]
  /\ seen' = [seen EXCEPT ![n] = @ \union news]
  /\ mail' = mail \union (peers[n] \X news)
  /\ UNCHANGED <<peers, chains, stored, waiting, pass, found, faults>>

(* ---------------- a pass over the peers ----------------------------------- *)
passRest == <<peers, waiting, seen, handling, mail, found, faults>>
To(n, p) == pass' = [pass EXCEPT ![n] = p]
\* The slice of the chain a peer answers with.
Slice(m, start, limit) == SubSeq(chains[m], start + 1, IF start + limit < Len(chains[m]) THEN start + limit ELSE Len(chains[m]))

\* The loop's turn, an operator's request, or the handler of a refused block; a
\* node runs one pass at a time here.
StartPass(n) ==
  /\ pass[n].pc = "idle" /\ peers[n] # {}
  /\ To(n, [NoPass EXCEPT !.pc = "next", !.left = peers[n]])
  /\ UNCHANGED <<chains, stored, passRest>>

EndPass(n) ==
  /\ pass[n].pc = "next" /\ pass[n].left = {}
  /\ To(n, NoPass)
  /\ UNCHANGED <<chains, stored, passRest>>

\* A peer that is not higher is left alone, whatever its work.
ReadInfo(n) ==
  /\ pass[n].pc = "next"
  /\ \E m \in pass[n].left :
       LET rest == [pass[n] EXCEPT !.left = @ \ {m}] IN
       To(n, IF Len(chains[m]) > Len(chains[n])
             THEN [rest EXCEPT !.pc = "headers", !.peer = m, !.start = Len(chains[n])] ELSE rest)
  /\ UNCHANGED <<chains, stored, passRest>>

Fallback(p) == [p EXCEPT !.pc = "pages", !.wanted = <<>>, !.pages = <<>>]
Done(p) == [NoPass EXCEPT !.pc = "next", !.left = p.left]

\* Faulty variant: headers of another branch end the visit.
FaultyAfterHeaders(p, hs, tip) ==
  IF hs # <<>> /\ Blk[hs[1]].prev = tip THEN [p EXCEPT !.pc = "bodies", !.wanted = hs] ELSE Done(p)

\* Headers that extend the own tip of this moment are followed; others, and
\* none, lead to the download of the whole chain.
AfterHeaders(p, hs, tip) ==
  IF hs # <<>> /\ Blk[hs[1]].prev = tip THEN [p EXCEPT !.pc = "bodies", !.wanted = hs] ELSE Fallback(p)

FetchHeaders(n) ==
  /\ pass[n].pc = "headers"
  /\ To(n, AfterHeaders(pass[n], Slice(pass[n].peer, pass[n].start, HeaderLimit), Tip(chains[n])))
  /\ UNCHANGED <<chains, stored, passRest>>

\* A body is there as long as it is on the peer's chain.
FetchBody(n) ==
  LET p == pass[n]
      b == Head(p.wanted)
  IN  /\ p.pc = "bodies"
      /\ \/ /\ b \notin BlocksIn(chains[p.peer])
            /\ To(n, Fallback(p))
            /\ UNCHANGED <<chains, stored>>
         \/ /\ b \in BlocksIn(chains[p.peer])
            /\ LET r == Added(n, b) IN
                 /\ BlockAdded(n, r)
                 /\ To(n, CASE ~r.ok -> Fallback(p)
                            [] r.ok /\ Len(p.wanted) > 1 -> [p EXCEPT !.wanted = Tail(@)]
                            [] OTHER -> Done(p))
      /\ UNCHANGED passRest

FetchPage(n) ==
  LET p == pass[n]
      pages == p.pages \o Slice(p.peer, Len(p.pages), PageLimit)
  IN  /\ p.pc = "pages"
      /\ To(n, [p EXCEPT !.pages = pages, !.pc = IF Len(pages) < Len(chains[p.peer]) THEN "pages" ELSE "replace"])
      /\ UNCHANGED <<chains, stored, passRest>>

\* Faulty variant: only the last block of what was put together is looked at.
FaultyOneChain(s) == s # <<>> /\ Tip(s) \in Sound

\* assert_valid_chain: pages of two different moments need not be one chain.
OneChain(s) == s # <<>> /\ s = Blk[Tip(s)].branch /\ Tip(s) \in Sound

\* replace_chain of what was downloaded.  The blocks it displaces are not kept.
Replace(n) ==
  LET new == pass[n].pages IN
  /\ pass[n].pc = "replace"
  /\ chains' = IF OneChain(new) /\ Blk[Tip(new)].chainWork > Work(n) THEN [chains EXCEPT ![n] = new] ELSE chains
  /\ To(n, Done(pass[n]))
  /\ UNCHANGED <<stored, passRest>>

PassStep(n) ==
  StartPass(n) \/ EndPass(n) \/ ReadInfo(n) \/ FetchHeaders(n) \/ FetchBody(n) \/ FetchPage(n) \/ Replace(n)

(* ---------------- faults --------------------------------------------------- *)
\* A request fails, after its retries: a peer is skipped, headers and bodies lead
\* to the fallback, a page ends the visit.
RequestFails(n) ==
  /\ faults < MaxFaults /\ faults' = faults + 1
  /\ \/ pass[n].pc = "next" /\ \E m \in pass[n].left : To(n, [pass[n] EXCEPT !.left = @ \ {m}])
     \/ pass[n].pc \in {"headers", "bodies"} /\ To(n, Fallback(pass[n]))
     \/ pass[n].pc = "pages" /\ To(n, Done(pass[n]))
  /\ UNCHANGED <<peers, chains, stored, waiting, seen, handling, mail, found>>

Lose(n, b) ==
  /\ faults < MaxFaults /\ faults' = faults + 1
  /\ <<n, b>> \in mail /\ mail' = mail \ {<<n, b>>}
  /\ UNCHANGED <<peers, chains, stored, waiting, seen, handling, pass, found>>

\* The chain is on disk, all else is memory.
RestartNode(n) ==
  /\ faults < MaxFaults /\ faults' = faults + 1
  /\ stored' = [stored EXCEPT ![n] = <<>>] /\ waiting' = [waiting EXCEPT ![n] = <<>>]
  /\ seen' = [seen EXCEPT ![n] = {}] /\ handling' = [handling EXCEPT ![n] = NoBlock]
  /\ pass' = [pass EXCEPT ![n] = NoPass]
  /\ UNCHANGED <<peers, chains, mail, found>>

NetNext ==
  \/ \E n \in Nodes : PassStep(n) \/ ConnectWaiting(n) \/ Relay(n) \/ RequestFails(n) \/ RestartNode(n)
  \/ \E n \in Nodes, b \in Blocks : Mine(n, b) \/ Receive(n, b) \/ Lose(n, b)

\* The background loop starts a pass again and again, and a pass goes on; blocks
\* need not arrive.
NetFairness == \A n \in Nodes : WF_netVars(PassStep(n))

NetSpec == NetInit /\ [][NetNext]_netVars /\ NetFairness

(* ---------------- properties ------------------------------------------------ *)
\* Whatever the requests of a pass bring together, and whatever is lost or comes
\* late, each node keeps the promise of BestChain (node.py:772-821, 887-911).
Served(n) == INSTANCE BestChain WITH best <- chains[n], coins <- UtxosOf(chains[n]), clock <- 0
NodesKeepPromise == [][\A n \in Nodes : chains'[n] = chains[n] \/ Served(n)!Next]_netVars

\* A node is not left behind for ever by a peer of greater height and more work,
\* although posted blocks may be lost and either chain may move during a pass
\* (node.py:489-512, 772-821).
Behind(n, m) == m \in peers[n] /\ Len(chains[m]) > Len(chains[n]) /\ Work(m) > Work(n)
NobodyStaysBehind == \A n, m \in Nodes : []<>~Behind(n, m)

\* docs/NODES.md:251, of a tip that differs from the seeds': "POST /sync; the
\* longer valid chain wins on cumulative work".  A pass looks at heights only.
MoreWorkSpreads == \A n, m \in Nodes : []<>(m \in peers[n] => Work(m) <= Work(n))
=============================================================================
