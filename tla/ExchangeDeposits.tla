--------------------------- MODULE ExchangeDeposits ---------------------------
(***************************************************************************)
(* Deposits of an exchange: the deposit table (netcoin/exchange.py), the    *)
(* double-entry journal (exchange_accounting.py) and the watcher that       *)
(* connects them to the chain (exchange_deposit_watcher.py).                *)
(*                                                                         *)
(* The table and the journal are two SQLite files, and every call commits   *)
(* on its own: a pass of the watcher (sync) is a sequence of store calls    *)
(* between which the chain moves, the scanner records deposits, an operator *)
(* reverses one, a customer withdraws, or the watcher's process dies.       *)
(* A step of the pass below is one such call.                               *)
(*                                                                         *)
(* The scanner that calls record_deposit and the withdrawal desk are not    *)
(* part of the repository; its tests show how they call it.                 *)
(***************************************************************************)
EXTENDS Integers, Sequences, FiniteSets, Functions

CONSTANTS
  Deposits,        \* transaction outputs paid to customers (deposit_id)
  Customers,
  Owner,           \* the customer of a deposit (_customer_id_for_deposit)
  Required,        \* required_confirmations
  Hashes,
  NoBlock,         \* block_hash = ""
  MinedIn,         \* the blocks in which a deposit's transaction is mined
  Chains,          \* the main chains the node may have, genesis first
  FirstChain,
  Reports,         \* how the scanner calls record_deposit
  MaxCrashes       \* bound on crashes of the watcher's process

ASSUME ExchangeAssumption ==
  /\ IsFiniteSet(Deposits) /\ Owner \in [Deposits -> Customers]
  /\ Required \in Nat
  /\ NoBlock \notin Hashes
  /\ MinedIn \in [Deposits -> SUBSET Hashes]
  /\ Chains \subseteq Seq(Hashes)
  /\ FirstChain \in Chains
  /\ Reports \subseteq [block : BOOLEAN, height : BOOLEAN]
  /\ MaxCrashes \in Nat

VARIABLES
  chain,        \* the node's main chain; block_index holds exactly its blocks
  row,          \* the deposits table
  posted,       \* postings under reference d
  compensated,  \* postings under reference reversal:d, in units of the deposit
  withdrawn,    \* what each customer has withdrawn
  pc,           \* where the watcher's pass is
  todo,         \* the rows the pass has read and not yet handled
  cur,          \* the deposit being reversed
  height,       \* the tip height the pass has read
  frozen,       \* frozen_accounts of the pass, not yet returned
  flagged,      \* the accounts that returned passes have reported
  cut,          \* history: some pass has ended without returning
  crashes

store == <<row, posted, compensated, withdrawn>>
pass == <<pc, todo, cur, height, frozen>>
vars == <<chain, store, pass, flagged, cut, crashes>>

States == {"absent", "seen", "confirming", "credited", "reorged", "reversed"}
Row == [state : States, block : Hashes \cup {NoBlock}, seen : Nat]
NoRow == [state |-> "absent", block |-> NoBlock, seen |-> 0]


\* A row as a SELECT returns it: later writes to the table do not reach it.
Snapshot(d) == [dep |-> d, block |-> row[d].block]
RowsIn(states) == {Snapshot(d) : d \in {x \in Deposits : row[x].state \in states}}

OnChain(b) == \E i \in DOMAIN chain : chain[i] = b
Height == Len(chain) - 1

\* The state that both record_deposit and update_deposit_confirmations derive
\* from the number of confirmations.
StateFor(confirmations) ==
  IF confirmations >= Required THEN "credited"
  ELSE IF confirmations > 0 THEN "confirming" ELSE "seen"

Confirmations(tip, seen) == IF tip - seen + 1 > 0 THEN tip - seen + 1 ELSE 0

\* customer_liability_sats: credits minus debits.  Deposits are one unit each.
Liability(c) ==
  SumFunctionOnSet([d \in Deposits |-> posted[d] - compensated[d]],
                   {d \in Deposits : Owner[d] = c}) - withdrawn[c]

Init ==
  /\ chain = FirstChain
  /\ row = [d \in Deposits |-> NoRow]
  /\ posted = [d \in Deposits |-> 0]
  /\ compensated = [d \in Deposits |-> 0]
  /\ withdrawn = [c \in Customers |-> 0]
  /\ pc = "idle"
  /\ todo = {}
  /\ cur = {}
  /\ height = 0
  /\ frozen = {}
  /\ flagged = {}
  /\ cut = FALSE
  /\ crashes = 0

-----------------------------------------------------------------------------
(* The watcher's pass: check_for_reorgs, then sync_confirmations_and_credit *)

\* Read the credited rows.
StartPass ==
  /\ pc = "idle"
  /\ pc' = "reorgs"
  /\ todo' = RowsIn({"credited"})
  /\ UNCHANGED <<chain, store, cur, height, frozen, flagged, cut, crashes>>

\* No recorded block, or still on the main chain: next row.
KeepRow(r) ==
  /\ pc = "reorgs"
  /\ r \in todo
  /\ r.block = NoBlock \/ OnChain(r.block)
  /\ todo' = todo \ {r}
  /\ UNCHANGED <<chain, store, pc, cur, height, frozen, flagged, cut, crashes>>

\* Faulty variant: the credit is reversed, the row stays credited.
FaultyMarkReorged(r) ==
  /\ pc = "reorgs"
  /\ r \in todo
  /\ r.block # NoBlock /\ ~OnChain(r.block)
  /\ todo' = todo \ {r}
  /\ cur' = {r.dep}
  /\ pc' = "reverse"
  /\ UNCHANGED <<chain, store, height, frozen, flagged, cut, crashes>>

\* mark_deposit_reorged updates the row whatever its state is by now.
MarkReorged(r) ==
  /\ pc = "reorgs"
  /\ r \in todo
  /\ r.block # NoBlock /\ ~OnChain(r.block)
  /\ todo' = todo \ {r}
  /\ row' = [row EXCEPT ![r.dep].state = "reorged"]
  /\ cur' = {r.dep}
  /\ pc' = "reverse"
  /\ UNCHANGED <<chain, posted, compensated, withdrawn, height, frozen,
                 flagged, cut, crashes>>

\* The pass ends without a result, by an exception or with its process.
Drop ==
  /\ pc' = "idle"
  /\ todo' = {}
  /\ cur' = {}
  /\ height' = 0
  /\ frozen' = {}
  /\ cut' = TRUE
  /\ UNCHANGED <<chain, row, posted, withdrawn, flagged>>

\* Faulty variant: looks for the reference itself, not for its reversal.
FaultyReverse(d) ==
  /\ pc = "reverse"
  /\ d \in cur
  /\ compensated[d] > 0 \/ posted[d] > 0
  /\ compensated' = IF posted[d] > 0 THEN compensated
                    ELSE [compensated EXCEPT ![d] = posted[d]]
  /\ pc' = "flag"
  /\ UNCHANGED <<chain, row, posted, withdrawn, todo, cur, height, frozen,
                 flagged, cut, crashes>>

\* reverse_reference: swap every posting of the deposit, once.
ReverseReference(d) ==
  /\ pc = "reverse"
  /\ d \in cur
  /\ compensated[d] > 0 \/ posted[d] > 0
  /\ compensated' = IF compensated[d] > 0 THEN compensated
                    ELSE [compensated EXCEPT ![d] = posted[d]]
  /\ pc' = "flag"
  /\ UNCHANGED <<chain, row, posted, withdrawn, todo, cur, height, frozen,
                 flagged, cut, crashes>>

\* A deposit credited and orphaned before any pass posted it has nothing to
\* reverse: reverse_reference raises, and nothing up to sync catches it.
NothingToReverse(d) ==
  /\ pc = "reverse"
  /\ d \in cur
  /\ compensated[d] = 0 /\ posted[d] = 0
  /\ Drop
  /\ UNCHANGED <<compensated, crashes>>

\* Faulty variant: judges the balance the account had before the reversal.
FaultyFlag(d) ==
  /\ pc = "flag"
  /\ d \in cur
  /\ frozen' = IF Liability(Owner[d]) + 1 < 0 THEN frozen \cup {Owner[d]} ELSE frozen
  /\ cur' = {}
  /\ pc' = "reorgs"
  /\ UNCHANGED <<chain, store, todo, height, flagged, cut, crashes>>

\* An account the reversal leaves in deficit goes into frozen_accounts.
Flag(d) ==
  /\ pc = "flag"
  /\ d \in cur
  /\ frozen' = IF Liability(Owner[d]) < 0 THEN frozen \cup {Owner[d]} ELSE frozen
  /\ cur' = {}
  /\ pc' = "reorgs"
  /\ UNCHANGED <<chain, store, todo, height, flagged, cut, crashes>>

\* The rows are done: read the height of the tip.
ReadHeight ==
  /\ pc = "reorgs"
  /\ todo = {}
  /\ height' = Height
  /\ pc' = "select"
  /\ UNCHANGED <<chain, store, todo, cur, frozen, flagged, cut, crashes>>

\* update_deposit_confirmations reads the pending rows before its first
\* UPDATE opens the transaction.
SelectPending ==
  /\ pc = "select"
  /\ todo' = RowsIn({"seen", "confirming"})
  /\ pc' = "update"
  /\ UNCHANGED <<chain, store, cur, height, frozen, flagged, cut, crashes>>

\* Confirmations count up from seen_height; the block is not looked at.
UpdatePending ==
  /\ pc = "update"
  /\ row' = [d \in Deposits |->
               IF \E r \in todo : r.dep = d
               THEN [row[d] EXCEPT !.state = StateFor(Confirmations(height, row[d].seen))]
               ELSE row[d]]
  /\ todo' = {}
  /\ pc' = "list"
  /\ UNCHANGED <<chain, posted, compensated, withdrawn, cur, height, frozen,
                 flagged, cut, crashes>>

\* Every row that is credited by now, in this pass or before.
ListCredited ==
  /\ pc = "list"
  /\ todo' = RowsIn({"credited"})
  /\ pc' = "post"
  /\ UNCHANGED <<chain, store, cur, height, frozen, flagged, cut, crashes>>

\* Faulty variant: no has_reference.
FaultyPost(r) ==
  /\ pc = "post"
  /\ r \in todo
  /\ todo' = todo \ {r}
  /\ posted' = [posted EXCEPT ![r.dep] = @ + 1]
  /\ UNCHANGED <<chain, row, compensated, withdrawn, pc, cur, height, frozen,
                 flagged, cut, crashes>>

\* post_customer_deposit, unless the journal already has the reference.
Post(r) ==
  /\ pc = "post"
  /\ r \in todo
  /\ todo' = todo \ {r}
  /\ posted' = IF posted[r.dep] > 0 THEN posted
               ELSE [posted EXCEPT ![r.dep] = @ + 1]
  /\ UNCHANGED <<chain, row, compensated, withdrawn, pc, cur, height, frozen,
                 flagged, cut, crashes>>

\* sync returns its report.
Finish ==
  /\ pc = "post"
  /\ todo = {}
  /\ flagged' = flagged \cup frozen
  /\ pc' = "idle"
  /\ height' = 0
  /\ frozen' = {}
  /\ UNCHANGED <<chain, store, todo, cur, cut, crashes>>

\* The process dies; both stores keep what was committed.
Crash ==
  /\ pc # "idle"
  /\ crashes < MaxCrashes
  /\ crashes' = crashes + 1
  /\ Drop
  /\ UNCHANGED compensated

-----------------------------------------------------------------------------
(* What happens around the watcher                                          *)

\* The node adopts a chain with more work; blocks have equal work here.
MoveChain ==
  /\ \E c \in Chains : Len(c) > Len(chain) /\ chain' = c
  /\ UNCHANGED <<store, pass, flagged, cut, crashes>>

\* record_deposit for a transaction in block i of the chain.  Recording a known
\* deposit again replaces its state and its block and keeps its seen_height.
RecordDeposit(d) ==
  /\ \E i \in DOMAIN chain, how \in Reports :
       /\ chain[i] \in MinedIn[d]
       /\ row' = [row EXCEPT ![d] =
            [state |-> StateFor(IF how.height THEN Confirmations(Height, i - 1) ELSE 0),
             block |-> IF how.block THEN chain[i] ELSE NoBlock,
             seen |-> IF @.state = "absent" THEN i - 1 ELSE @.seen]]
  /\ UNCHANGED <<chain, posted, compensated, withdrawn, pass, flagged, cut, crashes>>

\* reverse_deposit by an operator: the table only, not the journal.
ReverseByOperator(d) ==
  /\ row[d].state # "absent"
  /\ row' = [row EXCEPT ![d].state = "reversed"]
  /\ UNCHANGED <<chain, posted, compensated, withdrawn, pass, flagged, cut, crashes>>

\* post_customer_withdrawal checks no balance; the desk that calls it does.
Withdraw(c) ==
  /\ Liability(c) > 0
  /\ withdrawn' = [withdrawn EXCEPT ![c] = @ + 1]
  /\ UNCHANGED <<chain, row, posted, compensated, pass, flagged, cut, crashes>>

PassStep ==
  \/ StartPass
  \/ \E r \in todo : KeepRow(r) \/ MarkReorged(r) \/ Post(r)
  \/ \E d \in cur : ReverseReference(d) \/ NothingToReverse(d) \/ Flag(d)
  \/ ReadHeight \/ SelectPending \/ UpdatePending \/ ListCredited \/ Finish

Environment ==
  \/ MoveChain
  \/ \E d \in Deposits : RecordDeposit(d) \/ ReverseByOperator(d)
  \/ \E c \in Customers : Withdraw(c)

Next == PassStep \/ Crash \/ Environment

Spec == Init /\ [][Next]_vars

\* sync is called again and again, and a call that does not crash goes on.
FairSpec == Spec /\ WF_vars(PassStep)
-----------------------------------------------------------------------------
(* What holds *)

\* Every variable has the type its comment gives it.
TypeOK ==
  /\ chain \in Chains
  /\ row \in [Deposits -> Row]
  /\ posted \in [Deposits -> Nat]
  /\ compensated \in [Deposits -> Nat]
  /\ withdrawn \in [Customers -> Nat]
  /\ pc \in {"idle", "reorgs", "reverse", "flag", "select", "update", "list", "post"}
  /\ todo \subseteq [dep : Deposits, block : Hashes \cup {NoBlock}]
  /\ cur \subseteq Deposits
  /\ height \in Int
  /\ frozen \subseteq Customers
  /\ flagged \subseteq Customers
  /\ cut \in BOOLEAN
  /\ crashes \in 0..MaxCrashes

\* Whatever crashes, repeats of a pass, re-records and operator reversals do, a
\* deposit reaches the journal at most once, and at most what was posted is
\* reversed (has_reference guards both sync_confirmations_and_credit and
\* reverse_reference).
PostedOnce ==
  \A d \in Deposits : posted[d] <= 1 /\ compensated[d] <= posted[d]

\* In the end no row stays credited on a block the main chain has dropped (a
\* deposit that a pass credits by height alone is caught by a later
\* check_for_reorgs), and no credited row stays out of the journal, although
\* passes crash or end in an exception between the two stores.
CreditsSettle ==
  /\ <>[](\A d \in Deposits : row[d].state = "credited" =>
            row[d].block = NoBlock \/ OnChain(row[d].block))
  /\ \A d \in Deposits : row[d].state = "credited" ~>
                           (posted[d] > 0 \/ row[d].state # "credited")

\* As long as every pass returns, an account that owes the exchange is in the
\* report of one (check_for_reorgs: "flag the account if the customer already
\* spent against it").
DeficitIsReported ==
  ~cut /\ pc = "idle" => \A c \in Customers : Liability(c) < 0 => c \in flagged

\* A deposit marked reorged does not keep its credit.
ReorgedIsReversed ==
  \A d \in Deposits : row[d].state = "reorged" ~>
                        (posted[d] = compensated[d] \/ row[d].state # "reorged")

\* It does not when every pass returns.
ReorgedIsReversedUncut == [](~cut) => ReorgedIsReversed

\* A pass whose height and rows are not out of date credits a deposit only when
\* its block has the required number of confirmations.
CreditNeedsConfirmations ==
  [][\A d \in Deposits : \A i \in DOMAIN chain :
       /\ pc = "update" /\ height = Height
       /\ Snapshot(d) \in todo /\ row[d].block = chain[i]
       /\ row'[d].state = "credited"
       => Len(chain) - i + 1 >= Required]_vars

\* A deposit that stays credited on a block of the chain ends up as a net
\* credit in the journal.
CreditReachesBooks ==
  \A d \in Deposits :
    <>[](row[d].state = "credited" /\ OnChain(row[d].block))
      => <>[](posted[d] - compensated[d] = 1)
=============================================================================
