------------------------------ MODULE Webhooks ------------------------------
(***************************************************************************)
(* Webhook delivery of the app store (netcoin/apps/__init__.py), for one     *)
(* merchant.  A delivery batch loads the whole document, posts to the hooks  *)
(* one after the other and saves the document it loaded: whatever another    *)
(* request saved in between is gone.  Seconds of backoff are ticks.          *)
(***************************************************************************)
EXTENDS Integers, Sequences, FiniteSets
LOCAL INSTANCE FiniteSetsExt
LOCAL INSTANCE SequencesExt

CONSTANTS
  Events,               \* ids the merchant's events may take
  Hooks,                \* its webhooks, 1..n in the order they are stored
  MaxAttempts,          \* per hook
  QueueCap,             \* 500: the events the document keeps
  MaxBackoff,           \* 86400: where the doubling stops
  MaxPosts              \* bound: requests are counted, and redeliveries made, up to it

VARIABLES
  outbox,               \* the document's webhook_events, oldest first
  live,                 \* the hooks that are active
  posted,               \* <<event, hook>> -> requests sent, whatever was saved of them
  batch                 \* the running delivery: its copy, the place it is at, its options

hookVars == <<outbox, live, posted, batch>>

NoBatch == [copy |-> <<>>, hooks |-> {}, due |-> {}, at |-> <<0, 0>>, again |-> FALSE]
NewEvent(e) == [id |-> e, count |-> 0, wait |-> 0, delivered |-> FALSE, dead |-> FALSE]

HooksInit ==
  /\ outbox = <<>> /\ live = Hooks
  /\ posted = [k \in Events \X Hooks |-> 0]
  /\ batch = NoBatch

\* queue_webhook_event; ids are never used twice.
QueueEvent(e) ==
  /\ \A h \in Hooks : posted[<<e, h>>] = 0
  /\ \A i \in DOMAIN outbox : outbox[i].id # e
  /\ \A i \in DOMAIN batch.copy : batch.copy[i].id # e
  /\ LET all == Append(outbox, NewEvent(e))
     IN  outbox' = IF Len(all) > QueueCap THEN Tail(all) ELSE all
  /\ UNCHANGED <<live, posted, batch>>

\* reset_developer_sandbox and a new registration of the same hook.
Switch(h) ==
  /\ live' = IF h \in live THEN live \ {h} ELSE live \union {h}
  /\ UNCHANGED <<outbox, posted, batch>>

\* deliver_webhook_events: load.  The clock is read once, here.
StartBatch(force, again) ==
  /\ batch = NoBatch /\ outbox # <<>>
  /\ again => \A k \in DOMAIN posted : posted[k] < MaxPosts
  /\ batch' = [copy |-> outbox, hooks |-> live, at |-> <<1, 1>>, again |-> again,
               due |-> {i \in DOMAIN outbox : force \/ outbox[i].wait = 0}]
  /\ UNCHANGED <<outbox, live, posted>>

\* Backoff after n attempts; 2^(n-1) periods up to a limit.
Backoff(n) == Min({MaxBackoff, 2 ^ Min({8, n - 1})})

\* Neither delivered nor dead nor waiting, unless the caller insists.
Deliverable(i) == /\ i \in batch.due
                  /\ batch.again \/ ~(batch.copy[i].delivered \/ batch.copy[i].dead)

\* Faulty variant: the attempt is not counted.
FaultyAttempted(ev, h, ok) ==
  IF ok THEN [ev EXCEPT !.delivered = TRUE, !.wait = 0, !.dead = FALSE]
  ELSE [ev EXCEPT !.wait = Backoff(ev.count + 1), !.dead = @ \/ ev.count + 1 >= MaxAttempts[h]]

\* One attempt at one hook: the counter is the event's, the limit the hook's.
Attempted(ev, h, ok) ==
  LET n == ev.count + 1 IN
  IF ok THEN [ev EXCEPT !.count = n, !.delivered = TRUE, !.wait = 0, !.dead = FALSE]
  ELSE [ev EXCEPT !.count = n, !.wait = Backoff(n), !.dead = @ \/ n >= MaxAttempts[h]]

\* The next place of the two loops.
NextPlace(i, h) == IF h < Cardinality(Hooks) THEN <<i, h + 1>> ELSE <<i + 1, 1>>

\* The loops' body.  An event is looked at once, before its first hook; a hook
\* may be tried after another has delivered the event.
Deliver(ok) ==
  LET i == batch.at[1]
      h == batch.at[2]
      ev == batch.copy[i]
  IN  /\ batch # NoBatch /\ i <= Len(batch.copy)
      /\ IF h = 1 /\ ~Deliverable(i)
         THEN /\ ok /\ batch' = [batch EXCEPT !.at = <<i + 1, 1>>] /\ UNCHANGED posted
         ELSE IF h \notin batch.hooks
         THEN /\ ok /\ batch' = [batch EXCEPT !.at = NextPlace(i, h)] /\ UNCHANGED posted
         ELSE IF ev.count >= MaxAttempts[h] /\ ~batch.again
         THEN /\ ok /\ UNCHANGED posted
              /\ batch' = [batch EXCEPT !.at = NextPlace(i, h), !.copy[i].dead = TRUE]
         ELSE /\ posted' = [posted EXCEPT ![<<ev.id, h>>] = IF @ < MaxPosts THEN @ + 1 ELSE @]
              /\ batch' = [batch EXCEPT !.at = NextPlace(i, h), !.copy[i] = Attempted(ev, h, ok)]
      /\ UNCHANGED <<outbox, live>>

\* save: the copy replaces the document's events and its hooks' flags.
EndBatch ==
  /\ batch # NoBatch /\ batch.at[1] > Len(batch.copy)
  /\ outbox' = batch.copy /\ live' = batch.hooks /\ batch' = NoBatch
  /\ UNCHANGED posted

HookTick ==
  LET aged(s) == [i \in DOMAIN s |-> [s[i] EXCEPT !.wait = IF @ > 0 THEN @ - 1 ELSE 0]]
  IN  /\ outbox' = aged(outbox) /\ batch' = [batch EXCEPT !.copy = aged(@)]
      /\ UNCHANGED <<live, posted>>

HooksNext ==
  \/ \E e \in Events : QueueEvent(e)
  \/ \E h \in Hooks : Switch(h)
  \/ \E force, again \in BOOLEAN : StartBatch(force, again)
  \/ \E ok \in BOOLEAN : Deliver(ok)
  \/ EndBatch \/ HookTick

\* Somebody keeps calling the delivery endpoint, a batch ends, time passes.
HooksFairness == /\ WF_hookVars(StartBatch(FALSE, FALSE)) /\ WF_hookVars(\E ok \in BOOLEAN : Deliver(ok))
                 /\ WF_hookVars(EndBatch) /\ WF_hookVars(HookTick)

(* ---------------- properties --------------------------------------------- *)
\* Every queued event is delivered or becomes a dead letter, whatever the hooks
\* answer, unless the cap or a racing save drops it or no hook is left
\* (apps/__init__.py:1405-1509).
EventsSettle ==
  \A e \in Events :
    (\E i \in DOMAIN outbox : outbox[i].id = e)
      ~> \/ \A i \in DOMAIN outbox : outbox[i].id = e => outbox[i].delivered \/ outbox[i].dead
         \/ live = {} \/ (batch # NoBatch /\ batch.hooks = {})

\* What docs/APP_LAYER_PHASES.md:190 says of a dead letter: it comes after the
\* max_attempts of a webhook, so some webhook has been tried that often.
DeadAfterMaxAttempts ==
  \A i \in DOMAIN outbox :
    outbox[i].dead => \E h \in Hooks : posted[<<outbox[i].id, h>>] >= MaxAttempts[h]
=============================================================================
