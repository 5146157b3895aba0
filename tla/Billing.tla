------------------------------ MODULE Billing ------------------------------
(***************************************************************************)
(* Paying for an account, web/api/lib/actions/billing.js with the parts of *)
(* auth.js and admin.js that end a subscription: the user's row, the table *)
(* of Stripe events, the redemption of one comp code, and the handlers     *)
(* that read Stripe and write the row in separate queries.                 *)
(*                                                                         *)
(* Stripe is external.  It keeps the subscriptions, sends an event for     *)
(* each change until it is acknowledged, in any order and more than once,  *)
(* and answers a call with what holds at that moment.  Any handler may     *)
(* fail at a query, or be killed there.                                    *)
(*                                                                         *)
(* A subscription is running while it is trialing, active, past due or     *)
(* unpaid: createCheckout refuses, and a deletion cancels, all of these.   *)
(* An invoice event does what a confirm does, without its redemption.      *)
(***************************************************************************)
EXTENDS Naturals, FiniteSets

CONSTANTS
  Checkout,     \* checkout sessions; a paid one's subscription has its name
  NoSub,
  Handler,      \* bound on the webhook and confirm calls running at a time
  MaxDue,       \* bound on the events on their way
  MaxReturns,   \* bound on returns from a completed checkout
  MaxDeletions, \* bound on deletions asked for, of the comp or the account
  MaxFailures   \* bound on calls that fail or are killed

ASSUME BillingAssumption ==
  /\ NoSub \notin Checkout
  /\ MaxDue \in Nat /\ MaxReturns \in Nat
  /\ MaxDeletions \in Nat /\ MaxFailures \in Nat

VARIABLES
  session,   \* each checkout session: none, plain or with the comp
  sub,       \* each subscription at Stripe: unpaid, running or canceled
  due,       \* events Stripe wants acknowledged
  row,       \* the user: deleted or not, the subscription and status shown
  seen,      \* stripe_events
  call,      \* the webhook and confirm calls
  redeemed,  \* the comp's row in discount_redemptions
  code,      \* the comp: live, or deleted by the admin
  noted,     \* revokeFailures of every call: plans that were not ended, which
             \* its answer lists unless it is killed first
  revoking,  \* where the deletion of the comp is
  closing,   \* where the deletion of the account is, and of which plan
  returns,   \* for MaxReturns
  deletions, \* for MaxDeletions
  failures,  \* for MaxFailures
  heard      \* subscriptions the row has shown

stripe == <<session, sub, due>>
comp == <<redeemed, code, noted, revoking>>
bounds == <<returns, deletions, failures>>
vars == <<stripe, row, seen, call, comp, closing, bounds, heard>>

Nobody == [sub |-> NoSub, revoked |-> FALSE]
Confirm(k) == [kind |-> "confirm", sub |-> k]
Open == [at |-> "idle", sub |-> NoSub]
Idle == [at |-> "idle", event |-> Confirm(NoSub), got |-> "running"]

Init ==
  /\ session = [k \in Checkout |-> "none"] /\ sub = [k \in Checkout |-> "unpaid"]
  /\ due = {}
  /\ row = [deleted |-> FALSE, sub |-> NoSub, status |-> "none"]
  /\ seen = {} /\ call = [h \in Handler |-> Idle]
  /\ redeemed = Nobody /\ code = "live" /\ noted = {} /\ revoking = "idle"
  /\ closing = Open
  /\ returns = 0 /\ deletions = 0 /\ failures = 0 /\ heard = {}

-----------------------------------------------------------------------------
(* Stripe. *)

\* Every change is announced; events carry the subscription as it was then.
Announce(k, kinds) ==
  /\ due' = due \cup {[kind |-> x, sub |-> k] : x \in kinds}
  /\ Cardinality(due') <= MaxDue

\* The customer completes a checkout, with a trial or a first charge.
Pay(k) ==
  /\ session[k] # "none" /\ sub[k] = "unpaid"
  /\ sub' = [sub EXCEPT ![k] = "running"]
  /\ Announce(k, {"created", "checkout"})
  /\ UNCHANGED <<session, row, seen, call, comp, closing, bounds, heard>>

\* The subscription ends, for the customer, the admin or the site.
Ends(k) ==
  /\ sub[k] = "running" /\ sub' = [sub EXCEPT ![k] = "canceled"]
  /\ Announce(k, {"deleted"})
  /\ UNCHANGED session

\* In the portal.
PortalCancel(k) ==
  Ends(k) /\ UNCHANGED <<row, seen, call, comp, closing, bounds, heard>>

\* stripe.subscriptions.cancel, and its failure: always for a subscription
\* that has ended, now and then for another.
Cancel(k) == k # NoSub /\ Ends(k) /\ UNCHANGED bounds
CancelFails(k) ==
  /\ IF k # NoSub /\ sub[k] = "running"
     THEN failures < MaxFailures /\ failures' = failures + 1 ELSE UNCHANGED failures
  /\ UNCHANGED <<stripe, returns, deletions>>

-----------------------------------------------------------------------------
(* The user. *)

\* createCheckout.
CreateCheckout(k, offer) ==
  /\ ~row.deleted /\ row.status # "running"
  /\ offer = "comp" => code = "live"
  /\ session[k] = "none" /\ session' = [session EXCEPT ![k] = offer]
  /\ UNCHANGED <<sub, due, row, seen, call, comp, closing, bounds, heard>>

\* confirmCheckout: the browser is back from a completed checkout.
ConfirmCheckout(h, k) ==
  /\ call[h].at = "idle" /\ ~row.deleted /\ sub[k] # "unpaid"
  /\ returns < MaxReturns /\ returns' = returns + 1
  /\ call' = [call EXCEPT ![h] =
                [at |-> "retrieve", event |-> Confirm(k), got |-> "running"]]
  /\ UNCHANGED <<stripe, row, seen, comp, closing, deletions, failures, heard>>

-----------------------------------------------------------------------------
(* Calls of the webhook, and what they share with confirm. *)

\* dispatchStripe: events of the subscription carry the status to write.
Taken(e) ==
  [at |-> IF e.kind \in {"created", "deleted"} THEN "write" ELSE "retrieve",
   event |-> e, got |-> IF e.kind = "deleted" THEN "canceled" ELSE "running"]

\* handleStripeEvent: the INSERT into stripe_events takes a new event.
Claim(h, e) ==
  /\ call[h].at = "idle" /\ e \in due /\ e \notin seen
  /\ seen' = seen \cup {e} /\ call' = [call EXCEPT ![h] = Taken(e)]
  /\ UNCHANGED <<stripe, row, comp, closing, bounds, heard>>

DuplicateByType(e) ==  \* mutant: stripe_events is keyed by the event's type
  /\ e \in due /\ (\E x \in seen : x.kind = e.kind) /\ due' = due \ {e}
  /\ UNCHANGED <<session, sub, row, seen, call, comp, closing, bounds, heard>>

\* A delivery of an event already in stripe_events is acknowledged at once.
Duplicate(e) ==
  /\ e \in due \cap seen /\ due' = due \ {e}
  /\ UNCHANGED <<session, sub, row, seen, call, comp, closing, bounds, heard>>

Writing(c, status) ==
  [at |-> "write", event |-> c.event, got |-> status[c.event.sub]]

\* The subscription as Stripe has it now.
Retrieve(h) ==
  /\ call[h].at = "retrieve"
  /\ call' = [call EXCEPT ![h] = Writing(@, sub)]
  /\ UNCHANGED <<stripe, row, seen, comp, closing, bounds, heard>>

\* The call answers 200.
Answer(h) ==
  /\ call' = [call EXCEPT ![h] = Idle]
  /\ due' = due \ {call[h].event}
  /\ UNCHANGED <<session, sub>>

\* A checkout goes on to its redemption.
Redeeming(c) == [at |-> "redeem", event |-> c.event, got |-> "running"]

SyncStatusOnly(h) ==  \* mutant: the subscription's id stays as it was
  /\ call[h].at = "write"
  /\ LET k == call[h].event.sub IN
     /\ row' = [row EXCEPT !.status = call[h].got, !.sub = IF @ = NoSub THEN k ELSE @]
     /\ heard' = heard \cup {k}
  /\ IF call[h].event.kind \in {"checkout", "confirm"}
     THEN call' = [call EXCEPT ![h] = Redeeming(@)] /\ UNCHANGED stripe
     ELSE Answer(h)
  /\ UNCHANGED <<seen, comp, closing, bounds>>

\* syncSubscription: the row shows what was read, whenever that was.
SyncSubscription(h) ==
  /\ call[h].at = "write"
  /\ LET k == call[h].event.sub IN
     /\ row' = [deleted |-> row.deleted, sub |-> k, status |-> call[h].got]
     /\ heard' = heard \cup {k}
  /\ IF call[h].event.kind \in {"checkout", "confirm"}
     THEN call' = [call EXCEPT ![h] = Redeeming(@)] /\ UNCHANGED stripe
     ELSE Answer(h)
  /\ UNCHANGED <<seen, comp, closing, bounds>>

\* recordRedemption: one row for each code and user, the first stays.  What it
\* reads of the user and what it inserts are one step.
RecordRedemption(h) ==
  /\ call[h].at = "redeem"
  /\ LET k == call[h].event.sub IN
     redeemed' = IF session[k] = "comp" /\ ~row.deleted /\ redeemed = Nobody
                 THEN [sub |-> k, revoked |-> FALSE] ELSE redeemed
  /\ Answer(h)
  /\ UNCHANGED <<row, seen, code, noted, revoking, closing, bounds, heard>>

\* A query or a call to Stripe fails: the event is taken out of the table, to
\* be delivered again.  When the process is killed, or that query fails as
\* well, the event stays in it.
CallFails(h) ==
  /\ call[h].at # "idle" /\ failures < MaxFailures
  /\ failures' = failures + 1
  /\ call' = [call EXCEPT ![h] = Idle]
  /\ seen' \in {seen, seen \ {call[h].event}}
  /\ UNCHANGED <<stripe, row, comp, closing, returns, deletions, heard>>

-----------------------------------------------------------------------------
(* Deleting the comp, mutateCode. *)

Ask == deletions < MaxDeletions /\ deletions' = deletions + 1

\* The redemptions are read.
DeleteCode ==
  /\ code = "live" /\ revoking = "idle" /\ Ask
  /\ revoking' = IF redeemed # Nobody /\ ~redeemed.revoked THEN "cancel" ELSE "end"
  /\ UNCHANGED <<stripe, row, seen, call, redeemed, code, noted, closing>>
  /\ UNCHANGED <<returns, failures, heard>>

CancelCompSilently ==  \* mutant: the catch reports nothing
  /\ revoking = "cancel" /\ revoking' = "mark"
  /\ Cancel(redeemed.sub) \/ CancelFails(redeemed.sub)
  /\ UNCHANGED <<row, seen, call, redeemed, code, noted, closing, heard>>

CancelComp ==
  /\ revoking = "cancel" /\ revoking' = "mark"
  /\ \/ Cancel(redeemed.sub) /\ UNCHANGED noted
     \/ CancelFails(redeemed.sub) /\ noted' = noted \cup {redeemed.sub}
  /\ UNCHANGED <<row, seen, call, redeemed, code, closing, heard>>

MarkRevoked ==
  /\ revoking = "mark" /\ revoking' = "end"
  /\ redeemed' = [sub |-> redeemed.sub, revoked |-> TRUE]
  /\ UNCHANGED <<stripe, row, seen, call, code, noted, closing, bounds, heard>>

EndCode ==
  /\ revoking = "end" /\ revoking' = "idle" /\ code' = "deleted"
  /\ UNCHANGED <<stripe, row, seen, call, redeemed, noted, closing, bounds, heard>>

RevokeKilled ==
  /\ revoking # "idle" /\ failures < MaxFailures
  /\ revoking' = "idle" /\ failures' = failures + 1
  /\ UNCHANGED <<stripe, row, seen, call, redeemed, code, noted, closing>>
  /\ UNCHANGED <<returns, deletions, heard>>

-----------------------------------------------------------------------------
(* Deleting the account, deleteAccount and mutateUser. *)

\* requireUser reads the row; a plan that can be cancelled is.
DeleteAccount ==
  /\ ~row.deleted /\ closing.at = "idle" /\ Ask
  /\ closing' = [at |-> IF row.status = "running" THEN "cancel" ELSE "wipe",
                 sub |-> row.sub]
  /\ UNCHANGED <<stripe, row, seen, call, comp, returns, failures, heard>>

CancelPlanAnyhow ==  \* mutant: an error of Stripe does not end the request
  /\ closing.at = "cancel"
  /\ closing' = [closing EXCEPT !.at = "wipe"]
  /\ Cancel(closing.sub) \/ CancelFails(closing.sub)
  /\ UNCHANGED <<row, seen, call, comp, heard>>

\* cancelSubscriptionIfAny: an error ends the request with a 502.
CancelPlan ==
  /\ closing.at = "cancel"
  /\ \/ Cancel(closing.sub) /\ closing' = [at |-> "wipe", sub |-> closing.sub]
     \/ CancelFails(closing.sub) /\ closing' = Open
  /\ UNCHANGED <<row, seen, call, comp, heard>>

WipeUser ==
  /\ closing.at = "wipe"
  /\ closing' = [at |-> "wiped", sub |-> closing.sub]
  /\ row' = [deleted |-> TRUE, sub |-> row.sub, status |-> row.status]
  /\ UNCHANGED <<stripe, seen, call, comp, bounds, heard>>

CloseKilled ==
  /\ closing.at \in {"cancel", "wipe"} /\ failures < MaxFailures
  /\ closing' = Open /\ failures' = failures + 1
  /\ UNCHANGED <<stripe, row, seen, call, comp, returns, deletions, heard>>

-----------------------------------------------------------------------------
Customer ==
  \E k \in Checkout :
    \/ Pay(k)
    \/ PortalCancel(k)
    \/ \E offer \in {"plain", "comp"} : CreateCheckout(k, offer)
    \/ \E h \in Handler : ConfirmCheckout(h, k)

Webhook ==
  \/ \E e \in due : Duplicate(e) \/ \E h \in Handler : Claim(h, e)
  \/ \E h \in Handler :
       Retrieve(h) \/ SyncSubscription(h) \/ RecordRedemption(h) \/ CallFails(h)

Deletion ==
  \/ DeleteCode \/ CancelComp \/ MarkRevoked \/ EndCode \/ RevokeKilled
  \/ DeleteAccount \/ CancelPlan \/ WipeUser \/ CloseKilled

Next == Customer \/ Webhook \/ Deletion

Spec == Init /\ [][Next]_vars

-----------------------------------------------------------------------------
(* Properties. *)

Event == [kind : {"created", "deleted", "checkout"}, sub : Checkout]
Confirms == [kind : {"confirm"}, sub : Checkout]
Status == {"running", "canceled"}
Calls == [at : {"idle"}, event : {Confirm(NoSub)}, got : {"running"}]
         \cup [at : {"retrieve", "write", "redeem"},
               event : Event \cup Confirms, got : Status]

\* Every variable has its type.
TypeOK ==
  /\ session \in [Checkout -> {"none", "plain", "comp"}]
  /\ sub \in [Checkout -> Status \cup {"unpaid"}]
  /\ due \subseteq Event /\ seen \subseteq Event
  /\ row \in [deleted : BOOLEAN, sub : Checkout \cup {NoSub}, status : Status \cup {"none"}]
  /\ call \in [Handler -> Calls]
  /\ redeemed \in [sub : Checkout \cup {NoSub}, revoked : BOOLEAN]
  /\ code \in {"live", "deleted"} /\ noted \subseteq Checkout
  /\ revoking \in {"idle", "cancel", "mark", "end"}
  /\ closing \in [at : {"idle", "cancel", "wipe", "wiped"}, sub : Checkout \cup {NoSub}]
  /\ returns \in Nat /\ deletions \in Nat /\ failures \in Nat
  /\ heard \subseteq Checkout

\* Nothing is on its way between Stripe and the site.
Quiet == due = {} /\ revoking = "idle" /\ \A h \in Handler : call[h].at = "idle"

Over(k) == sub[k] = "canceled"

\* Whatever the order of the events and the calls, a row that says canceled
\* names a subscription that Stripe has ended: no write puts the end of one
\* plan beside the name of another.  It is not said that no plan runs: a late
\* end of a first plan may take the place of a second one on the row.
CanceledIsTrue == row.status = "canceled" => Over(row.sub)

\* A plan that was paid for reaches the row, as long as only one call was lost:
\* several events bring it, each its own way.
PaidIsSeen == Quiet => \A k \in Checkout : sub[k] # "unpaid" => k \in heard

\* Deleting the comp ends the plan it was redeemed for, or that plan is among
\* the failures of the call, which its answer lists unless the call is killed
\* first.
RevokedIsOver ==
  redeemed.revoked => Over(redeemed.sub) \/ redeemed.sub \in noted

\* A deleted account does not pay for the plan it showed when its user asked.
DeletedPaysNothing ==
  closing.at = "wiped" /\ closing.sub # NoSub => Over(closing.sub)
=============================================================================
