--------------------------- MODULE Billing_proof ---------------------------
(***************************************************************************)
(* Proofs about Billing, for any number of checkouts and calls and any     *)
(* value of the bounds.                                                    *)
(***************************************************************************)
EXTENDS Billing, TLAPS

(***************************************************************************)
(* The inductive invariant: whatever says that a subscription was paid for *)
(* or has ended is right, because Stripe takes neither back.  Events and   *)
(* calls carry it to the row, the row to the deletion of the account; the  *)
(* deletion of the comp knows it from its own call.                        *)
(***************************************************************************)
Backed(e) == sub[e.sub] # "unpaid" /\ (e.kind = "deleted" => Over(e.sub))

Grounded ==
  /\ \A e \in due \cup seen : Backed(e)
  /\ \A h \in Handler : call[h].at # "idle" =>
       Backed(call[h].event) /\ (call[h].got = "canceled" => Over(call[h].event.sub))

RowTrue ==
  /\ row.status = "none" <=> row.sub = NoSub
  /\ CanceledIsTrue

RevokeTrue ==
  /\ redeemed.sub = NoSub => redeemed = Nobody
  /\ revoking \in {"cancel", "mark"} => redeemed # Nobody
  /\ revoking = "mark" => Over(redeemed.sub) \/ redeemed.sub \in noted
  /\ RevokedIsOver

CloseTrue ==
  closing.at \in {"wipe", "wiped"} /\ closing.sub # NoSub => Over(closing.sub)

IInv == TypeOK /\ Grounded /\ RowTrue /\ RevokeTrue /\ CloseTrue

-----------------------------------------------------------------------------
(* Types. *)

LEMMA TypeInit == Init => TypeOK
BY BillingAssumption DEF Init, TypeOK, Calls, Idle, Open, Nobody, Status

\* The fields of a call.
LEMMA CallTypes ==
  ASSUME NEW c \in Calls
  PROVE  /\ c.at # "idle" => /\ c.event \in Event \cup Confirms
                             /\ c.event.sub \in Checkout
                             /\ c.got \in Status
         /\ c.at = "idle" => c = Idle
BY DEF Calls, Event, Confirms, Idle

\* What each kind of call stores about itself is a call.
LEMMA CallMakers ==
  /\ Idle \in Calls
  /\ \A k \in Checkout :
       [at |-> "retrieve", event |-> Confirm(k), got |-> "running"] \in Calls
  /\ \A e \in Event : Taken(e) \in Calls
  /\ \A c \in Calls : c.at # "idle" => Redeeming(c) \in Calls
<1>1. \A k \in Checkout : Confirm(k) \in Confirms
  BY DEF Confirm, Confirms
<1>2. Idle \in Calls
  BY DEF Calls, Idle
<1>3. \A e \in Event : Taken(e) \in Calls
  BY DEF Taken, Calls, Status
<1>4. \A c \in Calls : c.at # "idle" => Redeeming(c) \in Calls
  BY CallTypes DEF Redeeming, Calls, Status
<1>5. QED BY <1>1, <1>2, <1>3, <1>4 DEF Calls, Status

LEMMA EventTypes ==
  ASSUME NEW k \in Checkout, NEW kinds \in SUBSET {"created", "deleted", "checkout"}
  PROVE  {[kind |-> x, sub |-> k] : x \in kinds} \subseteq Event
BY DEF Event

\* What Stripe does keeps the types of Stripe's variables.
StripeOK ==
  /\ session \in [Checkout -> {"none", "plain", "comp"}]
  /\ sub \in [Checkout -> Status \cup {"unpaid"}]
  /\ due \subseteq Event

LEMMA EndsTypes ==
  ASSUME TypeOK, NEW k \in Checkout, Ends(k)
  PROVE  StripeOK'
BY EventTypes DEF TypeOK, Ends, Announce, StripeOK, Status

LEMMA CancelTypes ==
  ASSUME TypeOK, NEW k \in Checkout \cup {NoSub}, Cancel(k) \/ CancelFails(k)
  PROVE  StripeOK' /\ returns' \in Nat /\ deletions' \in Nat /\ failures' \in Nat
<1>1. CASE Cancel(k)
  <2>1. StripeOK'
    BY <1>1, EndsTypes DEF Cancel
  <2>2. QED BY <1>1, <2>1 DEF Cancel, TypeOK, bounds
<1>2. CASE CancelFails(k)
  BY <1>2 DEF CancelFails, TypeOK, StripeOK, stripe
<1>3. QED BY <1>1, <1>2

LEMMA CustomerTypes ==
  ASSUME TypeOK, Customer
  PROVE  TypeOK'
<1> PICK k \in Checkout :
      \/ Pay(k)
      \/ PortalCancel(k)
      \/ \E offer \in {"plain", "comp"} : CreateCheckout(k, offer)
      \/ \E h \in Handler : ConfirmCheckout(h, k)
  BY DEF Customer
<1>1. CASE Pay(k)
  BY <1>1, EventTypes DEF Pay, Announce, TypeOK, Status, comp, bounds
<1>2. CASE PortalCancel(k)
  <2>1. StripeOK'
    BY <1>2, EndsTypes DEF PortalCancel
  <2>2. QED BY <1>2, <2>1 DEF PortalCancel, TypeOK, StripeOK, comp, bounds
<1>3. ASSUME NEW offer \in {"plain", "comp"}, CreateCheckout(k, offer)
      PROVE  TypeOK'
  BY <1>3 DEF CreateCheckout, TypeOK, comp, bounds
<1>4. ASSUME NEW h \in Handler, ConfirmCheckout(h, k)
      PROVE  TypeOK'
  <2>1. call' \in [Handler -> Calls]
    BY <1>4, CallMakers DEF ConfirmCheckout, TypeOK
  <2>2. returns' \in Nat
    BY <1>4 DEF ConfirmCheckout, TypeOK
  <2>3. QED BY <1>4, <2>1, <2>2 DEF ConfirmCheckout, TypeOK, stripe, comp
<1>5. QED BY <1>1, <1>2, <1>3, <1>4

LEMMA WebhookTypes ==
  ASSUME TypeOK, Grounded, Webhook
  PROVE  TypeOK'
<1>1. ASSUME NEW e \in due, Duplicate(e)
      PROVE  TypeOK'
  BY <1>1 DEF Duplicate, TypeOK, comp, bounds
<1>2. ASSUME NEW e \in due, NEW h \in Handler, Claim(h, e)
      PROVE  TypeOK'
  <2>1. call' \in [Handler -> Calls] /\ seen' \subseteq Event
    BY <1>2, CallMakers DEF Claim, TypeOK
  <2>2. QED BY <1>2, <2>1 DEF Claim, TypeOK, stripe, comp, bounds
<1>3. ASSUME NEW h \in Handler, call[h].at # "idle"
      PROVE  /\ call[h] \in Calls /\ call[h].event \in Event \cup Confirms
             /\ call[h].event.sub \in Checkout /\ call[h].got \in Status
             /\ Redeeming(call[h]) \in Calls
  <2>1. call[h] \in Calls
    BY DEF TypeOK
  <2>2. QED BY <1>3, <2>1, CallTypes, CallMakers
<1>4. ASSUME NEW h \in Handler, Retrieve(h)
      PROVE  TypeOK'
  <2>1. call[h].at # "idle" /\ sub[call[h].event.sub] \in Status
    BY <1>3, <1>4 DEF Retrieve, TypeOK, Grounded, Backed
  <2>2. Writing(call[h], sub) \in Calls
    BY <1>3, <2>1 DEF Writing, Calls
  <2>3. call' \in [Handler -> Calls]
    BY <1>4, <2>2 DEF Retrieve, TypeOK
  <2>4. QED BY <1>4, <2>3 DEF Retrieve, TypeOK, stripe, comp, bounds
<1>5. ASSUME NEW h \in Handler, Answer(h)
      PROVE  /\ call' \in [Handler -> Calls] /\ due' \subseteq due
             /\ UNCHANGED <<session, sub>>
  BY <1>5, CallMakers DEF Answer, TypeOK
<1>6. ASSUME NEW h \in Handler, SyncSubscription(h)
      PROVE  TypeOK'
  <2>1. call[h].at # "idle"
    BY <1>6 DEF SyncSubscription
  <2>2. /\ row' \in [deleted : BOOLEAN, sub : Checkout \cup {NoSub}, status : Status \cup {"none"}]
        /\ heard' \subseteq Checkout
    BY <1>3, <1>6, <2>1 DEF SyncSubscription, TypeOK
  <2>3. call' \in [Handler -> Calls] /\ StripeOK'
    BY <1>3, <1>5, <1>6, <2>1 DEF SyncSubscription, TypeOK, StripeOK, stripe
  <2>4. UNCHANGED <<seen, comp, closing, bounds>>
    BY <1>6 DEF SyncSubscription
  <2>5. QED BY <2>2, <2>3, <2>4 DEF TypeOK, StripeOK, comp, bounds
<1>7. ASSUME NEW h \in Handler, RecordRedemption(h)
      PROVE  TypeOK'
  <2>1. call[h].at # "idle"
    BY <1>7 DEF RecordRedemption
  <2>2. redeemed' \in [sub : Checkout \cup {NoSub}, revoked : BOOLEAN]
    BY <1>3, <1>7, <2>1 DEF RecordRedemption, TypeOK
  <2>3. call' \in [Handler -> Calls] /\ StripeOK'
    BY <1>5, <1>7 DEF RecordRedemption, TypeOK, StripeOK
  <2>4. QED BY <1>7, <2>2, <2>3 DEF RecordRedemption, TypeOK, StripeOK, bounds
<1>8. ASSUME NEW h \in Handler, CallFails(h)
      PROVE  TypeOK'
  BY <1>8, CallMakers DEF CallFails, TypeOK, stripe, comp
<1>9. QED BY <1>1, <1>2, <1>4, <1>6, <1>7, <1>8 DEF Webhook

LEMMA DeletionTypes ==
  ASSUME TypeOK, RevokeTrue, Deletion
  PROVE  TypeOK'
<1>1. /\ redeemed.sub \in Checkout \cup {NoSub} /\ redeemed.revoked \in BOOLEAN
      /\ closing.sub \in Checkout \cup {NoSub} /\ row.sub \in Checkout \cup {NoSub}
  BY DEF TypeOK
<1>2. CASE DeleteCode
  BY <1>2 DEF DeleteCode, Ask, TypeOK, stripe
<1>3. CASE CancelComp
  <2>1. /\ Cancel(redeemed.sub) \/ CancelFails(redeemed.sub)
        /\ noted' \subseteq noted \cup {redeemed.sub}
    BY <1>3 DEF CancelComp
  <2>2. noted' \subseteq Checkout
    BY <1>1, <1>3, <2>1 DEF CancelComp, TypeOK, RevokeTrue
  <2>3. StripeOK' /\ returns' \in Nat /\ deletions' \in Nat /\ failures' \in Nat
    BY <1>1, <2>1, CancelTypes
  <2>4. QED BY <1>3, <2>2, <2>3 DEF CancelComp, TypeOK, StripeOK
<1>4. CASE MarkRevoked \/ EndCode \/ RevokeKilled
  <2>1. CASE MarkRevoked
    BY <1>1, <2>1 DEF MarkRevoked, TypeOK, stripe, bounds
  <2>2. CASE EndCode
    BY <2>2 DEF EndCode, TypeOK, stripe, bounds
  <2>3. CASE RevokeKilled
    BY <2>3 DEF RevokeKilled, TypeOK, stripe
  <2>4. QED BY <1>4, <2>1, <2>2, <2>3
<1>5. CASE DeleteAccount
  BY <1>1, <1>5 DEF DeleteAccount, Ask, TypeOK, stripe, comp
<1>6. CASE CancelPlan
  <2>1. Cancel(closing.sub) \/ CancelFails(closing.sub)
    BY <1>6 DEF CancelPlan
  <2>2. StripeOK' /\ returns' \in Nat /\ deletions' \in Nat /\ failures' \in Nat
    BY <1>1, <2>1, CancelTypes
  <2>3. closing' \in [at : {"idle", "cancel", "wipe", "wiped"}, sub : Checkout \cup {NoSub}]
    BY <1>1, <1>6 DEF CancelPlan, Open
  <2>4. QED BY <1>6, <2>2, <2>3 DEF CancelPlan, TypeOK, StripeOK, comp
<1>7. CASE WipeUser
  <2>1. /\ row' \in [deleted : BOOLEAN, sub : Checkout \cup {NoSub}, status : Status \cup {"none"}]
        /\ closing' \in [at : {"idle", "cancel", "wipe", "wiped"}, sub : Checkout \cup {NoSub}]
    BY <1>1, <1>7 DEF WipeUser, TypeOK
  <2>2. QED BY <1>7, <2>1 DEF WipeUser, TypeOK, stripe, comp, bounds
<1>8. CASE CloseKilled
  BY <1>8 DEF CloseKilled, Open, TypeOK, stripe, comp
<1>9. QED BY <1>2, <1>3, <1>4, <1>5, <1>6, <1>7, <1>8 DEF Deletion

LEMMA TypeStep ==
  ASSUME TypeOK, Grounded, RevokeTrue, [Next]_vars
  PROVE  TypeOK'
<1>1. CASE UNCHANGED vars
  BY <1>1 DEF TypeOK, vars, stripe, comp, bounds
<1>2. CASE Next
  BY <1>2, CustomerTypes, WebhookTypes, DeletionTypes DEF Next
<1>3. QED BY <1>1, <1>2

-----------------------------------------------------------------------------
(* What Stripe says stays true. *)

\* The actions that change what Stripe has are these three.
LEMMA StripeSteps ==
  ASSUME TypeOK, [Next]_vars
  PROVE  \/ UNCHANGED sub /\ due' \subseteq due
         \/ \E k \in Checkout : Pay(k)
         \/ \E k \in Checkout : Ends(k) /\ UNCHANGED <<row, seen, call>>
<1>1. CASE UNCHANGED vars
  BY <1>1 DEF vars, stripe
<1>2. CASE Customer
  <2> PICK k \in Checkout :
        \/ Pay(k)
        \/ PortalCancel(k)
        \/ \E offer \in {"plain", "comp"} : CreateCheckout(k, offer)
        \/ \E h \in Handler : ConfirmCheckout(h, k)
    BY <1>2 DEF Customer
  <2>1. CASE PortalCancel(k)
    BY <2>1 DEF PortalCancel
  <2>2. ASSUME NEW offer \in {"plain", "comp"}, CreateCheckout(k, offer)
        PROVE  UNCHANGED sub /\ due' \subseteq due
    BY <2>2 DEF CreateCheckout
  <2>3. ASSUME NEW h \in Handler, ConfirmCheckout(h, k)
        PROVE  UNCHANGED sub /\ due' \subseteq due
    BY <2>3 DEF ConfirmCheckout, stripe
  <2>4. QED BY <2>1, <2>2, <2>3
<1>3. CASE Webhook
  <2>1. ASSUME NEW e \in due, Duplicate(e)
        PROVE  UNCHANGED sub /\ due' \subseteq due
    BY <2>1 DEF Duplicate
  <2>2. ASSUME NEW e \in due, NEW h \in Handler, Claim(h, e)
        PROVE  UNCHANGED sub /\ due' \subseteq due
    BY <2>2 DEF Claim, stripe
  <2>3. ASSUME NEW h \in Handler,
               Retrieve(h) \/ SyncSubscription(h) \/ RecordRedemption(h) \/ CallFails(h)
        PROVE  UNCHANGED sub /\ due' \subseteq due
    BY <2>3 DEF Retrieve, SyncSubscription, RecordRedemption, CallFails, Answer, stripe
  <2>4. QED BY <1>3, <2>1, <2>2, <2>3 DEF Webhook
<1>4. CASE Deletion
  <2>1. CASE CancelComp
    BY <2>1 DEF CancelComp, Cancel, CancelFails, stripe, TypeOK
  <2>2. CASE CancelPlan
    BY <2>2 DEF CancelPlan, Cancel, CancelFails, stripe, TypeOK
  <2>3. CASE DeleteCode \/ MarkRevoked \/ EndCode \/ RevokeKilled
    BY <2>3 DEF DeleteCode, MarkRevoked, EndCode, RevokeKilled, stripe
  <2>4. CASE DeleteAccount \/ WipeUser \/ CloseKilled
    BY <2>4 DEF DeleteAccount, WipeUser, CloseKilled, stripe
  <2>5. QED BY <1>4, <2>1, <2>2, <2>3, <2>4 DEF Deletion
<1>5. QED BY <1>1, <1>2, <1>3, <1>4 DEF Next

LEMMA NothingComesBack ==
  ASSUME TypeOK, [Next]_vars
  PROVE  /\ \A k \in Checkout : Over(k) => Over(k)'
         /\ \A e \in Event \cup Confirms : Backed(e) => Backed(e)'
<1>1. \A k \in Checkout : /\ Over(k) => Over(k)'
                          /\ sub[k] # "unpaid" => sub'[k] # "unpaid"
  <2>1. CASE UNCHANGED sub
    BY <2>1 DEF Over
  <2>2. ASSUME NEW k \in Checkout, Pay(k)
        PROVE  \A j \in Checkout : /\ Over(j) => Over(j)'
                                   /\ sub[j] # "unpaid" => sub'[j] # "unpaid"
    BY <2>2 DEF Pay, Over, TypeOK
  <2>3. ASSUME NEW k \in Checkout, Ends(k)
        PROVE  \A j \in Checkout : /\ Over(j) => Over(j)'
                                   /\ sub[j] # "unpaid" => sub'[j] # "unpaid"
    BY <2>3 DEF Ends, Over, TypeOK
  <2>4. QED BY <2>1, <2>2, <2>3, StripeSteps
<1>2. QED BY <1>1 DEF Backed, Event, Confirms

\* A new event is backed by the change it announces.
LEMMA EventsBacked ==
  ASSUME TypeOK, Grounded, [Next]_vars
  PROVE  \A e \in due' : Backed(e)'
<1>1. \A e \in due : Backed(e)'
  BY NothingComesBack DEF Grounded, TypeOK
<1>2. ASSUME NEW k \in Checkout, Pay(k), NEW e \in due'
      PROVE  e \in due \/ Backed(e)'
  BY <1>2 DEF Pay, Announce, Backed, TypeOK
<1>3. ASSUME NEW k \in Checkout, Ends(k), NEW e \in due'
      PROVE  e \in due \/ Backed(e)'
  BY <1>3 DEF Ends, Announce, Backed, Over, TypeOK
<1>4. QED BY <1>1, <1>2, <1>3, StripeSteps

\* Events are kept or dropped once they are taken, and new ones come from due.
LEMMA SeenSteps ==
  ASSUME TypeOK, [Next]_vars
  PROVE  seen' \subseteq seen \cup due
<1>1. CASE UNCHANGED vars
  BY <1>1 DEF vars
<1>2. CASE Customer
  BY <1>2 DEF Customer, Pay, PortalCancel, CreateCheckout, ConfirmCheckout
<1>3. CASE Webhook
  BY <1>3 DEF Webhook, Duplicate, Claim, Retrieve, SyncSubscription,
              RecordRedemption, CallFails
<1>4. CASE Deletion
  BY <1>4 DEF Deletion, DeleteCode, CancelComp, MarkRevoked, EndCode, RevokeKilled,
              DeleteAccount, CancelPlan, WipeUser, CloseKilled
<1>5. QED BY <1>1, <1>2, <1>3, <1>4 DEF Next

\* What a call holds, as Stripe now has it.
Sound(h) ==
  Backed(call[h].event) /\ (call[h].got = "canceled" => Over(call[h].event.sub))

\* A call stands still, or one step of it is taken.
Moved(h) ==
  \/ call'[h] = call[h]
  \/ call'[h] = Idle
  \/ \E k \in Checkout : sub[k] # "unpaid" /\ UNCHANGED sub
       /\ call'[h] = [at |-> "retrieve", event |-> Confirm(k), got |-> "running"]
  \/ \E e \in due : UNCHANGED sub /\ call'[h] = Taken(e)
  \/ /\ call[h].at # "idle" /\ UNCHANGED sub
     /\ call'[h] = Writing(call[h], sub) \/ call'[h] = Redeeming(call[h])

LEMMA CallSteps ==
  ASSUME TypeOK, [Next]_vars, NEW h \in Handler
  PROVE  Moved(h)
<1>1. CASE UNCHANGED vars
  BY <1>1 DEF vars, Moved
<1>2. CASE Customer
  <2> PICK k \in Checkout :
        \/ Pay(k)
        \/ PortalCancel(k)
        \/ \E offer \in {"plain", "comp"} : CreateCheckout(k, offer)
        \/ \E g \in Handler : ConfirmCheckout(g, k)
    BY <1>2 DEF Customer
  <2>1. CASE Pay(k) \/ PortalCancel(k) \/ \E offer \in {"plain", "comp"} : CreateCheckout(k, offer)
    BY <2>1 DEF Pay, PortalCancel, CreateCheckout, Moved
  <2>2. ASSUME NEW g \in Handler, ConfirmCheckout(g, k)
        PROVE  Moved(h)
    <3>1. /\ sub[k] # "unpaid" /\ UNCHANGED sub
          /\ call' = [call EXCEPT ![g] =
                        [at |-> "retrieve", event |-> Confirm(k), got |-> "running"]]
      BY <2>2 DEF ConfirmCheckout, stripe
    <3>2. QED BY <3>1 DEF Moved, TypeOK
  <2>3. QED BY <2>1, <2>2
<1>3. CASE Webhook
  <2>1. ASSUME NEW e \in due, Duplicate(e)
        PROVE  Moved(h)
    BY <2>1 DEF Duplicate, Moved
  <2>2. ASSUME NEW e \in due, NEW g \in Handler, Claim(g, e)
        PROVE  Moved(h)
    <3>1. UNCHANGED sub /\ call' = [call EXCEPT ![g] = Taken(e)]
      BY <2>2 DEF Claim, stripe
    <3>2. QED BY <3>1 DEF Moved, TypeOK
  <2>3. ASSUME NEW g \in Handler, Retrieve(g)
        PROVE  Moved(h)
    <3>1. UNCHANGED sub /\ call[g].at # "idle"
      BY <2>3 DEF Retrieve, stripe
    <3>2. call' = [call EXCEPT ![g] = Writing(call[g], sub)]
      BY <2>3 DEF Retrieve
    <3>3. QED BY <3>1, <3>2 DEF Moved, TypeOK
  <2>4. ASSUME NEW g \in Handler, SyncSubscription(g)
        PROVE  Moved(h)
    <3>1. UNCHANGED sub /\ call[g].at # "idle"
      BY <2>4 DEF SyncSubscription, stripe, Answer
    <3>2. \/ call' = [call EXCEPT ![g] = Redeeming(call[g])]
          \/ call' = [call EXCEPT ![g] = Idle]
      BY <2>4 DEF SyncSubscription, Answer
    <3>3. QED BY <3>1, <3>2 DEF Moved, TypeOK
  <2>5. ASSUME NEW g \in Handler, RecordRedemption(g) \/ CallFails(g)
        PROVE  Moved(h)
    <3>1. call' = [call EXCEPT ![g] = Idle]
      BY <2>5 DEF RecordRedemption, CallFails, Answer
    <3>2. QED BY <3>1 DEF Moved, TypeOK
  <2>6. QED BY <1>3, <2>1, <2>2, <2>3, <2>4, <2>5 DEF Webhook
<1>4. CASE Deletion
  <2>1. UNCHANGED call
    BY <1>4 DEF Deletion, DeleteCode, CancelComp, MarkRevoked, EndCode, RevokeKilled,
              DeleteAccount, CancelPlan, WipeUser, CloseKilled
  <2>2. QED BY <2>1 DEF Moved
<1>5. QED BY <1>1, <1>2, <1>3, <1>4 DEF Next

LEMMA GroundedStep ==
  ASSUME TypeOK, Grounded, [Next]_vars
  PROVE  Grounded'
<1>1. \A e \in due' \cup seen' : Backed(e)'
  <2>1. \A e \in due \cup seen : Backed(e)'
    BY NothingComesBack DEF Grounded, TypeOK
  <2>2. QED BY <2>1, EventsBacked, SeenSteps
<1>2. ASSUME NEW h \in Handler, call'[h].at # "idle"
      PROVE  Sound(h)'
  <2>1. call[h] \in Calls
    BY DEF TypeOK
  <2>2. CASE call'[h] = call[h]
    <3>1. /\ call[h].event \in Event \cup Confirms /\ call[h].event.sub \in Checkout
      BY <1>2, <2>1, <2>2, CallTypes
    <3>2. Backed(call[h].event) /\ (call[h].got = "canceled" => Over(call[h].event.sub))
      BY <1>2, <2>2 DEF Grounded
    <3>3. /\ Backed(call[h].event)'
          /\ call[h].got = "canceled" => sub'[call[h].event.sub] = "canceled"
      BY <2>2, <3>1, <3>2, NothingComesBack DEF Over, Backed
    <3>4. QED BY <2>2, <3>3 DEF Sound, Backed, Over
  <2>3. ASSUME NEW k \in Checkout, sub[k] # "unpaid", UNCHANGED sub,
               call'[h] = [at |-> "retrieve", event |-> Confirm(k), got |-> "running"]
        PROVE  Sound(h)'
    BY <2>3 DEF Sound, Backed, Confirm
  <2>4. ASSUME NEW e \in due, UNCHANGED sub, call'[h] = Taken(e)
        PROVE  Sound(h)'
    BY <2>4 DEF Sound, Grounded, Backed, Taken, Over
  <2>5. ASSUME call[h].at # "idle", UNCHANGED sub,
               call'[h] = Writing(call[h], sub) \/ call'[h] = Redeeming(call[h])
        PROVE  Sound(h)'
    BY <2>5 DEF Sound, Grounded, Backed, Writing, Redeeming, Over
  <2>6. call'[h] # Idle
    BY <1>2 DEF Idle
  <2>7. QED BY <2>2, <2>3, <2>4, <2>5, <2>6, CallSteps DEF Moved
<1>3. QED BY <1>1, <1>2 DEF Grounded, Sound

-----------------------------------------------------------------------------
(* The row and the deletions. *)

LEMMA RowStep ==
  ASSUME TypeOK, Grounded, RowTrue, [Next]_vars
  PROVE  RowTrue'
<1>1. CASE UNCHANGED <<row.sub, row.status>>
  BY <1>1, NothingComesBack DEF RowTrue, CanceledIsTrue, TypeOK, Over
<1>2. ASSUME NEW h \in Handler, SyncSubscription(h)
      PROVE  RowTrue'
  <2>1. call[h].at # "idle" /\ call[h] \in Calls
    BY <1>2 DEF SyncSubscription, TypeOK
  <2>2. call[h].event.sub \in Checkout /\ call[h].got \in Status
    BY <2>1, CallTypes
  <2>3. UNCHANGED sub /\ row' = [deleted |-> row.deleted, sub |-> call[h].event.sub,
                                 status |-> call[h].got]
    BY <1>2 DEF SyncSubscription, Answer, stripe
  <2>4. QED BY <2>1, <2>2, <2>3, BillingAssumption
        DEF Grounded, RowTrue, CanceledIsTrue, Over, Status
<1>3. CASE WipeUser
  BY <1>1, <1>3 DEF WipeUser
<1>4. CASE UNCHANGED row
  BY <1>1, <1>4
<1>5. UNCHANGED row \/ WipeUser \/ \E h \in Handler : SyncSubscription(h)
  <2>1. CASE Customer \/ UNCHANGED vars
    BY <2>1 DEF Customer, Pay, PortalCancel, CreateCheckout, ConfirmCheckout, vars
  <2>2. CASE Webhook
    BY <2>2 DEF Webhook, Duplicate, Claim, Retrieve, RecordRedemption, CallFails
  <2>3. CASE Deletion
    BY <2>3 DEF Deletion, DeleteCode, CancelComp, MarkRevoked, EndCode, RevokeKilled,
                DeleteAccount, CancelPlan, CloseKilled
  <2>4. QED BY <2>1, <2>2, <2>3 DEF Next
<1>6. QED BY <1>2, <1>3, <1>4, <1>5

\* Where a call to cancel leaves the subscription.
LEMMA CancelEnds ==
  ASSUME TypeOK, NEW k \in Checkout, Cancel(k)
  PROVE  Over(k)'
BY DEF Cancel, Ends, Over, TypeOK

LEMMA RevokeStep ==
  ASSUME TypeOK, Grounded, RevokeTrue, [Next]_vars
  PROVE  RevokeTrue'
<1>1. redeemed.sub \in Checkout \cup {NoSub} /\ (redeemed # Nobody => redeemed.sub \in Checkout)
  BY DEF TypeOK, RevokeTrue
<1>2. redeemed.sub \in Checkout /\ Over(redeemed.sub) => sub'[redeemed.sub] = "canceled"
  BY NothingComesBack DEF Over
<1>3. CASE UNCHANGED comp
  BY <1>1, <1>2, <1>3 DEF RevokeTrue, RevokedIsOver, comp, Nobody, Over
<1>4. ASSUME NEW h \in Handler, RecordRedemption(h)
      PROVE  RevokeTrue'
  <2>1. call[h].at # "idle" /\ call[h] \in Calls
    BY <1>4 DEF RecordRedemption, TypeOK
  <2>2. call[h].event.sub \in Checkout
    BY <2>1, CallTypes
  <2>3. \/ UNCHANGED comp
        \/ redeemed = Nobody /\ redeemed' = [sub |-> call[h].event.sub, revoked |-> FALSE]
           /\ UNCHANGED <<revoking, noted>>
    BY <1>4 DEF RecordRedemption, comp
  <2>4. QED BY <1>3, <2>2, <2>3, BillingAssumption DEF RevokeTrue, RevokedIsOver, Nobody
<1>5. CASE DeleteCode
  BY <1>1, <1>2, <1>5 DEF DeleteCode, RevokeTrue, RevokedIsOver, Over, Nobody, stripe
<1>6. CASE CancelComp
  <2>1. redeemed # Nobody /\ redeemed.sub \in Checkout
    BY <1>1, <1>6 DEF CancelComp, RevokeTrue
  <2>2. Over(redeemed.sub)' \/ redeemed.sub \in noted'
    BY <1>6, <2>1, CancelEnds DEF CancelComp
  <2>3. QED BY <1>6, <2>1, <2>2 DEF CancelComp, RevokeTrue, RevokedIsOver, Over, Nobody
<1>7. CASE MarkRevoked
  BY <1>1, <1>7 DEF MarkRevoked, RevokeTrue, RevokedIsOver, Over, Nobody, stripe
<1>8. CASE EndCode \/ RevokeKilled
  BY <1>1, <1>2, <1>8 DEF EndCode, RevokeKilled, RevokeTrue, RevokedIsOver, Over, Nobody, stripe
<1>9. \/ UNCHANGED comp \/ DeleteCode \/ CancelComp \/ MarkRevoked \/ EndCode \/ RevokeKilled
      \/ \E h \in Handler : RecordRedemption(h)
  <2>1. CASE Customer \/ UNCHANGED vars
    BY <2>1 DEF Customer, Pay, PortalCancel, CreateCheckout, ConfirmCheckout, vars
  <2>2. CASE Webhook
    BY <2>2 DEF Webhook, Duplicate, Claim, Retrieve, SyncSubscription, CallFails
  <2>3. CASE Deletion
    BY <2>3 DEF Deletion, DeleteAccount, CancelPlan, WipeUser, CloseKilled
  <2>4. QED BY <2>1, <2>2, <2>3 DEF Next
<1>10. QED BY <1>3, <1>4, <1>5, <1>6, <1>7, <1>8, <1>9

LEMMA CloseStep ==
  ASSUME TypeOK, RowTrue, CloseTrue, [Next]_vars
  PROVE  CloseTrue'
<1>1. closing.sub \in Checkout \cup {NoSub} /\ row.sub \in Checkout \cup {NoSub}
      /\ row.status \in {"none", "running", "canceled"}
  BY DEF TypeOK, Status
<1>2. closing.sub \in Checkout /\ Over(closing.sub) => sub'[closing.sub] = "canceled"
  BY NothingComesBack DEF Over
<1>3. CASE UNCHANGED closing
  BY <1>1, <1>2, <1>3 DEF CloseTrue, Over
<1>4. CASE DeleteAccount
  BY <1>1, <1>4 DEF DeleteAccount, CloseTrue, RowTrue, CanceledIsTrue, Over, stripe
<1>5. CASE CancelPlan
  <2>1. CASE Cancel(closing.sub) /\ closing' = [at |-> "wipe", sub |-> closing.sub]
    <3>1. closing.sub \in Checkout
      BY <1>1, <2>1 DEF Cancel
    <3>2. Over(closing.sub)'
      BY <2>1, <3>1, CancelEnds
    <3>3. QED BY <2>1, <3>2 DEF CloseTrue, Over
  <2>2. CASE closing' = Open
    BY <2>2 DEF CloseTrue, Open
  <2>3. QED BY <1>5, <2>1, <2>2 DEF CancelPlan
<1>6. CASE WipeUser
  BY <1>1, <1>6 DEF WipeUser, CloseTrue, Over, stripe
<1>7. CASE CloseKilled
  BY <1>7 DEF CloseKilled, CloseTrue, Open
<1>8. UNCHANGED closing \/ DeleteAccount \/ CancelPlan \/ WipeUser \/ CloseKilled
  <2>1. CASE Customer \/ UNCHANGED vars
    BY <2>1 DEF Customer, Pay, PortalCancel, CreateCheckout, ConfirmCheckout, vars
  <2>2. CASE Webhook
    BY <2>2 DEF Webhook, Duplicate, Claim, Retrieve, SyncSubscription, RecordRedemption, CallFails
  <2>3. CASE Deletion
    BY <2>3 DEF Deletion, DeleteCode, CancelComp, MarkRevoked, EndCode, RevokeKilled
  <2>4. QED BY <2>1, <2>2, <2>3 DEF Next
<1>9. QED BY <1>3, <1>4, <1>5, <1>6, <1>7, <1>8

-----------------------------------------------------------------------------
(* The theorems. *)

LEMMA InductiveInit == Init => IInv
BY TypeInit, BillingAssumption
   DEF Init, IInv, Grounded, RowTrue, CanceledIsTrue, RevokeTrue, RevokedIsOver,
       CloseTrue, Idle, Open, Nobody

LEMMA InductiveStep == IInv /\ [Next]_vars => IInv'
BY TypeStep, GroundedStep, RowStep, RevokeStep, CloseStep DEF IInv

LEMMA Inductive == Spec => []IInv
BY InductiveInit, InductiveStep, PTL DEF Spec

\* Every variable keeps its type.
THEOREM TypeCorrect == Spec => []TypeOK
<1>1. IInv => TypeOK
  BY DEF IInv
<1>2. QED BY <1>1, Inductive, PTL

\* Whatever the order of Stripe's events and of the calls that handle them, a
\* row that syncSubscription left canceled is about a plan that has ended.
THEOREM CanceledAlwaysTrue == Spec => []CanceledIsTrue
<1>1. IInv => CanceledIsTrue
  BY DEF IInv, RowTrue
<1>2. QED BY <1>1, Inductive, PTL

\* A redemption that mutateCode marked revoked has no plan running behind it
\* unless the answer named it to the admin.
THEOREM RevokedAlwaysOver == Spec => []RevokedIsOver
<1>1. IInv => RevokedIsOver
  BY DEF IInv, RevokeTrue
<1>2. QED BY <1>1, Inductive, PTL

\* No order of deleteAccount and the webhook leaves a deleted account with the
\* plan it showed still running.
THEOREM DeletedNeverPays == Spec => []DeletedPaysNothing
<1>1. IInv => DeletedPaysNothing
  BY DEF IInv, CloseTrue, DeletedPaysNothing
<1>2. QED BY <1>1, Inductive, PTL
-----------------------------------------------------------------------------
(***************************************************************************)
(* What a failure costs.  Two events carry each plan to the row, and every *)
(* one is on its way, in a call, or lost to a call that failed: one lost   *)
(* event for each failure, so that the first leaves the other event.       *)
(***************************************************************************)
Carries(e) == e.kind \in {"created", "checkout"} /\ sub[e.sub] # "unpaid" /\ e.sub \notin heard

Lost(e) ==
  /\ ~(e \in due /\ e \notin seen)
  /\ \A h \in Handler : call[h].at # "idle" => call[h].event # e

RedeemHeard == \A h \in Handler : call[h].at = "redeem" => call[h].event.sub \in heard

LostFew ==
  \A e \in Event : Carries(e) /\ Lost(e) =>
    /\ failures > 0
    /\ \A f \in Event : Carries(f) /\ Lost(f) /\ f # e => failures > 1

LossInv == RedeemHeard /\ LostFew

\* A step that loses no event.
LEMMA NoneLost ==
  ASSUME LostFew, failures \in Nat, failures' \in {failures, failures + 1},
         \A e \in Event : Carries(e)' /\ Lost(e)' => Carries(e) /\ Lost(e)
  PROVE  LostFew'
BY DEF LostFew

\* A step that leaves the calls alone and adds to what is due.
LEMMA CallsRest ==
  ASSUME TypeOK, LossInv, UNCHANGED <<seen, call, heard>>, due \subseteq due',
         failures' \in {failures, failures + 1},
         \A k \in Checkout : sub'[k] # "unpaid" => sub[k] # "unpaid"
  PROVE  LossInv'
<1>1. \A e \in Event : Carries(e)' /\ Lost(e)' => Carries(e) /\ Lost(e)
  BY DEF Carries, Lost, Event
<1>2. failures \in Nat
  BY DEF TypeOK
<1>3. LostFew'
  BY <1>1, <1>2, NoneLost DEF LossInv
<1>4. RedeemHeard'
  BY DEF LossInv, RedeemHeard
<1>5. QED BY <1>3, <1>4 DEF LossInv

LEMMA EndsRest ==
  ASSUME TypeOK, NEW k, Ends(k)
  PROVE  due \subseteq due' /\ \A x \in Checkout : sub'[x] # "unpaid" => sub[x] # "unpaid"
BY DEF Ends, Announce, TypeOK

LEMMA LossCustomer ==
  ASSUME TypeOK, Grounded, LossInv, Customer
  PROVE  LossInv'
<1> PICK k \in Checkout :
      \/ Pay(k)
      \/ PortalCancel(k)
      \/ \E offer \in {"plain", "comp"} : CreateCheckout(k, offer)
      \/ \E h \in Handler : ConfirmCheckout(h, k)
  BY DEF Customer
<1>0. failures \in Nat /\ RedeemHeard /\ LostFew
  BY DEF TypeOK, LossInv
<1>1. CASE Pay(k)
  <2>1. /\ UNCHANGED <<seen, call, heard, failures>> /\ due \subseteq due' /\ sub[k] = "unpaid"
        /\ \A x \in {"created", "checkout"} : [kind |-> x, sub |-> k] \in due'
        /\ \A x \in Checkout : x # k => sub'[x] = sub[x]
    BY <1>1 DEF Pay, Announce, TypeOK, bounds
  <2>2. ASSUME NEW e \in Event, Carries(e)', Lost(e)' PROVE Carries(e) /\ Lost(e)
    <3>1. CASE e.sub = k
      <4>1. e \in due' /\ e \notin seen
        BY <2>1, <2>2, <3>1 DEF Event, Carries, Grounded, Backed
      <4>2. QED BY <2>1, <2>2, <4>1 DEF Lost
    <3>2. CASE e.sub # k
      BY <2>1, <2>2, <3>2 DEF Event, Carries, Lost
    <3>3. QED BY <3>1, <3>2
  <2>3. LostFew'
    BY <1>0, <2>1, <2>2, NoneLost
  <2>4. QED BY <1>0, <2>1, <2>3 DEF LossInv, RedeemHeard
<1>2. CASE PortalCancel(k)
  BY <1>2, EndsRest, CallsRest DEF PortalCancel, bounds
<1>3. CASE \E offer \in {"plain", "comp"} : CreateCheckout(k, offer)
  BY <1>3, CallsRest DEF CreateCheckout, bounds
<1>4. ASSUME NEW h \in Handler, ConfirmCheckout(h, k)
      PROVE  LossInv'
  <2>1. /\ UNCHANGED <<sub, due, seen, heard, failures>> /\ call[h].at = "idle"
        /\ call'[h].at = "retrieve" /\ \A g \in Handler : g # h => call'[g] = call[g]
    BY <1>4 DEF ConfirmCheckout, stripe, TypeOK
  <2>2. \A e \in Event : Carries(e)' /\ Lost(e)' => Carries(e) /\ Lost(e)
    BY <2>1 DEF Carries, Lost
  <2>3. LostFew'
    BY <1>0, <2>1, <2>2, NoneLost
  <2>4. RedeemHeard'
    BY <1>0, <2>1 DEF RedeemHeard
  <2>5. QED BY <2>3, <2>4 DEF LossInv
<1>5. QED BY <1>1, <1>2, <1>3, <1>4

LEMMA LossWebhook ==
  ASSUME TypeOK, Grounded, LossInv, Webhook
  PROVE  LossInv'
<1>0. failures \in Nat /\ RedeemHeard /\ LostFew
  BY DEF TypeOK, LossInv
<1>1. ASSUME NEW d \in due, Duplicate(d)
      PROVE  LossInv'
  <2>1. UNCHANGED <<sub, seen, call, heard, failures>> /\ d \in seen /\ due' = due \ {d}
    BY <1>1 DEF Duplicate, bounds
  <2>2. \A e \in Event : Carries(e)' /\ Lost(e)' => Carries(e) /\ Lost(e)
    BY <2>1 DEF Carries, Lost
  <2>3. LostFew'
    BY <1>0, <2>1, <2>2, NoneLost
  <2>4. QED BY <1>0, <2>1, <2>3 DEF LossInv, RedeemHeard
<1>2. ASSUME NEW d \in due, NEW h \in Handler, Claim(h, d)
      PROVE  LossInv'
  <2>1. /\ UNCHANGED <<sub, due, heard, failures>> /\ seen' = seen \cup {d} /\ call[h].at = "idle"
        /\ call'[h].at \in {"write", "retrieve"} /\ call'[h].event = d
        /\ \A g \in Handler : g # h => call'[g] = call[g]
    BY <1>2 DEF Claim, Taken, stripe, bounds, TypeOK
  <2>2. \A e \in Event : Carries(e)' /\ Lost(e)' => Carries(e) /\ Lost(e)
    BY <2>1 DEF Carries, Lost
  <2>3. LostFew'
    BY <1>0, <2>1, <2>2, NoneLost
  <2>4. RedeemHeard'
    BY <1>0, <2>1 DEF RedeemHeard
  <2>5. QED BY <2>3, <2>4 DEF LossInv
<1>3. ASSUME NEW h \in Handler, Retrieve(h)
      PROVE  LossInv'
  <2>1. /\ UNCHANGED <<sub, due, seen, heard, failures>> /\ call[h].at = "retrieve"
        /\ call'[h].at = "write" /\ call'[h].event = call[h].event
        /\ \A g \in Handler : g # h => call'[g] = call[g]
    BY <1>3 DEF Retrieve, Writing, stripe, bounds, TypeOK
  <2>2. \A e \in Event : Carries(e)' /\ Lost(e)' => Carries(e) /\ Lost(e)
    BY <2>1 DEF Carries, Lost
  <2>3. LostFew'
    BY <1>0, <2>1, <2>2, NoneLost
  <2>4. RedeemHeard'
    BY <1>0, <2>1 DEF RedeemHeard
  <2>5. QED BY <2>3, <2>4 DEF LossInv
<1>4. ASSUME NEW h \in Handler, SyncSubscription(h) \/ RecordRedemption(h)
      PROVE  LossInv'
  <2>1. /\ UNCHANGED <<sub, seen, failures>> /\ call[h].event.sub \in heard'
        /\ heard \subseteq heard' /\ due \subseteq due' \cup {call[h].event}
        /\ call'[h] = Idle \/ call'[h] = Redeeming(call[h])
        /\ \A g \in Handler : g # h => call'[g] = call[g]
    <3>1. CASE SyncSubscription(h)
      BY <3>1 DEF SyncSubscription, Answer, stripe, bounds, TypeOK
    <3>2. CASE RecordRedemption(h)
      BY <1>0, <3>2 DEF RecordRedemption, Answer, bounds, TypeOK, RedeemHeard
    <3>3. QED BY <1>4, <3>1, <3>2
  <2>2. ASSUME NEW e \in Event, Carries(e)', Lost(e)' PROVE Carries(e) /\ Lost(e)
    <3>1. e # call[h].event /\ Carries(e)
      BY <2>1, <2>2 DEF Carries
    <3>2. Lost(e)
      BY <2>1, <2>2, <3>1 DEF Lost
    <3>3. QED BY <3>1, <3>2
  <2>3. LostFew'
    BY <1>0, <2>1, <2>2, NoneLost
  <2>4. RedeemHeard'
    BY <1>0, <2>1 DEF RedeemHeard, Redeeming, Idle
  <2>5. QED BY <2>3, <2>4 DEF LossInv
<1>5. ASSUME NEW h \in Handler, CallFails(h)
      PROVE  LossInv'
  <2> DEFINE d == call[h].event
  <2>1. /\ UNCHANGED <<sub, due, heard>> /\ failures' = failures + 1
        /\ call'[h] = Idle /\ \A g \in Handler : g # h => call'[g] = call[g]
        /\ seen' = seen \/ seen' = seen \ {d}
    BY <1>5 DEF CallFails, stripe, TypeOK
  <2> HIDE DEF d
  <2>2. ASSUME NEW e \in Event, e # d, Carries(e)', Lost(e)' PROVE Carries(e) /\ Lost(e)
    <3>1. Carries(e) /\ ~(e \in due /\ e \notin seen)
      BY <2>1, <2>2 DEF Carries, Lost
    <3>2. \A g \in Handler : call[g].at # "idle" => call[g].event # e
      BY <2>1, <2>2 DEF Lost, d
    <3>3. QED BY <3>1, <3>2 DEF Lost
  <2>3. LostFew'
    <3>1. SUFFICES ASSUME NEW e \in Event, Carries(e)', Lost(e)', NEW f \in Event,
                          Carries(f)', Lost(f)', f # e
                   PROVE  failures' > 1
      BY <1>0, <2>1 DEF LostFew
    <3>2. failures > 0
      BY <1>0, <2>2, <3>1 DEF LostFew
    <3>3. QED BY <1>0, <2>1, <3>2
  <2>4. RedeemHeard'
    BY <1>0, <2>1 DEF RedeemHeard, Idle
  <2>5. QED BY <2>3, <2>4 DEF LossInv
<1>6. QED BY <1>1, <1>2, <1>3, <1>4, <1>5 DEF Webhook

LEMMA LossDeletion ==
  ASSUME TypeOK, LossInv, Deletion
  PROVE  LossInv'
<1>1. UNCHANGED <<seen, call, heard>> /\ failures' \in {failures, failures + 1}
  BY DEF Deletion, DeleteCode, CancelComp, MarkRevoked, EndCode, RevokeKilled, DeleteAccount,
         CancelPlan, WipeUser, CloseKilled, Cancel, CancelFails, Ask, bounds
<1>2. due \subseteq due' /\ \A k \in Checkout : sub'[k] # "unpaid" => sub[k] # "unpaid"
  <2>1. CASE \E k : Ends(k)
    BY <2>1, EndsRest
  <2>2. CASE UNCHANGED stripe
    BY <2>2 DEF stripe
  <2>3. (\E k : Ends(k)) \/ UNCHANGED stripe
    BY DEF Deletion, DeleteCode, CancelComp, MarkRevoked, EndCode, RevokeKilled, DeleteAccount,
           CancelPlan, WipeUser, CloseKilled, Cancel, CancelFails
  <2>4. QED BY <2>1, <2>2, <2>3
<1>3. QED BY <1>1, <1>2, CallsRest

LEMMA LossStep ==
  ASSUME IInv, LossInv, [Next]_vars
  PROVE  LossInv'
<1>1. TypeOK /\ Grounded
  BY DEF IInv
<1>2. CASE UNCHANGED vars
  BY <1>1, <1>2, CallsRest DEF vars, stripe, bounds
<1>3. CASE Next
  BY <1>1, <1>3, LossCustomer, LossWebhook, LossDeletion DEF Next
<1>4. QED BY <1>2, <1>3

\* Until a second call is lost, a plan that was paid for reaches the row: when
\* nothing is on its way, each of its events was handled or lost, and at most
\* one of all was.  With two lost calls a plan can stay unseen.
THEOREM PaidIsAlwaysSeen == Spec => [](failures <= 1 => PaidIsSeen)
<1>1. Init => LossInv
  BY BillingAssumption DEF Init, LossInv, RedeemHeard, LostFew, Carries, Event, Idle
<1>2. IInv /\ LossInv /\ [Next]_vars => LossInv'
  BY LossStep
<1>3. IInv /\ LossInv => (failures <= 1 => PaidIsSeen)
  <2> SUFFICES ASSUME IInv, LossInv, failures <= 1, Quiet, NEW k \in Checkout,
                      sub[k] # "unpaid", k \notin heard
               PROVE  FALSE
    BY DEF PaidIsSeen
  <2> DEFINE e == [kind |-> "created", sub |-> k]
             f == [kind |-> "checkout", sub |-> k]
  <2>1. e \in Event /\ f \in Event /\ e # f /\ Carries(e) /\ Carries(f)
    BY DEF Event, Carries
  <2>2. Lost(e) /\ Lost(f)
    BY DEF Quiet, Lost
  <2> HIDE DEF e, f
  <2>3. failures \in Nat /\ failures > 1
    BY <2>1, <2>2 DEF IInv, TypeOK, LossInv, LostFew
  <2>4. QED BY <2>3
<1>4. QED BY <1>1, <1>2, <1>3, Inductive, PTL DEF Spec
=============================================================================
