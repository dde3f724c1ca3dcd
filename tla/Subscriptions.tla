--------------------------- MODULE Subscriptions ---------------------------
(***************************************************************************)
(* What the dashboard makes of Stripe's subscription events                *)
(* (apps/dashboard/src/app/api/stripe/webhook/route.ts over                *)
(* syncSubscriptionToUser in lib/stripe.ts): each event carries the status *)
(* of its time, events are delivered again until one delivery succeeds,    *)
(* in any order and several at once, and the handler acts on the status    *)
(* it fetches.  An organization's old owner has asked that the             *)
(* subscription be the new one's to pay: when the new owner's becomes      *)
(* active the handler cancels the old one.                                 *)
(***************************************************************************)
EXTENDS Integers, Sequences, FiniteSets

CONSTANTS
  Deliveries,  \* webhook requests in flight
  MaxChanges   \* bound: changes of subscriptions, and so events

ASSUME ChangesAssumption == MaxChanges \in Nat

Payers == {"old", "new"}
Statuses == {"none", "incomplete", "active", "past_due", "canceled"}

VARIABLES
  status,    \* the subscription of each payer, at Stripe
  events,    \* the events sent so far: whose, and the status of the time
  undone,    \* those of them no delivery has succeeded with
  delivery,  \* each delivery: where it is, its event, the status it fetched
  plan,      \* users.plan of each payer, with stripe_subscription_id
  intent,    \* the billing_transfer_intents row, and whether it names the old subscription
  slipped    \* payers with two deliveries at once, or one that worked on its payload

stripeVars == <<status, events, undone, delivery, plan, intent, slipped>>

Waiting == [at |-> "idle", event |-> 0, fetched |-> "none"]

StripeInit ==
  /\ status = [p \in Payers |-> "none"]
  /\ events = <<>> /\ undone = {}
  /\ delivery = [d \in Deliveries |-> Waiting]
  /\ plan = [p \in Payers |-> "free"]
  /\ intent = [at |-> "none", names |-> FALSE]
  /\ slipped = {}

PayerOf(d) == events[delivery[d].event].payer
Busy(p) == {d \in Deliveries : delivery[d].at # "idle" /\ PayerOf(d) = p}
PlanFor(s) == IF s = "active" THEN "paid" ELSE "free"
To(d, at) == delivery' = [delivery EXCEPT ![d].at = at]

-----------------------------------------------------------------------------
(* Stripe *)

Becomes(p, s) ==
  /\ Len(events) < MaxChanges
  /\ status' = [status EXCEPT ![p] = s]
  /\ events' = Append(events, [payer |-> p, snapshot |-> s])
  /\ undone' = undone \cup {Len(events) + 1}

Change(p) ==
  /\ \E s \in CASE status[p] = "none" -> {"incomplete", "active"}
                [] status[p] = "incomplete" -> {"active", "canceled"}
                [] status[p] = "active" -> {"past_due", "canceled"}
                [] status[p] = "past_due" -> {"active", "canceled"}
                [] status[p] = "canceled" -> {} : Becomes(p, s)
  /\ UNCHANGED <<delivery, plan, intent, slipped>>

-----------------------------------------------------------------------------
(* syncSubscriptionToUser *)

(* Mutant: the payload is good enough. *)
LiveInPayload(e) == events[e].snapshot

(* stripe.subscriptions.retrieve *)
Live(e) == status[events[e].payer]

(* A delivery, the first one of its event or another, works on the live
   subscription; on its payload, when the fetch fails. *)
Deliver(d, e) ==
  LET p == events[e].payer
      Take(s, slip) ==
        /\ delivery' = [delivery EXCEPT ![d] = [at |-> "fetched", event |-> e, fetched |-> s]]
        /\ slipped' = IF slip \/ Busy(p) # {} THEN slipped \cup {p} ELSE slipped
  IN
  /\ delivery[d] = Waiting
  /\ Take(Live(e), FALSE) \/ Take(events[e].snapshot, TRUE)
  /\ UNCHANGED <<status, events, undone, plan, intent>>

(* 200: the event is done with. *)
Acknowledge(d) ==
  /\ undone' = undone \ {delivery[d].event}
  /\ delivery' = [delivery EXCEPT ![d] = Waiting]

(* The user's row.  The learning flag of the user's projects, a copy of this
   that only the nightly retrain reads, is left out.  Only an active
   subscription goes on. *)
WritePlan(d) ==
  LET p == PayerOf(d)  new == PlanFor(delivery[d].fetched) IN
  /\ delivery[d].at = "fetched"
  /\ plan' = [plan EXCEPT ![p] = new]
  /\ IF new = "paid" THEN To(d, "transfer") /\ UNCHANGED undone ELSE Acknowledge(d)
  /\ UNCHANGED <<status, events, intent, slipped>>

(* completePendingBillingTransferFor: the pending intent that names the user. *)
FindIntent(d) ==
  /\ delivery[d].at = "transfer"
  /\ IF PayerOf(d) = "new" /\ intent.at = "pending"
     THEN To(d, IF intent.names THEN "cancelling" ELSE "completing") /\ UNCHANGED undone
     ELSE Acknowledge(d)
  /\ UNCHANGED <<status, events, plan, intent, slipped>>

(* Stripe cancels the old subscription, or says that it cannot. *)
CancelOld(d) ==
  /\ delivery[d].at = "cancelling"
  /\ \/ /\ status["old"] \notin {"none", "canceled"} /\ Becomes("old", "canceled")
     \/ UNCHANGED <<status, events, undone>>
  /\ To(d, "completing")
  /\ UNCHANGED <<plan, intent, slipped>>

(* UPDATE ... WHERE id: cancelled meanwhile or not. *)
CompleteIntent(d) ==
  /\ delivery[d].at = "completing"
  /\ intent' = [intent EXCEPT !.at = "completed"]
  /\ Acknowledge(d)
  /\ UNCHANGED <<status, events, plan, slipped>>

(* The database fails after the plan was written: that is swallowed. *)
TransferFails(d) ==
  /\ delivery[d].at \in {"transfer", "completing"}
  /\ Acknowledge(d)
  /\ UNCHANGED <<status, events, plan, intent, slipped>>

(* The database fails before, or the process dies: Stripe gets no 200. *)
DeliveryFails(d) ==
  /\ delivery[d].at # "idle"
  /\ delivery' = [delivery EXCEPT ![d] = Waiting]
  /\ UNCHANGED <<status, events, undone, plan, intent, slipped>>

-----------------------------------------------------------------------------
(* createBillingTransferIntent, cancelBillingTransferIntent, and its expiry *)

CreateIntent ==
  /\ intent.at = "none"
  /\ intent' = [at |-> "pending", names |-> plan["old"] = "paid"]
  /\ UNCHANGED <<status, events, undone, delivery, plan, slipped>>

CancelIntent ==
  /\ intent.at = "pending"
  /\ intent' = [intent EXCEPT !.at = "cancelled"]
  /\ UNCHANGED <<status, events, undone, delivery, plan, slipped>>

-----------------------------------------------------------------------------

StripeNext ==
  \/ \E p \in Payers : Change(p)
  \/ \E d \in Deliveries :
       \/ \E e \in DOMAIN events : Deliver(d, e)
       \/ WritePlan(d) \/ FindIntent(d) \/ CancelOld(d) \/ CompleteIntent(d)
       \/ TransferFails(d) \/ DeliveryFails(d)
  \/ CreateIntent \/ CancelIntent

StripeSpec == StripeInit /\ [][StripeNext]_stripeVars

-----------------------------------------------------------------------------
(* Properties *)

StripeTypeOK ==
  /\ status \in [Payers -> Statuses]
  /\ events \in Seq([payer : Payers, snapshot : Statuses]) /\ Len(events) <= MaxChanges
  /\ undone \subseteq DOMAIN events
  /\ plan \in [Payers -> {"free", "paid"}]
  /\ intent \in [at : {"none", "pending", "completed", "cancelled"}, names : BOOLEAN]
  /\ slipped \subseteq Payers

(* "Idempotent and order-independent: whatever order the events arrive in, we
   resolve to the subscription's current truth": once every event of a payer
   is done with, the plan is what Stripe says, through stale payloads,
   duplicates, failed deliveries, and a subscription that another one's event
   cancelled, also while a delivery of an event that was done with runs once
   more.  It takes that deliveries to one payer do not overlap, and that none
   had to make do with its payload: two that overlap may write in the other
   order than they fetched. *)
PlanFollowsStripe ==
  \A p \in Payers \ slipped :
    (\A e \in undone : events[e].payer # p) => plan[p] = PlanFor(status[p])

=============================================================================
