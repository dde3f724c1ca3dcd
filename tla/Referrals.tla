----------------------------- MODULE Referrals -----------------------------
(***************************************************************************)
(* Referral commissions of the dashboard (apps/dashboard/src/lib/stripe.ts *)
(* over referral_credits): each paid invoice of a referee, of which the    *)
(* first few count, is recorded once as a credit; a settle pass, run by    *)
(* cron or by hand, grants recorded credits at Stripe and then stamps      *)
(* them.  Deliveries of one event, and passes, may overlap; what fails in  *)
(* recording is swallowed, what fails in settling is left to the next      *)
(* pass.  One referee and its referrer are modelled; Stripe asks for no    *)
(* idempotency key and is given none.                                      *)
(***************************************************************************)
EXTENDS Integers, FiniteSets

CONSTANTS
  Invoices,    \* paid invoices of the referee
  CreditCap,   \* REFERRAL_MAX_INVOICES_PER_REFEREE
  Recorders,   \* invoice.paid deliveries in flight
  Passes,      \* settle passes in flight
  MaxGrants    \* bound: balance transactions of one credit

ASSUME CreditCapAssumption == CreditCap \in Nat \ {0}
ASSUME FiniteAssumption == IsFiniteSet(Invoices) /\ IsFiniteSet(Recorders)
ASSUME GrantsAssumption == MaxGrants \in Nat

VARIABLES
  credit,     \* the row of each invoice: none, pending or applied
  grants,     \* balance transactions of each credit, at Stripe
  customer,   \* is the referrer a Stripe customer?
  recorder,   \* each delivery: the invoice it found below the cap, or none
  settle,     \* each pass: the credits it listed and has not come to, the one it granted
  unstamped   \* credits granted by a pass that did not stamp them, or listed by two

referralVars == <<credit, grants, customer, recorder, settle, unstamped>>

NoInvoice == "none"

ASSUME NoInvoiceAssumption == NoInvoice \notin Invoices

ReferralInit ==
  /\ credit = [i \in Invoices |-> "none"]
  /\ grants = [i \in Invoices |-> 0]
  /\ customer \in BOOLEAN
  /\ recorder = [d \in Recorders |-> NoInvoice]
  /\ settle = [s \in Passes |-> [todo |-> {}, granted |-> NoInvoice]]
  /\ unstamped = {}

Credits == {i \in Invoices : credit[i] # "none"}

-----------------------------------------------------------------------------
(* recordReferralCreditFromInvoice *)

(* Mutant: one more than the cap. *)
CountOneMore(d, i) ==
  /\ recorder[d] = NoInvoice /\ Cardinality(Credits) <= CreditCap
  /\ recorder' = [recorder EXCEPT ![d] = i]
  /\ UNCHANGED <<credit, grants, customer, settle, unstamped>>

(* A delivery, again or for the first time: countRefereePaidInvoices. *)
Count(d, i) ==
  /\ recorder[d] = NoInvoice /\ Cardinality(Credits) < CreditCap
  /\ recorder' = [recorder EXCEPT ![d] = i]
  /\ UNCHANGED <<credit, grants, customer, settle, unstamped>>

(* INSERT ... ON CONFLICT DO NOTHING, or nothing at all. *)
InsertCredit(d) ==
  LET i == recorder[d] IN
  /\ i # NoInvoice
  /\ credit' \in {credit, [credit EXCEPT ![i] = IF @ = "none" THEN "pending" ELSE @]}
  /\ recorder' = [recorder EXCEPT ![d] = NoInvoice]
  /\ UNCHANGED <<grants, customer, settle, unstamped>>

-----------------------------------------------------------------------------
(* settlePendingReferralCredits *)

(* Mutant: what is applied is listed again. *)
ListedAll == IF customer THEN Credits ELSE {}

(* The rows without applied_at; a referrer who is no customer is skipped. *)
Listed == IF customer THEN {i \in Invoices : credit[i] = "pending"} ELSE {}

(* Pass s holds credit i: it will grant it, or has and will stamp it. *)
At(s, i) == i \in settle[s].todo \/ settle[s].granted = i

StartPass(s) ==
  /\ settle[s] = [todo |-> {}, granted |-> NoInvoice]
  /\ Listed # {}
  /\ settle' = [settle EXCEPT ![s].todo = Listed]
  /\ unstamped' = unstamped \cup {i \in Listed : \E o \in Passes : At(o, i)}
  /\ UNCHANGED <<credit, grants, customer, recorder>>

(* createBalanceTransaction *)
Grant(s, i) ==
  /\ settle[s].granted = NoInvoice /\ i \in settle[s].todo /\ grants[i] < MaxGrants
  /\ grants' = [grants EXCEPT ![i] = @ + 1]
  /\ settle' = [settle EXCEPT ![s] = [todo |-> @.todo \ {i}, granted |-> i]]
  /\ UNCHANGED <<credit, customer, recorder, unstamped>>

(* Stripe refuses it, or is not heard of again: on to the next. *)
GrantFails(s, i) ==
  /\ settle[s].granted = NoInvoice /\ i \in settle[s].todo
  /\ settle' = [settle EXCEPT ![s].todo = @ \ {i}]
  /\ \/ UNCHANGED <<grants, unstamped>>
     \/ /\ grants[i] < MaxGrants /\ grants' = [grants EXCEPT ![i] = @ + 1]
        /\ unstamped' = unstamped \cup {i}
  /\ UNCHANGED <<credit, customer, recorder>>

(* markReferralCreditApplied *)
Stamp(s) ==
  LET i == settle[s].granted IN
  /\ i # NoInvoice
  /\ credit' = [credit EXCEPT ![i] = "applied"]
  /\ settle' = [settle EXCEPT ![s].granted = NoInvoice]
  /\ UNCHANGED <<grants, customer, recorder, unstamped>>

StampFails(s) ==
  /\ settle[s].granted # NoInvoice
  /\ unstamped' = unstamped \cup {settle[s].granted}
  /\ settle' = [settle EXCEPT ![s].granted = NoInvoice]
  /\ UNCHANGED <<credit, grants, customer, recorder>>

(* The process of the pass dies. *)
PassDies(s) ==
  /\ settle[s] # [todo |-> {}, granted |-> NoInvoice]
  /\ unstamped' = unstamped \cup ({settle[s].granted} \ {NoInvoice})
  /\ settle' = [settle EXCEPT ![s] = [todo |-> {}, granted |-> NoInvoice]]
  /\ UNCHANGED <<credit, grants, customer, recorder>>

(* ensureCustomer: the referrer subscribes. *)
BecomeCustomer ==
  /\ ~customer
  /\ customer' = TRUE
  /\ UNCHANGED <<credit, grants, recorder, settle, unstamped>>

ReferralNext ==
  \/ \E d \in Recorders : (\E i \in Invoices : Count(d, i)) \/ InsertCredit(d)
  \/ \E s \in Passes :
       \/ \E i \in Invoices : Grant(s, i) \/ GrantFails(s, i)
       \/ StartPass(s) \/ Stamp(s) \/ StampFails(s) \/ PassDies(s)
  \/ BecomeCustomer

ReferralSpec == ReferralInit /\ [][ReferralNext]_referralVars

-----------------------------------------------------------------------------
(* Properties *)

ReferralTypeOK ==
  /\ credit \in [Invoices -> {"none", "pending", "applied"}]
  /\ grants \in [Invoices -> 0..MaxGrants]
  /\ recorder \in [Recorders -> Invoices \cup {NoInvoice}]
  /\ settle \in [Passes -> [todo : SUBSET Invoices, granted : Invoices \cup {NoInvoice}]]
  /\ unstamped \subseteq Invoices

(* Each delivery counts first and inserts later.  Deliveries that overlap may
   pass the cap, each of them but one by a single credit: never by more. *)
CreditsNearCap == Cardinality(Credits) <= CreditCap + Cardinality(Recorders) - 1

(* A credit is granted once: only one that a pass granted and could not stamp,
   or that two passes listed, is granted again by a later pass ("stamps the row
   with the transaction id so the next pass skips it").  None is stamped
   without a grant, nor granted without a row. *)
GrantedOnce ==
  \A i \in Invoices :
    /\ i \notin unstamped => grants[i] <= 1
    /\ credit[i] = "applied" => grants[i] >= 1
    /\ credit[i] = "none" => grants[i] = 0

=============================================================================
