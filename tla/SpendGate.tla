----------------------------- MODULE SpendGate -----------------------------
(***************************************************************************)
(* What the two reservation gates of the gateway (project budgets and plan *)
(* tiers) promise, without locks, statements or transactions.              *)
(*                                                                         *)
(* A request is admitted against several caps at once.  Admission promises *)
(* a worst-case weight on every cap; the promise is held until it is freed *)
(* (released or expired), and the real charge lands on the ledger when the *)
(* request settles.  The gate's view of the ledger may be older than its   *)
(* decision: an attempt first observes the charges of each cap and decides *)
(* later.  Its view of the promises is never old: two admissions can not   *)
(* be granted the same headroom.                                           *)
(***************************************************************************)
EXTENDS Integers, FiniteSets, Functions

CONSTANTS
  Requests,   \* the calls that ask for admission
  Caps,       \* the limits one admission is checked against
  Weights,    \* possible worst-case amounts of a promise, per cap
  Charges,    \* possible amounts of a charge, per cap
  Limits      \* possible values of a limit

VARIABLES
  limit,      \* the limit of each cap
  promise,    \* what each request was promised, per cap
  charge,     \* what each request was charged, per cap
  held,       \* the requests whose promise counts against a cap
  spent,      \* the requests whose charge counts against a cap
  looked      \* the charges an undecided attempt has counted, per cap

vars == <<limit, promise, charge, held, spent, looked>>

-----------------------------------------------------------------------------

(* The sum of one cap's column of f over the requests of S. *)
Total(f, cap, S) == FoldFunctionOnSet(+, 0, [q \in S |-> f[q][cap]], S)

Nothing == [cap \in Caps |-> {}]
Zero == [cap \in Caps |-> 0]

Init ==
  /\ limit \in [Caps -> Limits]
  /\ promise = [r \in Requests |-> Zero]
  /\ charge = [r \in Requests |-> Zero]
  /\ held = Nothing
  /\ spent = Nothing
  /\ looked = [r \in Requests |-> Nothing]

(* At least the charges the cap counts now; one that aged out since the
   attempt began may still be among them. *)
Observe(r, cap) ==
  /\ \E seen \in SUBSET Requests :
       /\ spent[cap] \subseteq seen
       /\ looked' = [looked EXCEPT ![r][cap] = seen]
  /\ UNCHANGED <<limit, promise, charge, held, spent>>

Abandon(r) ==
  /\ looked' = [looked EXCEPT ![r] = Nothing]
  /\ UNCHANGED <<limit, promise, charge, held, spent>>

(* Headroom is granted against every charge the attempt observed and every
   other promise held at this very moment. *)
Admit(r) ==
  /\ promise[r] = Zero
  /\ \E w \in [Caps -> Weights] :
       /\ \A cap \in Caps :
            Total(charge, cap, looked[r][cap]) + Total(promise, cap, held[cap])
              + w[cap] <= limit[cap]
       /\ promise' = [promise EXCEPT ![r] = w]
  /\ held' = [cap \in Caps |-> held[cap] \cup {r}]
  /\ looked' = [looked EXCEPT ![r] = Nothing]
  /\ UNCHANGED <<limit, charge, spent>>

Settle(r) ==
  /\ \A cap \in Caps : r \notin spent[cap]
  /\ \E c \in [Caps -> Charges] : charge' = [charge EXCEPT ![r] = c]
  /\ spent' = [cap \in Caps |-> spent[cap] \cup {r}]
  /\ UNCHANGED <<limit, promise, held, looked>>

(* A promise stops counting: released row by row, or expired at once. *)
Free(r) ==
  /\ \E gone \in SUBSET Caps :
       held' = [cap \in Caps |-> IF cap \in gone THEN held[cap] \ {r}
                                                 ELSE held[cap]]
  /\ UNCHANGED <<limit, promise, charge, spent, looked>>

(* Charges age out of the window a cap sums over. *)
Forget(cap) ==
  /\ \E kept \in SUBSET spent[cap] : spent' = [spent EXCEPT ![cap] = kept]
  /\ UNCHANGED <<limit, promise, charge, held, looked>>

ChangeLimit(cap) ==
  /\ \E l \in Limits : limit' = [limit EXCEPT ![cap] = l]
  /\ UNCHANGED <<promise, charge, held, spent, looked>>

Next ==
  \/ \E r \in Requests : Abandon(r) \/ Admit(r) \/ Settle(r) \/ Free(r)
  \/ \E r \in Requests, cap \in Caps : Observe(r, cap)
  \/ \E cap \in Caps : Forget(cap) \/ ChangeLimit(cap)

Spec == Init /\ [][Next]_vars

=============================================================================
