---------------------------- MODULE LoopDetector ----------------------------
(***************************************************************************)
(* The loop check of chat completions                                      *)
(* (apps/gateway/src/loop-detector.ts): identical requests of one project, *)
(* counted over a window in the process and, across processes, in the      *)
(* table loop_events by a transaction that inserts, sweeps and counts.     *)
(* One fingerprint is modelled: others share nothing with it.  The         *)
(* transaction runs at READ COMMITTED; its cutoffs come from the clock of  *)
(* the process, read before it begins.  Ages are in ticks.                 *)
(***************************************************************************)
EXTENDS Integers, FiniteSets, Functions

CONSTANTS
  LoopCalls,   \* identical requests that may be checked together
  Threshold,   \* matches that make a loop
  Window,      \* windowMs, in ticks
  Keep,        \* what the sweep spares: max(12 windows, 24 hours), in ticks
  MaxCheck,    \* bound: ticks a transaction may take
  MaxRows      \* bound: rows of the fingerprint

ASSUME LoopAssumption ==
  /\ Threshold \in Nat \ {0} /\ Window \in Nat /\ Keep \in Nat /\ Window + MaxCheck <= Keep
  /\ MaxCheck \in Nat /\ MaxRows \in Nat /\ IsFiniteSet(LoopCalls)

Ages == 0..Keep+MaxCheck

VARIABLES
  rows,     \* committed rows of loop_events, how many of each age
  recent,   \* the same of the process's own window
  check     \* each request: where it is, the age of its clock reading, what it saw

loopVars == <<rows, recent, check>>

NoCheck == [at |-> "idle", age |-> 0, earlier |-> 0, detected |-> FALSE]

LoopInit ==
  /\ rows = [a \in Ages |-> 0]
  /\ recent = [a \in 0..Window |-> 0]
  /\ check = [c \in LoopCalls |-> NoCheck]

CountIn(ages) == FoldFunctionOnSet(+, 0, rows, ages)
(* Rows that are at most that old. *)
CountUpTo(age) == CountIn({a \in Ages : a <= age})
Recent == FoldFunction(+, 0, recent)
UnderWay == {c \in LoopCalls : check[c].at \in {"begun", "inserted"}}

-----------------------------------------------------------------------------

(* LoopDetector.recordAndCheck, then recordDurableLoopAndCheck reads the
   clock.  Ages leave "recent" as they leave the window, so neither the filter
   nor the sweep of abandoned fingerprints shows. *)
BeginCheck(c) ==
  /\ check[c].at = "idle" /\ CountUpTo(Keep + MaxCheck) + Cardinality(UnderWay) < MaxRows /\ Recent < MaxRows
  /\ recent' = [recent EXCEPT ![0] = @ + 1]
  /\ check' = [check EXCEPT ![c] = [at |-> "begun", age |-> 0, earlier |-> CountUpTo(Window),
                                    detected |-> Recent + 1 >= Threshold]]
  /\ UNCHANGED rows

(* INSERT: no other transaction sees it before the commit. *)
InsertEvent(c) ==
  /\ check[c].at = "begun"
  /\ check' = [check EXCEPT ![c].at = "inserted"]
  /\ UNCHANGED <<rows, recent>>

(* Mutant: the sweep starts where the window ends. *)
SweptShort(age) == {a \in Ages : a > age + Window}

(* The rows the DELETE of a transaction takes with it. *)
Swept(age) == {a \in Ages : a > age + Keep}

(* DELETE, SELECT COUNT, COMMIT: the count sees what was committed before it,
   less what this transaction deleted, and its own row. *)
CountEvents(c) ==
  LET cutoff == check[c].age + Window
      seen == CountIn({a \in Ages \ Swept(check[c].age) : a <= cutoff}) + 1
  IN
  /\ check[c].at = "inserted"
  /\ check' = [check EXCEPT ![c].at = "decided", ![c].detected = seen >= Threshold]
  /\ rows' = [a \in Ages |->
       (IF a \in Swept(check[c].age) THEN 0 ELSE rows[a]) + (IF a = check[c].age THEN 1 ELSE 0)]
  /\ UNCHANGED recent

(* The database fails: the verdict of the process's own window stands. *)
FallBack(c) ==
  /\ check[c].at \in {"begun", "inserted"}
  /\ check' = [check EXCEPT ![c].at = "fellback"]
  /\ UNCHANGED <<rows, recent>>

(* The request goes on, or is refused. *)
LoopAnswered(c) ==
  /\ check[c].at \in {"decided", "fellback"}
  /\ check' = [check EXCEPT ![c] = NoCheck]
  /\ UNCHANGED <<rows, recent>>

LoopTick ==
  /\ \A c \in UnderWay : check[c].age < MaxCheck
  /\ rows' = [a \in Ages |-> IF a = 0 THEN 0 ELSE rows[a - 1]]
  /\ recent' = [a \in 0..Window |-> IF a = 0 THEN 0 ELSE recent[a - 1]]
  /\ check' = [c \in LoopCalls |-> IF c \in UnderWay THEN [check[c] EXCEPT !.age = @ + 1] ELSE check[c]]

LoopNext ==
  \/ \E c \in LoopCalls : BeginCheck(c) \/ InsertEvent(c) \/ CountEvents(c) \/ FallBack(c) \/ LoopAnswered(c)
  \/ LoopTick

LoopSpec == LoopInit /\ [][LoopNext]_loopVars

-----------------------------------------------------------------------------
(* Properties *)

LoopTypeOK ==
  /\ rows \in [Ages -> 0..MaxRows]
  /\ recent \in [0..Window -> 0..MaxRows]
  /\ check \in [LoopCalls -> [at : {"idle", "begun", "inserted", "decided", "fellback"},
                              age : 0..MaxCheck, earlier : 0..MaxRows, detected : BOOLEAN]]

(* Transactions that overlap do not see each other's rows, and each deletes
   old rows by its own clock.  Still none misses what was over before it
   began: with Threshold - 1 identical requests recorded in the window by
   then, it calls a loop, whatever overlaps it and however long it takes. *)
LoopSeen ==
  \A c \in LoopCalls :
    check[c].at = "decided" /\ check[c].earlier >= Threshold - 1 => check[c].detected

=============================================================================
