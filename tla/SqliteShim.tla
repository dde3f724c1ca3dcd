----------------------------- MODULE SqliteShim -----------------------------
(***************************************************************************)
(* The SQLite backend of the gateway (apps/gateway/src/sql-driver.ts): all *)
(* requests share one connection.  A statement runs at once but its caller *)
(* resumes later, and begin() brackets the callback's awaits with BEGIN    *)
(* and COMMIT or ROLLBACK, so statements of other requests fall inside the *)
(* bracket.  A request runs a transaction of two writes, or one write.     *)
(***************************************************************************)
EXTENDS Integers

CONSTANTS SqlCalls   \* requests that use the connection

Writes == SqlCalls \X {1, 2}
Nobody == "nobody"

ASSUME NobodyAssumption == Nobody \notin SqlCalls

VARIABLES
  holder,   \* the request whose BEGIN is open
  open,     \* writes of the open transaction, whoever made them
  durable,  \* committed writes
  sqlCall,  \* each request: where it is, and what became of its transaction
  bracketed \* requests whose plain write fell into another's transaction

shimVars == <<holder, open, durable, sqlCall, bracketed>>

ShimInit ==
  /\ holder = Nobody
  /\ open = {}
  /\ durable = {}
  /\ sqlCall = [c \in SqlCalls |-> "idle"]
  /\ bracketed = {}

Go(c, from, to) == sqlCall[c] = from /\ sqlCall' = [sqlCall EXCEPT ![c] = to]

(* A write goes where the connection is: in the open transaction, or straight
   to disk. *)
Write(w) ==
  IF holder = Nobody THEN durable' = durable \cup {w} /\ open' = open
  ELSE open' = open \cup {w} /\ durable' = durable

(* A plain statement, acknowledged to its caller. *)
PlainWrite(c) ==
  /\ Go(c, "idle", "written")
  /\ Write(<<c, 1>>)
  /\ bracketed' = IF holder = Nobody THEN bracketed ELSE bracketed \cup {c}
  /\ UNCHANGED holder

(* begin *)
Begin(c) ==
  /\ holder = Nobody
  /\ Go(c, "idle", "begun")
  /\ holder' = c
  /\ UNCHANGED <<open, durable, bracketed>>

(* Mutant: a failed BEGIN is rolled back too. *)
BeginFailsLoudly(c) ==
  /\ holder # Nobody
  /\ Go(c, "idle", "refused")
  /\ holder' = Nobody /\ open' = {}
  /\ UNCHANGED <<durable, bracketed>>

(* BEGIN within a transaction is an error, and it is outside the try, so
   nothing is rolled back. *)
BeginFails(c) ==
  /\ holder # Nobody
  /\ Go(c, "idle", "refused")
  /\ UNCHANGED <<holder, open, durable, bracketed>>

TxWrite(c, i) ==
  /\ IF i = 1 THEN Go(c, "begun", "first") ELSE Go(c, "first", "second")
  /\ Write(<<c, i>>)
  /\ UNCHANGED <<holder, bracketed>>

CommitTx(c) ==
  /\ Go(c, "second", "committed")
  /\ durable' = durable \cup open
  /\ open' = {} /\ holder' = Nobody
  /\ UNCHANGED bracketed

(* The callback throws. *)
RollbackTx(c) ==
  /\ \E at \in {"begun", "first", "second"} : Go(c, at, "rolledback")
  /\ open' = {} /\ holder' = Nobody
  /\ UNCHANGED <<durable, bracketed>>

ShimNext ==
  \E c \in SqlCalls :
    PlainWrite(c) \/ Begin(c) \/ BeginFails(c) \/ CommitTx(c) \/ RollbackTx(c)
      \/ \E i \in {1, 2} : TxWrite(c, i)

ShimSpec == ShimInit /\ [][ShimNext]_shimVars

-----------------------------------------------------------------------------
(* Properties *)

ShimTypeOK ==
  /\ holder \in SqlCalls \cup {Nobody}
  /\ open \subseteq Writes /\ durable \subseteq Writes
  /\ sqlCall \in [SqlCalls -> {"idle", "written", "begun", "first", "second", "committed", "rolledback", "refused"}]
  /\ bracketed \subseteq SqlCalls

(* On one connection a transaction is still all or nothing: what it wrote is
   durable when it has committed and not before, whatever other requests run
   or fail to begin inside it; and a write outside transactions is durable
   unless it fell into somebody else's, which may take it along. *)
SharedConnectionIsAtomic ==
  \A c \in SqlCalls :
    /\ sqlCall[c] = "committed" => {<<c, 1>>, <<c, 2>>} \subseteq durable
    /\ sqlCall[c] \in {"begun", "first", "second", "rolledback", "refused"} =>
         {<<c, 1>>, <<c, 2>>} \cap durable = {}
    /\ sqlCall[c] = "written" /\ c \notin bracketed => <<c, 1>> \in durable

=============================================================================
