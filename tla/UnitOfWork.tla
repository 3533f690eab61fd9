----------------------------- MODULE UnitOfWork -----------------------------
(***************************************************************************)
(* pkg/persistence/unit_of_work.go: Execute runs a service's function in a *)
(* transaction that travels in the context, and DB picks it out for the    *)
(* repositories.  A function may call Execute again: every Execute begins  *)
(* a transaction of its own on the pool.  The transactions (gorm,          *)
(* database/sql, Postgres) are modelled from the way the code uses them.   *)
(***************************************************************************)
EXTENDS Integers, FiniteSets

CONSTANTS Worker,         \* goroutines that serve requests
          MaxDepth,       \* how deep units nest
          Row, RowsAt,    \* rows, and those each worker writes at each depth (0: in no unit)
          MaxConns,       \* size of the connection pool
          MaxFaults,      \* bound on failing calls, cancellations, crashes, slips
          Nobody, Base    \* no writer; the connection outside of transactions

Depth == 1 .. MaxDepth

Unit == Worker \X Depth   \* each worker opens at most one unit at each depth

ASSUME UnitAssumption ==
    /\ {MaxDepth, MaxConns} \subseteq Nat \ {0}
    /\ MaxFaults \in Nat
    /\ Row \subseteq Nat
    /\ RowsAt \in [Worker \X (0 .. MaxDepth) -> SUBSET Row]
    /\ Base \notin Unit

VARIABLES
    data,                 \* who wrote what each row shows
    tx, wrote,            \* each unit's transaction, and its writes
    calls,                \* the writes a unit's function tried
    answer,               \* what Execute returned
    pc, depth,            \* what a worker does, in how many units
    want,                 \* the statement in hand: row and context
    verdict,              \* how the function in hand ended
    cancelled,            \* the request's context has ended
    faults                \* failures that may still happen

database == <<data, tx, wrote>>
workers == <<pc, depth, want, verdict, cancelled>>
vars == <<database, calls, answer, workers, faults>>

NoStatement == [row |-> Nobody, ctx |-> Base]

Init == /\ data = [r \in Row |-> Nobody]
        /\ tx = [u \in Unit |-> "none"]
        /\ wrote = [u \in Unit |-> {}]
        /\ calls = [u \in Unit |-> [r \in Row |-> "untried"]]
        /\ answer = [u \in Unit |-> "none"]
        /\ pc = [w \in Worker |-> "run"]
        /\ depth = [w \in Worker |-> 0]
        /\ want = [w \in Worker |-> NoStatement]
        /\ verdict = [w \in Worker |-> "ok"]
        /\ cancelled = [w \in Worker |-> FALSE]
        /\ faults = MaxFaults

-----------------------------------------------------------------------------
(* Connections and contexts.                                               *)

Goto(w, label) == pc' = [pc EXCEPT ![w] = label]

Fault == faults > 0 /\ faults' = faults - 1

Top(w) == <<w, depth[w]>>

(* Transactions that hold a connection; a failed one awaits its rollback. *)
Open == {u \in Unit : tx[u] \in {"open", "failed"}}

FreeConn == Cardinality(Open) < MaxConns

Holders(r) == {u \in Open : r \in wrote[u]}

(* The transaction that the context of a unit's function carries.          *)
(* Variant: the one of the outermost unit is kept.                         *)
WithTx_Outer(w, d) == <<w, 1>>

WithTx(w, d) == <<w, d>>

(* The connection a repository gets for a context.                         *)
DB(ctx) == IF ctx \in Unit THEN ctx ELSE Base

-----------------------------------------------------------------------------
(* Execute: begin, run the function, end.                                  *)

Execute(w) ==
    /\ pc[w] = "run"
    /\ depth[w] < MaxDepth
    /\ <<answer[<<w, depth[w] + 1>>], tx[<<w, depth[w] + 1>>]>> = <<"none", "none">>
    /\ depth' = [depth EXCEPT ![w] = @ + 1]
    /\ Goto(w, "begin")
    /\ UNCHANGED <<database, calls, answer, want, verdict, cancelled, faults>>

Begin(w) == /\ pc[w] = "begin" /\ ~cancelled[w]
            /\ FreeConn
            /\ tx' = [tx EXCEPT ![Top(w)] = "open"]
            /\ Goto(w, "run")
            /\ UNCHANGED <<data, wrote, calls, answer, depth, want, verdict, cancelled, faults>>

(* Execute answers; a panic goes on to the function that called it. *)
Leave(w, a) ==
    /\ answer' = [answer EXCEPT ![Top(w)] = a]
    /\ depth' = [depth EXCEPT ![w] = @ - 1]
    /\ IF a = "panic" /\ depth[w] > 1
       THEN Goto(w, "end") /\ UNCHANGED verdict
       ELSE Goto(w, "run") /\ verdict' = [verdict EXCEPT ![w] = "ok"]

BeginFails(w) == /\ pc[w] = "begin"
                 /\ IF cancelled[w] THEN UNCHANGED faults ELSE Fault
                 /\ Leave(w, "error")
                 /\ UNCHANGED <<database, calls, want, cancelled>>

(* The function returns nil, an error it met or not, or panics. *)
Return(w) == /\ pc[w] = "run" /\ depth[w] > 0
             /\ \E v \in {"ok", "error", "panic"} : verdict' = [verdict EXCEPT ![w] = v]
             /\ Goto(w, "end")
             /\ UNCHANGED <<database, calls, answer, depth, want, cancelled, faults>>

Committed(w) ==
    /\ tx' = [tx EXCEPT ![Top(w)] = "committed"]
    /\ data' = [r \in Row |-> IF r \in wrote[Top(w)] THEN Top(w) ELSE data[r]]

Undone(w) == tx' = [tx EXCEPT ![Top(w)] = "undone"] /\ UNCHANGED data

Ends(w) == /\ pc[w] = "end"
           /\ UNCHANGED <<wrote, calls, want, cancelled>>

Commit(w) == /\ Ends(w) /\ verdict[w] = "ok"
             /\ tx[Top(w)] = "open" /\ ~cancelled[w]
             /\ Committed(w)
             /\ Leave(w, "ok")
             /\ UNCHANGED faults

(* The transaction failed or was rolled back under the function. *)
CommitRefused(w) == /\ Ends(w) /\ verdict[w] = "ok"
                    /\ tx[Top(w)] # "open" \/ cancelled[w]
                    /\ Undone(w)
                    /\ Leave(w, "error")
                    /\ UNCHANGED faults

CommitUnanswered(w) == /\ Ends(w) /\ verdict[w] = "ok"
                       /\ tx[Top(w)] = "open" /\ ~cancelled[w]
                       /\ Committed(w) \/ Undone(w)
                       /\ Leave(w, "unknown")
                       /\ Fault

(* Variants: the function's error is dropped, and a panic skips the rollback. *)
Rollback_Commits(w) == /\ Ends(w) /\ verdict[w] # "ok"
                       /\ IF tx[Top(w)] = "open" THEN Committed(w) ELSE Undone(w)
                       /\ Leave(w, verdict[w])
                       /\ UNCHANGED faults

Rollback_NotOnPanic(w) ==
    /\ Ends(w) /\ verdict[w] # "ok"
    /\ IF verdict[w] = "panic" THEN UNCHANGED <<data, tx>> ELSE Undone(w)
    /\ Leave(w, verdict[w])
    /\ UNCHANGED faults

Rollback(w) == /\ Ends(w) /\ verdict[w] # "ok"
               /\ Undone(w)
               /\ Leave(w, verdict[w])
               /\ UNCHANGED faults

-----------------------------------------------------------------------------
(* A repository's write with a context.  Functions write their rows in one *)
(* order, so that transactions do not wait for each other in a circle.     *)

Call(w, r, ctx) == /\ pc[w] = "run"
                   /\ want' = [want EXCEPT ![w] = [row |-> r, ctx |-> ctx]]
                   /\ Goto(w, "statement")
                   /\ UNCHANGED <<database, calls, answer, depth, verdict, cancelled>>

CallInUnit(w) ==
    /\ depth[w] > 0
    /\ LET untried == {r \in RowsAt[Top(w)] : calls[Top(w)][r] = "untried"}
       IN  \E r \in untried : /\ \A s \in untried : r <= s
                              /\ Call(w, r, WithTx(w, depth[w]))
    /\ UNCHANGED faults

CallOutside(w) == /\ depth[w] = 0
                  /\ \E r \in RowsAt[Top(w)] : Call(w, r, Base)
                  /\ UNCHANGED faults

(* A context that outlived its unit. *)
CallTooLate(w) == /\ depth[w] < MaxDepth /\ answer[<<w, depth[w] + 1>>] # "none"
                  /\ \E r \in RowsAt[<<w, depth[w] + 1>>] : Call(w, r, WithTx(w, depth[w] + 1))
                  /\ Fault

(* The function is told how the statement went. *)
Told(w, result) ==
    /\ calls' = IF depth[w] > 0 /\ want[w].ctx = WithTx(w, depth[w])
                THEN [calls EXCEPT ![Top(w)][want[w].row] = result] ELSE calls
    /\ want' = [want EXCEPT ![w] = NoStatement]
    /\ Goto(w, "run")
    /\ UNCHANGED <<answer, depth, verdict, cancelled>>

Statement(w) ==
    LET conn == DB(want[w].ctx)
        r == want[w].row
    IN  /\ pc[w] = "statement" /\ ~cancelled[w]
        /\ Holders(r) \subseteq {conn}
        /\ IF conn = Base
           THEN FreeConn /\ data' = [data EXCEPT ![r] = Base] /\ UNCHANGED wrote
           ELSE /\ tx[conn] = "open"
                /\ wrote' = [wrote EXCEPT ![conn] = @ \cup {r}]
                /\ UNCHANGED data
        /\ Told(w, "done")
        /\ UNCHANGED <<tx, faults>>

(* An ended or failed transaction, or an ended context, takes no statement. *)
StatementRefused(w) ==
    /\ pc[w] = "statement"
    /\ cancelled[w] \/ (DB(want[w].ctx) # Base /\ tx[DB(want[w].ctx)] # "open")
    /\ Told(w, "failed")
    /\ UNCHANGED <<database, faults>>

(* A statement that fails spoils its transaction. *)
StatementFails(w) ==
    LET conn == DB(want[w].ctx)
    IN  /\ pc[w] = "statement"
        /\ conn # Base => tx[conn] = "open"
        /\ Fault
        /\ tx' = IF conn = Base THEN tx ELSE [tx EXCEPT ![conn] = "failed"]
        /\ Told(w, "failed")
        /\ UNCHANGED <<data, wrote>>

-----------------------------------------------------------------------------
(* The surroundings.                                                       *)

Cancel(w) == /\ depth[w] > 0 /\ ~cancelled[w]
             /\ Fault
             /\ cancelled' = [cancelled EXCEPT ![w] = TRUE]
             /\ UNCHANGED <<database, calls, answer, pc, depth, want, verdict>>

(* The pool rolls back the transactions of a context that ended. *)
CancelledUndone(u) == /\ cancelled[u[1]] /\ u \in Open
                      /\ tx' = [tx EXCEPT ![u] = "undone"]
                      /\ UNCHANGED <<data, wrote, calls, answer, workers, faults>>

(* The process stops; after its restart the workers serve new requests. *)
Crash == /\ Fault
         /\ tx' = [u \in Unit |-> IF u \in Open THEN "undone" ELSE tx[u]]
         /\ pc' = [w \in Worker |-> "run"]
         /\ depth' = [w \in Worker |-> 0]
         /\ want' = [w \in Worker |-> NoStatement]
         /\ verdict' = [w \in Worker |-> "ok"]
         /\ cancelled' = [w \in Worker |-> FALSE]
         /\ UNCHANGED <<data, wrote, calls, answer>>

-----------------------------------------------------------------------------
Step(w) == \/ Execute(w) \/ Begin(w) \/ BeginFails(w)
           \/ Return(w) \/ Commit(w) \/ CommitRefused(w) \/ CommitUnanswered(w)
           \/ Rollback(w)
           \/ CallInUnit(w) \/ CallOutside(w) \/ CallTooLate(w)
           \/ Statement(w) \/ StatementRefused(w) \/ StatementFails(w)

Next == \/ \E w \in Worker : Step(w) \/ Cancel(w)
        \/ \E u \in Unit : CancelledUndone(u)
        \/ Crash

Spec == Init /\ [][Next]_vars

(* A goroutine that can run does. *)
FairSpec == Spec /\ \A w \in Worker : WF_vars(Step(w))

-----------------------------------------------------------------------------
(* Properties.                                                             *)

(* The values the variables range over. *)
TypeOK ==
    /\ data \in [Row -> Unit \cup {Nobody, Base}]
    /\ tx \in [Unit -> {"none", "open", "failed", "committed", "undone"}]
    /\ wrote \in [Unit -> SUBSET Row]
    /\ calls \in [Unit -> [Row -> {"untried", "done", "failed"}]]
    /\ answer \in [Unit -> {"none", "ok", "error", "panic", "unknown"}]
    /\ pc \in [Worker -> {"run", "begin", "statement", "end"}]
    /\ depth \in [Worker -> 0 .. MaxDepth]
    /\ want \in [Worker -> [row : Row \cup {Nobody}, ctx : Unit \cup {Base}]]
    /\ verdict \in [Worker -> {"ok", "error", "panic"}]
    /\ cancelled \in [Worker -> BOOLEAN]
    /\ faults \in 0 .. MaxFaults

Done(u) == {r \in Row : calls[u][r] = "done"}

(* Execute answers nil only if every write its function tried is in the    *)
(* transaction that was committed, even if the function swallowed the      *)
(* error of one, or nested another unit (Execute, withTx, DB).             *)
SuccessIsWhole ==
    \A u \in Unit : answer[u] = "ok" =>
        /\ tx[u] = "committed"
        /\ \A r \in Row : calls[u][r] # "failed"
        /\ wrote[u] = Done(u)

(* Every unit implements the atomic one: its writes show all at once, only *)
(* with its success, a nested one's with its own (Execute).                *)
Units == INSTANCE AtomicUnits WITH asked <- [u \in Unit |-> Done(u)]

UnitsAreAtomic == Units!Spec

(* Every Execute returns, while the pool holds the connections that nested *)
(* units may ask for and nested functions write rows of their own.         *)
EveryUnitEnds == \A w \in Worker : depth[w] > 0 ~> depth[w] = 0
=============================================================================
