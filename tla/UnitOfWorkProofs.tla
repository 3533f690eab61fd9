-------------------------- MODULE UnitOfWorkProofs --------------------------
(***************************************************************************)
(* What UnitOfWork guarantees for any workers, depth of nesting, rows and  *)
(* size of the pool.                                                       *)
(***************************************************************************)
EXTENDS UnitOfWork, TLAPS

(* What one unit guarantees at any time: its transaction holds what its    *)
(* function was told it wrote; a function that met a failure has no        *)
(* transaction that can commit; nothing is tried before the transaction    *)
(* begins, none is left open after the answer, and success is whole.       *)
UnitIsSound(u) ==
    /\ wrote[u] = Done(u)
    /\ (\E r \in Row : calls[u][r] = "failed") =>
           tx[u] \in {"failed", "undone"} \/ (tx[u] = "open" /\ cancelled[u[1]])
    /\ tx[u] = "none" => \A r \in Row : calls[u][r] = "untried"
    /\ answer[u] # "none" => tx[u] \in {"none", "committed", "undone"}
    /\ answer[u] = "ok" => tx[u] = "committed"

(* The units a worker is in were not answered, and only one that begins    *)
(* has no transaction.                                                     *)
StackIsOpen(w) ==
    /\ pc[w] \in {"begin", "end"} => depth[w] > 0
    /\ \A d \in 1 .. depth[w] :
          /\ answer[<<w, d>>] = "none"
          /\ IF d = depth[w] /\ pc[w] = "begin"
             THEN tx[<<w, d>>] = "none"
             ELSE tx[<<w, d>>] \in {"open", "failed", "undone"}

(* A statement is the first try of the function in hand, is outside of     *)
(* units, or comes after its unit was answered.                            *)
StatementIsOwn(w) ==
    pc[w] = "statement" =>
        /\ want[w].row \in Row
        /\ \/ /\ depth[w] > 0 /\ want[w].ctx = <<w, depth[w]>>
              /\ calls[<<w, depth[w]>>][want[w].row] = "untried"
           \/ depth[w] = 0 /\ want[w].ctx = Base
           \/ /\ depth[w] < MaxDepth /\ want[w].ctx = <<w, depth[w] + 1>>
              /\ answer[<<w, depth[w] + 1>>] # "none"

(* The strengthening: success is whole because a transaction that can      *)
(* still commit holds all that its function tried.                         *)
IInv == /\ TypeOK
        /\ \A u \in Unit : UnitIsSound(u)
        /\ \A w \in Worker : StackIsOpen(w) /\ StatementIsOwn(w)

(* At first nothing was tried and no unit is open. *)
LEMMA InitIsSound == Init => IInv
BY UnitAssumption
   DEF Init, IInv, TypeOK, UnitIsSound, StackIsOpen, StatementIsOwn, Done, NoStatement,
       Unit, Depth

(* The unit a worker is in, if any, is a unit of its own. *)
LEMMA TopIsUnit ==
    ASSUME TypeOK, NEW w \in Worker, depth[w] > 0
    PROVE  /\ Top(w) \in Unit /\ Top(w)[1] = w /\ Top(w) # Base
           /\ \A v \in Worker : v # w => Top(v) # Top(w)
BY UnitAssumption DEF TypeOK, Top, Unit, Depth

(* A unit that a step leaves alone stays sound. *)
LEMMA OtherUnitsStaySound ==
    ASSUME NEW u \in Unit, UnitIsSound(u),
           /\ tx'[u] = tx[u] /\ wrote'[u] = wrote[u]
           /\ calls'[u] = calls[u] /\ answer'[u] = answer[u],
           cancelled[u[1]] => cancelled'[u[1]] \/ tx[u] # "open"
    PROVE  UnitIsSound(u)'
BY DEF UnitIsSound, Done

(* A worker stays sound whose units a step leaves alone. *)
LEMMA OtherWorkersStaySound ==
    ASSUME TypeOK, NEW v \in Worker, StackIsOpen(v), StatementIsOwn(v),
           pc'[v] = pc[v] /\ depth'[v] = depth[v] /\ want'[v] = want[v],
           \A d \in Depth : /\ tx'[<<v, d>>] = tx[<<v, d>>]
                            /\ calls'[<<v, d>>] = calls[<<v, d>>]
                            /\ answer'[<<v, d>>] = answer[<<v, d>>]
    PROVE  StackIsOpen(v)' /\ StatementIsOwn(v)'
<1>1. depth[v] \in 0 .. MaxDepth
  BY DEF TypeOK
<1>2. StackIsOpen(v)'
  <2>1. \A d \in 1 .. depth[v] : d \in Depth
    BY <1>1, UnitAssumption DEF Depth
  <2> QED BY <2>1 DEF StackIsOpen
<1>3. StatementIsOwn(v)'
  <2>1. /\ depth[v] > 0 => depth[v] \in Depth
        /\ depth[v] < MaxDepth => depth[v] + 1 \in Depth
    BY <1>1, UnitAssumption DEF Depth
  <2> QED BY <2>1 DEF StatementIsOwn
<1> QED BY <1>2, <1>3

(* Steps of the function between its statements. *)
LEMMA ControlKeepsIInv ==
    ASSUME IInv, NEW w \in Worker,
           Execute(w) \/ Return(w) \/ Cancel(w)
                \/ CallInUnit(w) \/ CallOutside(w) \/ CallTooLate(w)
    PROVE  IInv'
<1>1. /\ UNCHANGED <<data, tx, wrote, calls, answer>>
      /\ \A v \in Worker : cancelled[v] => cancelled'[v]
  BY DEF Execute, Return, Cancel, CallInUnit, CallOutside, CallTooLate, Call, database,
     IInv, TypeOK
<1>2. ASSUME NEW u \in Unit PROVE UnitIsSound(u)'
  <2>1. u[1] \in Worker
    BY DEF Unit
  <2> QED BY <1>1, <2>1, OtherUnitsStaySound DEF IInv
<1>3. TypeOK'
  <2> USE <1>1, UnitAssumption DEF IInv, TypeOK, Goto, Fault
  <2>1. CASE Execute(w)
    BY <2>1 DEF Execute
  <2>2. CASE Return(w)
    BY <2>2 DEF Return
  <2>3. CASE Cancel(w)
    BY <2>3 DEF Cancel
  <2>4. CASE CallInUnit(w)
    BY <2>4, TopIsUnit, UnitAssumption DEF CallInUnit, Call, WithTx, Top, Unit, Depth
  <2>5. CASE CallOutside(w)
    BY <2>5, UnitAssumption DEF CallOutside, Call, Top
  <2>6. CASE CallTooLate(w)
    BY <2>6, UnitAssumption DEF CallTooLate, Call, WithTx, Unit, Depth
  <2> QED BY <2>1, <2>2, <2>3, <2>4, <2>5, <2>6
<1>4. ASSUME NEW v \in Worker PROVE StackIsOpen(v)' /\ StatementIsOwn(v)'
  <2>1. CASE v # w
    <3>1. pc'[v] = pc[v] /\ depth'[v] = depth[v] /\ want'[v] = want[v]
      BY <2>1 DEF Execute, Return, Cancel, CallInUnit, CallOutside, CallTooLate, Call,
         Goto, IInv, TypeOK
    <3> QED BY <1>1, <3>1 DEF IInv, StackIsOpen, StatementIsOwn
  <2>2. CASE v = w /\ Execute(w)
    <3>1. /\ pc[w] = "run" /\ pc'[w] = "begin" /\ depth'[w] = depth[w] + 1
          /\ answer[<<w, depth[w] + 1>>] = "none" /\ tx[<<w, depth[w] + 1>>] = "none"
      BY <2>2 DEF Execute, Goto, IInv, TypeOK
    <3>2. depth[w] \in Nat
      BY DEF IInv, TypeOK
    <3>3. ASSUME NEW d \in 1 .. (depth[w] + 1)
          PROVE  /\ answer[<<w, d>>] = "none"
                 /\ IF d = depth[w] + 1 THEN tx[<<w, d>>] = "none"
                                        ELSE tx[<<w, d>>] \in {"open", "failed", "undone"}
      <4>1. CASE d = depth[w] + 1
        BY <3>1, <4>1
      <4>2. CASE d # depth[w] + 1
        BY <3>1, <3>2, <4>2 DEF IInv, StackIsOpen
      <4> QED BY <4>1, <4>2
    <3>4. StackIsOpen(w)'
      BY <1>1, <3>1, <3>2, <3>3 DEF StackIsOpen
    <3>5. StatementIsOwn(w)'
      BY <3>1 DEF StatementIsOwn
    <3> QED BY <2>2, <3>4, <3>5
  <2>3. CASE v = w /\ (Return(w) \/ Cancel(w))
    <3>1. /\ depth'[w] = depth[w] /\ depth[w] > 0 /\ want'[w] = want[w]
          /\ \/ pc[w] = "run" /\ pc'[w] = "end"
             \/ pc'[w] = pc[w]
      BY <2>3 DEF Return, Cancel, Goto, IInv, TypeOK
    <3> QED BY <1>1, <2>3, <3>1 DEF IInv, StackIsOpen, StatementIsOwn
  <2>4. CASE v = w /\ (CallInUnit(w) \/ CallOutside(w) \/ CallTooLate(w))
    <3>1. /\ depth'[w] = depth[w]
          /\ pc[w] = "run" /\ pc'[w] = "statement"
      BY <2>4 DEF CallInUnit, CallOutside, CallTooLate, Call, Goto, IInv, TypeOK
    <3>2. StackIsOpen(v)'
      BY <1>1, <2>4, <3>1 DEF IInv, StackIsOpen
    <3>3. StatementIsOwn(v)'
      <4> USE <1>1, <2>4, <3>1, UnitAssumption DEF StatementIsOwn, Call, WithTx, Top, IInv,
              TypeOK
      <4>1. CASE CallInUnit(w)
        BY <4>1 DEF CallInUnit, Depth
      <4>2. CASE CallOutside(w)
        BY <4>2 DEF CallOutside
      <4>3. CASE CallTooLate(w)
        BY <4>3 DEF CallTooLate
      <4> QED BY <4>1, <4>2, <4>3
    <3> QED BY <3>2, <3>3
  <2> QED BY <2>1, <2>2, <2>3, <2>4
<1> QED BY <1>2, <1>3, <1>4 DEF IInv

(* A unit gets its transaction. *)
LEMMA BeginKeepsIInv ==
    ASSUME IInv, NEW w \in Worker, Begin(w)
    PROVE  IInv'
<1>1. depth[w] \in 1 .. MaxDepth
  BY DEF IInv, TypeOK, StackIsOpen, Begin
<1>2. Top(w) \in Unit /\ \A v \in Worker : v # w => \A d \in Depth : <<v, d>> # Top(w)
  BY <1>1, TopIsUnit DEF IInv, Top
<1>3. tx[Top(w)] = "none" /\ answer[Top(w)] = "none"
  BY <1>1 DEF IInv, StackIsOpen, Begin, Top
<1>4. /\ tx' = [tx EXCEPT ![Top(w)] = "open"]
      /\ pc' = [pc EXCEPT ![w] = "run"]
      /\ UNCHANGED <<data, wrote, calls, answer, depth, want, verdict, cancelled, faults>>
  BY DEF Begin, Goto
<1>5. TypeOK'
  BY <1>4 DEF IInv, TypeOK
<1>6. ASSUME NEW u \in Unit PROVE UnitIsSound(u)'
  <2>1. CASE u = Top(w)
    BY <1>3, <1>4, <2>1 DEF IInv, TypeOK, UnitIsSound, Done
  <2>2. CASE u # Top(w)
    BY <1>4, <2>2, OtherUnitsStaySound DEF IInv, TypeOK
  <2> QED BY <2>1, <2>2
<1>7. ASSUME NEW v \in Worker PROVE StackIsOpen(v)' /\ StatementIsOwn(v)'
  <2>1. CASE v # w
    BY <1>2, <1>4, <2>1, OtherWorkersStaySound DEF IInv, TypeOK, Unit
  <2>2. CASE v = w
    <3>1. pc'[w] = "run" /\ depth'[w] = depth[w] /\ tx'[Top(w)] = "open"
      BY <1>2, <1>4 DEF IInv, TypeOK
    <3>2. \A d \in 1 .. depth[w] : d # depth[w] => <<w, d>> # Top(w)
      BY DEF Top
    <3>3. \A d \in 1 .. depth[w] : <<w, d>> # Top(w) => tx'[<<w, d>>] = tx[<<w, d>>]
      BY <1>1, <1>4, UnitAssumption DEF IInv, TypeOK, Unit, Depth
    <3>4. StackIsOpen(w)'
      BY <1>1, <1>4, <3>1, <3>2, <3>3 DEF IInv, StackIsOpen, Top, Begin
    <3> QED BY <2>2, <3>1, <3>4 DEF StatementIsOwn
  <2> QED BY <2>1, <2>2
<1> QED BY <1>5, <1>6, <1>7 DEF IInv

Ending(w) == \/ BeginFails(w) \/ Commit(w) \/ CommitRefused(w) \/ CommitUnanswered(w)
             \/ Rollback(w)

(* What a unit's last step does to it: committed with success or in doubt, *)
(* or undone, or without a transaction from the start.                     *)
LEMMA EndingIsSound ==
    ASSUME IInv, NEW w \in Worker, Ending(w)
    PROVE  /\ depth[w] \in 1 .. MaxDepth /\ Top(w) \in Unit
           /\ answer[Top(w)] = "none"
           /\ \E t \in {"none", "committed", "undone"}, a \in {"ok", "error", "panic", "unknown"} :
                 /\ tx' = [tx EXCEPT ![Top(w)] = t]
                 /\ Leave(w, a)
                 /\ a = "ok" => t = "committed"
                 /\ t = "none" => tx[Top(w)] = "none"
                 /\ t = "committed" => tx[Top(w)] = "open" /\ ~cancelled[w]
           /\ UNCHANGED <<wrote, calls, want, cancelled>>
<1>1. pc[w] \in {"begin", "end"}
  BY DEF Ending, BeginFails, Commit, CommitRefused, CommitUnanswered, Rollback, Ends
<1>2. depth[w] \in 1 .. MaxDepth
  BY <1>1 DEF IInv, TypeOK, StackIsOpen
<1>3. Top(w) \in Unit
  BY <1>2, TopIsUnit DEF IInv
<1>4. /\ answer[Top(w)] = "none"
      /\ pc[w] = "begin" => tx[Top(w)] = "none"
  BY <1>2 DEF IInv, StackIsOpen, Top
<1>5. CASE BeginFails(w)
  <2>1. tx[Top(w)] = "none" /\ UNCHANGED <<tx, wrote, calls, want, cancelled>> /\ Leave(w, "error")
    BY <1>4, <1>5 DEF BeginFails, database
  <2>2. tx' = [tx EXCEPT ![Top(w)] = "none"]
    BY <2>1 DEF IInv, TypeOK
  <2> QED BY <1>2, <1>3, <1>4, <2>1, <2>2
<1>6. CASE Commit(w)
  BY <1>2, <1>3, <1>4, <1>6 DEF Commit, Committed, Ends
<1>7. CASE CommitRefused(w)
  BY <1>2, <1>3, <1>4, <1>7 DEF CommitRefused, Undone, Ends
<1>8. CASE CommitUnanswered(w)
  BY <1>2, <1>3, <1>4, <1>8 DEF CommitUnanswered, Committed, Undone, Ends
<1>9. CASE Rollback(w)
  <2>1. verdict[w] \in {"error", "panic"}
    BY <1>9 DEF Rollback, IInv, TypeOK
  <2> QED BY <1>2, <1>3, <1>4, <1>9, <2>1 DEF Rollback, Undone, Ends
<1> QED BY <1>5, <1>6, <1>7, <1>8, <1>9 DEF Ending

(* Execute answers: its unit is closed, the others are as they were.       *)
LEMMA EndingKeepsIInv ==
    ASSUME IInv, NEW w \in Worker, Ending(w)
    PROVE  IInv'
<1>1. PICK t \in {"none", "committed", "undone"}, a \in {"ok", "error", "panic", "unknown"} :
        /\ tx' = [tx EXCEPT ![Top(w)] = t]
        /\ Leave(w, a)
        /\ a = "ok" => t = "committed"
        /\ t = "none" => tx[Top(w)] = "none"
        /\ t = "committed" => tx[Top(w)] = "open" /\ ~cancelled[w]
  BY EndingIsSound
<1>2. /\ depth[w] \in 1 .. MaxDepth /\ Top(w) \in Unit /\ Top(w)[1] = w
      /\ answer[Top(w)] = "none"
      /\ UNCHANGED <<wrote, calls, want, cancelled>>
  BY EndingIsSound DEF Top
<1>3. \A v \in Worker, d \in Depth : v # w \/ d # depth[w] => <<v, d>> # Top(w)
  BY DEF Top
<1>4. /\ answer' = [answer EXCEPT ![Top(w)] = a]
      /\ depth' = [depth EXCEPT ![w] = @ - 1]
      /\ \/ depth[w] > 1 /\ pc' = [pc EXCEPT ![w] = "end"] /\ UNCHANGED verdict
         \/ pc' = [pc EXCEPT ![w] = "run"] /\ verdict' = [verdict EXCEPT ![w] = "ok"]
  BY <1>1 DEF Leave, Goto
<1>5. TypeOK'
  <2>1. /\ tx' \in [Unit -> {"none", "open", "failed", "committed", "undone"}]
        /\ answer' \in [Unit -> {"none", "ok", "error", "panic", "unknown"}]
    <3>1. /\ t \in {"none", "open", "failed", "committed", "undone"}
          /\ a \in {"none", "ok", "error", "panic", "unknown"}
      OBVIOUS
    <3> QED BY <1>1, <1>4, <3>1 DEF IInv, TypeOK
  <2>6. /\ pc' \in [Worker -> {"run", "begin", "statement", "end"}]
        /\ verdict' \in [Worker -> {"ok", "error", "panic"}]
    BY <1>4 DEF IInv, TypeOK
  <2>7. depth' \in [Worker -> 0 .. MaxDepth]
    <3>1. depth[w] - 1 \in 0 .. MaxDepth
      BY <1>2, UnitAssumption
    <3> QED BY <1>4, <3>1 DEF IInv, TypeOK
  <2>2. faults' = faults \/ (faults > 0 /\ faults' = faults - 1)
    BY DEF Ending, BeginFails, Commit, CommitRefused, CommitUnanswered, Rollback, Fault
  <2>3. data' = data \/ data' = [r \in Row |-> IF r \in wrote[Top(w)] THEN Top(w) ELSE data[r]]
    BY DEF Ending, BeginFails, Commit, CommitRefused, CommitUnanswered, Rollback,
       Committed, Undone, database
  <2>4. faults' \in 0 .. MaxFaults
    BY <2>2, UnitAssumption DEF IInv, TypeOK
  <2>5. data' \in [Row -> Unit \cup {Nobody, Base}]
    BY <1>2, <2>3 DEF IInv, TypeOK
  <2> QED BY <1>2, <2>1, <2>4, <2>5, <2>6, <2>7 DEF IInv, TypeOK
<1>6. ASSUME NEW u \in Unit PROVE UnitIsSound(u)'
  <2>1. CASE u = Top(w)
    <3>1. tx'[u] = t /\ answer'[u] = a
      BY <1>1, <1>4, <2>1 DEF IInv, TypeOK
    <3>2. t = "committed" => \A r \in Row : calls[u][r] # "failed"
      BY <1>1, <1>2, <2>1 DEF IInv, UnitIsSound
    <3>3. (\E r \in Row : calls[u][r] = "failed") => t # "none"
      BY <1>1, <2>1 DEF IInv, UnitIsSound
    <3> QED BY <1>1, <1>2, <2>1, <3>1, <3>2, <3>3 DEF IInv, UnitIsSound, Done
  <2>2. CASE u # Top(w)
    <3>1. tx'[u] = tx[u] /\ answer'[u] = answer[u]
      BY <1>1, <1>4, <2>2 DEF IInv, TypeOK
    <3> QED BY <1>2, <3>1, OtherUnitsStaySound DEF IInv
  <2> QED BY <2>1, <2>2
<1>7. ASSUME NEW v \in Worker PROVE StackIsOpen(v)' /\ StatementIsOwn(v)'
  <2>1. \A d \in Depth : v # w \/ d # depth[w] =>
           tx'[<<v, d>>] = tx[<<v, d>>] /\ answer'[<<v, d>>] = answer[<<v, d>>]
    BY <1>1, <1>3, <1>4 DEF IInv, TypeOK, Unit
  <2>2. CASE v # w
    <3>1. pc'[v] = pc[v] /\ depth'[v] = depth[v] /\ want'[v] = want[v]
      BY <1>2, <1>4, <2>2 DEF IInv, TypeOK
    <3> QED BY <1>2, <2>1, <2>2, <3>1, OtherWorkersStaySound DEF IInv
  <2>3. CASE v = w
    <3>1. /\ depth'[w] = depth[w] - 1 /\ depth[w] \in Nat
          /\ pc'[w] \in {"run", "end"} /\ (pc'[w] = "end" => depth[w] > 1)
      BY <1>2, <1>4 DEF IInv, TypeOK
    <3>2. \A d \in 1 .. depth'[w] : d \in Depth /\ d # depth[w] /\ d \in 1 .. depth[w]
      BY <1>2, <3>1, UnitAssumption DEF Depth
    <3>3. \A d \in 1 .. depth'[w] : /\ answer'[<<w, d>>] = "none"
                                    /\ tx'[<<w, d>>] \in {"open", "failed", "undone"}
      BY <2>1, <2>3, <3>2 DEF IInv, StackIsOpen
    <3> QED BY <2>3, <3>1, <3>3 DEF StackIsOpen, StatementIsOwn
  <2> QED BY <2>2, <2>3
<1> QED BY <1>5, <1>6, <1>7 DEF IInv

(* What a statement does: it writes for the function in hand or alone, or  *)
(* fails for one of them, or for a function whose unit was answered.       *)
LEMMA StatementEffect ==
    ASSUME IInv, NEW w \in Worker,
           Statement(w) \/ StatementRefused(w) \/ StatementFails(w)
    PROVE  LET u == Top(w)
               r == want[w].row
           IN  /\ pc' = [pc EXCEPT ![w] = "run"]
               /\ want' = [want EXCEPT ![w] = NoStatement]
               /\ UNCHANGED <<answer, depth, verdict, cancelled>>
               /\ faults' \in 0 .. MaxFaults
               /\ r \in Row
               /\ \/ /\ depth[w] > 0 /\ u \in Unit
                     /\ answer[u] = "none" /\ calls[u][r] = "untried"
                     /\ \/ /\ tx[u] = "open" /\ UNCHANGED <<data, tx>>
                           /\ wrote' = [wrote EXCEPT ![u] = @ \cup {r}]
                           /\ calls' = [calls EXCEPT ![u][r] = "done"]
                        \/ /\ tx[u] = "open" /\ tx' = [tx EXCEPT ![u] = "failed"]
                           /\ calls' = [calls EXCEPT ![u][r] = "failed"]
                           /\ UNCHANGED <<data, wrote>>
                        \/ /\ tx[u] \in {"failed", "undone"} \/ (tx[u] = "open" /\ cancelled[w])
                           /\ calls' = [calls EXCEPT ![u][r] = "failed"]
                           /\ UNCHANGED <<data, tx, wrote>>
                  \/ /\ UNCHANGED <<tx, wrote, calls>>
                     /\ data' = data \/ data' = [data EXCEPT ![r] = Base]
<1> DEFINE u == Top(w)
           r == want[w].row
<1>1. /\ pc[w] = "statement"
      /\ \E result \in {"done", "failed"} : Told(w, result)
      /\ faults' = faults \/ (faults > 0 /\ faults' = faults - 1)
  BY DEF Statement, StatementRefused, StatementFails, Fault
<1>2. /\ pc' = [pc EXCEPT ![w] = "run"]
      /\ want' = [want EXCEPT ![w] = NoStatement]
      /\ UNCHANGED <<answer, depth, verdict, cancelled>>
      /\ faults' \in 0 .. MaxFaults
  BY <1>1, UnitAssumption DEF Told, Goto, IInv, TypeOK
<1>3. r \in Row
  BY <1>1 DEF IInv, StatementIsOwn
<1>4. CASE depth[w] > 0 /\ want[w].ctx = u /\ calls[u][r] = "untried"
  <2>1. u \in Unit /\ u # Base
    BY <1>4, TopIsUnit DEF IInv
  <2>2. DB(want[w].ctx) = u /\ want[w].ctx = WithTx(w, depth[w])
    BY <1>4, <2>1 DEF DB, WithTx, Top
  <2>3. depth[w] \in 1 .. depth[w]
    BY <1>4 DEF IInv, TypeOK
  <2>4. answer[u] = "none" /\ tx[u] \in {"open", "failed", "undone"}
    BY <1>1, <2>3 DEF IInv, StackIsOpen, Top
  <2>5. CASE Statement(w)
    BY <1>2, <1>3, <1>4, <2>1, <2>2, <2>4, <2>5 DEF Statement, Told
  <2>6. CASE StatementRefused(w)
    BY <1>2, <1>3, <1>4, <2>1, <2>2, <2>4, <2>6 DEF StatementRefused, Told, database
  <2>7. CASE StatementFails(w)
    BY <1>2, <1>3, <1>4, <2>1, <2>2, <2>4, <2>7 DEF StatementFails, Told
  <2> QED BY <2>5, <2>6, <2>7
<1>5. CASE depth[w] = 0 /\ want[w].ctx = Base
  <2>1. DB(want[w].ctx) = Base
    BY <1>5, UnitAssumption DEF DB
  <2> QED BY <1>2, <1>3, <1>5, <2>1 DEF Statement, StatementRefused, StatementFails, Told, database
<1>6. CASE depth[w] < MaxDepth /\ want[w].ctx = <<w, depth[w] + 1>> /\ answer[want[w].ctx] # "none"
  <2>1. want[w].ctx \in Unit
    BY <1>6, UnitAssumption DEF IInv, TypeOK, Unit, Depth
  <2>2. DB(want[w].ctx) = want[w].ctx /\ want[w].ctx # Base
    BY <2>1, UnitAssumption DEF DB
  <2>3. tx[want[w].ctx] # "open"
    BY <1>6, <2>1 DEF IInv, UnitIsSound
  <2>4. want[w].ctx # WithTx(w, depth[w])
    BY <1>6 DEF WithTx, IInv, TypeOK
  <2> QED BY <1>2, <1>3, <2>2, <2>3, <2>4
          DEF Statement, StatementRefused, StatementFails, Told, database
<1> QED BY <1>1, <1>4, <1>5, <1>6 DEF IInv, StatementIsOwn, Top

(* A statement of the function of an open unit keeps the unit sound.       *)
LEMMA StatementInUnit ==
    ASSUME TypeOK, NEW u \in Unit, NEW r \in Row, UnitIsSound(u),
           answer[u] = "none", calls[u][r] = "untried",
           UNCHANGED <<answer, cancelled>>,
           \/ /\ tx[u] = "open" /\ UNCHANGED <<data, tx>>
              /\ wrote' = [wrote EXCEPT ![u] = @ \cup {r}]
              /\ calls' = [calls EXCEPT ![u][r] = "done"]
           \/ /\ tx[u] = "open" /\ tx' = [tx EXCEPT ![u] = "failed"]
              /\ calls' = [calls EXCEPT ![u][r] = "failed"]
              /\ UNCHANGED <<data, wrote>>
           \/ /\ tx[u] \in {"failed", "undone"} \/ (tx[u] = "open" /\ cancelled[u[1]])
              /\ calls' = [calls EXCEPT ![u][r] = "failed"]
              /\ UNCHANGED <<data, tx, wrote>>
    PROVE  /\ tx' \in [Unit -> {"none", "open", "failed", "committed", "undone"}]
           /\ wrote' \in [Unit -> SUBSET Row]
           /\ calls' \in [Unit -> [Row -> {"untried", "done", "failed"}]]
           /\ UnitIsSound(u)' /\ tx'[u] \in {"open", "failed", "undone"}
           /\ \A x \in Unit : x # u =>
                 tx'[x] = tx[x] /\ calls'[x] = calls[x] /\ wrote'[x] = wrote[x]
<1>1. calls[u] \in [Row -> {"untried", "done", "failed"}] /\ wrote[u] \subseteq Row
  BY DEF TypeOK
<1>2. PICK res \in {"done", "failed"} :
         /\ calls' = [calls EXCEPT ![u] = [calls[u] EXCEPT ![r] = res]]
         /\ res = "done" => /\ tx[u] = "open" /\ tx' = tx
                            /\ wrote' = [wrote EXCEPT ![u] = @ \cup {r}]
         /\ res = "failed" => /\ wrote' = wrote
                              /\ \/ tx[u] = "open" /\ tx' = [tx EXCEPT ![u] = "failed"]
                                 \/ /\ \/ tx[u] \in {"failed", "undone"}
                                       \/ tx[u] = "open" /\ cancelled[u[1]]
                                    /\ tx' = tx
  OBVIOUS
<1>3. [calls[u] EXCEPT ![r] = res] \in [Row -> {"untried", "done", "failed"}]
  BY <1>1
<1>4. calls' \in [Unit -> [Row -> {"untried", "done", "failed"}]]
  BY <1>2, <1>3 DEF TypeOK
<1>5. tx' \in [Unit -> {"none", "open", "failed", "committed", "undone"}]
  BY <1>2 DEF TypeOK
<1>6. wrote' \in [Unit -> SUBSET Row]
  <2>1. wrote[u] \cup {r} \in SUBSET Row
    BY <1>1
  <2> QED BY <1>2, <2>1 DEF TypeOK
<1>7. \A x \in Unit : x # u =>
         tx'[x] = tx[x] /\ calls'[x] = calls[x] /\ wrote'[x] = wrote[x]
  <2>1. \A x \in Unit : x # u => tx'[x] = tx[x]
    BY <1>2 DEF TypeOK
  <2>2. \A x \in Unit : x # u => wrote'[x] = wrote[x]
    BY <1>2 DEF TypeOK
  <2>3. \A x \in Unit : x # u => calls'[x] = calls[x]
    BY <1>2 DEF TypeOK
  <2> QED BY <2>1, <2>2, <2>3
<1>8. calls'[u] = [calls[u] EXCEPT ![r] = res]
  BY <1>2 DEF TypeOK
<1>9. /\ res = "done" => tx'[u] = "open" /\ wrote'[u] = wrote[u] \cup {r}
      /\ res = "failed" => /\ wrote'[u] = wrote[u]
                           /\ \/ tx'[u] \in {"failed", "undone"}
                              \/ tx'[u] = "open" /\ cancelled[u[1]]
  BY <1>2 DEF TypeOK
<1>10. wrote'[u] = Done(u)'
  <2>1. wrote[u] = Done(u) /\ r \notin Done(u)
    BY DEF UnitIsSound, Done
  <2>2. CASE res = "done"
    BY <1>1, <1>8, <1>9, <2>1, <2>2 DEF Done
  <2>3. CASE res = "failed"
    BY <1>1, <1>8, <1>9, <2>1, <2>3 DEF Done
  <2> QED BY <2>2, <2>3
<1>11. (\E s \in Row : calls'[u][s] = "failed") =>
           tx'[u] \in {"failed", "undone"} \/ (tx'[u] = "open" /\ cancelled'[u[1]])
  <2>1. CASE res = "failed"
    BY <1>9, <2>1
  <2>2. CASE res = "done"
    <3>1. \A s \in Row : calls'[u][s] = "failed" => calls[u][s] = "failed"
      BY <1>1, <1>8, <2>2
    <3> QED BY <1>2, <1>9, <2>2, <3>1 DEF UnitIsSound
  <2> QED BY <2>1, <2>2
<1> QED BY <1>4, <1>5, <1>6, <1>7, <1>9, <1>10, <1>11 DEF UnitIsSound

(* A statement disturbs no unit but the one of the function in hand.       *)
LEMMA StatementKeepsIInv ==
    ASSUME IInv, NEW w \in Worker,
           Statement(w) \/ StatementRefused(w) \/ StatementFails(w)
    PROVE  IInv'
<1> DEFINE u == Top(w)
           r == want[w].row
<1>1. /\ pc' = [pc EXCEPT ![w] = "run"]
      /\ want' = [want EXCEPT ![w] = NoStatement]
      /\ UNCHANGED <<answer, depth, verdict, cancelled>>
      /\ faults' \in 0 .. MaxFaults
      /\ r \in Row
  BY StatementEffect
<1>2. \A v \in Worker, d \in Depth : v # w => <<v, d>> # u
  BY DEF Top
<1>3. ASSUME NEW v \in Worker, v # w,
             \A x \in Unit : x # u => tx'[x] = tx[x] /\ calls'[x] = calls[x]
      PROVE  StackIsOpen(v)' /\ StatementIsOwn(v)'
  <2>1. pc'[v] = pc[v] /\ depth'[v] = depth[v] /\ want'[v] = want[v]
    BY <1>1, <1>3 DEF IInv, TypeOK
  <2>2. \A d \in Depth : <<v, d>> \in Unit /\ <<v, d>> # u
    BY <1>2, <1>3 DEF Unit
  <2> QED BY <1>1, <1>3, <2>1, <2>2, OtherWorkersStaySound DEF IInv
<1>4. ASSUME \A d \in 1 .. depth[w] : tx'[<<w, d>>] \in {"open", "failed", "undone"}
      PROVE  StackIsOpen(w)' /\ StatementIsOwn(w)'
  BY <1>1, <1>4 DEF IInv, TypeOK, StackIsOpen, StatementIsOwn
<1>5. pc[w] = "statement"
  BY DEF Statement, StatementRefused, StatementFails
<1>6. \A d \in 1 .. depth[w] : tx[<<w, d>>] \in {"open", "failed", "undone"}
  BY <1>5 DEF IInv, StackIsOpen
<1>7. NoStatement \in [row : Row \cup {Nobody}, ctx : Unit \cup {Base}]
  BY DEF NoStatement
<1>8. CASE UNCHANGED <<tx, wrote, calls>> /\ (data' = data \/ data' = [data EXCEPT ![r] = Base])
  <2>1. TypeOK'
    BY <1>1, <1>7, <1>8 DEF IInv, TypeOK
  <2>2. ASSUME NEW x \in Unit PROVE UnitIsSound(x)'
    BY <1>1, <1>8, OtherUnitsStaySound DEF IInv
  <2> QED BY <1>3, <1>4, <1>6, <1>8, <2>1, <2>2 DEF IInv
<1>9. CASE /\ depth[w] > 0 /\ u \in Unit
           /\ answer[u] = "none" /\ calls[u][r] = "untried"
           /\ \/ /\ tx[u] = "open" /\ UNCHANGED <<data, tx>>
                 /\ wrote' = [wrote EXCEPT ![u] = @ \cup {r}]
                 /\ calls' = [calls EXCEPT ![u][r] = "done"]
              \/ /\ tx[u] = "open" /\ tx' = [tx EXCEPT ![u] = "failed"]
                 /\ calls' = [calls EXCEPT ![u][r] = "failed"]
                 /\ UNCHANGED <<data, wrote>>
              \/ /\ tx[u] \in {"failed", "undone"} \/ (tx[u] = "open" /\ cancelled[w])
                 /\ calls' = [calls EXCEPT ![u][r] = "failed"]
                 /\ UNCHANGED <<data, tx, wrote>>
  <2>1. PICK x0 \in Unit : x0 = u
    BY <1>9
  <2>2. PICK r0 \in Row : r0 = r
    BY <1>1
  <2> HIDE DEF u, r
  <2>3. x0[1] = w
    BY <2>1 DEF Top, u
  <2>6. /\ tx' \in [Unit -> {"none", "open", "failed", "committed", "undone"}]
        /\ wrote' \in [Unit -> SUBSET Row]
        /\ calls' \in [Unit -> [Row -> {"untried", "done", "failed"}]]
        /\ UnitIsSound(x0)' /\ tx'[x0] \in {"open", "failed", "undone"}
        /\ \A x \in Unit : x # x0 =>
              tx'[x] = tx[x] /\ calls'[x] = calls[x] /\ wrote'[x] = wrote[x]
    BY <1>1, <1>9, <2>1, <2>2, <2>3, StatementInUnit DEF IInv
  <2>7. TypeOK'
    <3>1. UNCHANGED data
      BY <1>9
    <3> QED BY <1>1, <1>7, <2>6, <3>1 DEF IInv, TypeOK
  <2>4. ASSUME NEW x \in Unit PROVE UnitIsSound(x)'
    <3>1. CASE x = x0
      BY <2>6, <3>1
    <3>2. CASE x # x0
      BY <1>1, <2>6, <3>2, OtherUnitsStaySound DEF IInv
    <3> QED BY <3>1, <3>2
  <2>5. \A d \in 1 .. depth[w] : tx'[<<w, d>>] \in {"open", "failed", "undone"}
    <3>1. \A d \in 1 .. depth[w] : <<w, d>> \in Unit
      BY UnitAssumption DEF IInv, TypeOK, Unit, Depth
    <3> QED BY <1>6, <2>6, <3>1
  <2>8. \A x \in Unit : x # u => tx'[x] = tx[x] /\ calls'[x] = calls[x]
    BY <2>1, <2>6
  <2> QED BY <1>3, <1>4, <2>4, <2>5, <2>7, <2>8 DEF IInv
<1> QED BY <1>8, <1>9, StatementEffect

(* Transactions that are rolled back from outside cannot commit any more.  *)
LEMMA OutsideKeepsIInv ==
    ASSUME IInv, (\E u \in Unit : CancelledUndone(u)) \/ Crash \/ UNCHANGED vars
    PROVE  IInv'
<1>1. CASE UNCHANGED vars
  BY <1>1 DEF vars, database, workers, IInv, TypeOK, UnitIsSound, StackIsOpen,
     StatementIsOwn, Done
<1>2. ASSUME NEW u \in Unit, CancelledUndone(u) PROVE IInv'
  <2>1. /\ tx[u] \in {"open", "failed"} /\ tx' = [tx EXCEPT ![u] = "undone"]
        /\ UNCHANGED <<data, wrote, calls, answer, workers, faults>>
    BY <1>2 DEF CancelledUndone, Open
  <2>2. TypeOK'
    BY <2>1 DEF workers, IInv, TypeOK
  <2>3. tx'[u] = "undone" /\ \A x \in Unit : x # u => tx'[x] = tx[x]
    BY <2>1 DEF IInv, TypeOK
  <2>4. ASSUME NEW x \in Unit PROVE UnitIsSound(x)'
    <3>1. CASE x = u
      BY <2>1, <2>3, <3>1 DEF workers, IInv, UnitIsSound, Done
    <3>2. CASE x # u
      BY <2>1, <2>3, <3>2, OtherUnitsStaySound DEF workers, IInv
    <3> QED BY <3>1, <3>2
  <2>5. ASSUME NEW v \in Worker PROVE StackIsOpen(v)' /\ StatementIsOwn(v)'
    <3>1. \A d \in 1 .. depth[v] : <<v, d>> \in Unit
      BY UnitAssumption DEF IInv, TypeOK, Unit, Depth
    <3>2. StackIsOpen(v)'
      BY <2>1, <2>3, <3>1 DEF workers, IInv, StackIsOpen
    <3>3. StatementIsOwn(v)'
      BY <2>1 DEF workers, IInv, StatementIsOwn
    <3> QED BY <3>2, <3>3
  <2> QED BY <2>2, <2>4, <2>5 DEF IInv
<1>3. CASE Crash
  <2>1. /\ tx' = [u \in Unit |-> IF tx[u] \in {"open", "failed"} THEN "undone" ELSE tx[u]]
        /\ pc' = [w \in Worker |-> "run"] /\ depth' = [w \in Worker |-> 0]
        /\ want' = [w \in Worker |-> NoStatement]
        /\ verdict' = [w \in Worker |-> "ok"]
        /\ cancelled' = [w \in Worker |-> FALSE]
        /\ UNCHANGED <<data, wrote, calls, answer>>
        /\ faults > 0 /\ faults' = faults - 1
    <3>1. \A u \in Unit : u \in Open <=> tx[u] \in {"open", "failed"}
      BY DEF Open
    <3> QED BY <1>3, <3>1 DEF Crash, Fault
  <2>2. TypeOK'
    <3>1. tx' \in [Unit -> {"none", "open", "failed", "committed", "undone"}]
      BY <2>1 DEF IInv, TypeOK
    <3>2. /\ depth' \in [Worker -> 0 .. MaxDepth] /\ faults' \in 0 .. MaxFaults
      BY <2>1, UnitAssumption DEF IInv, TypeOK
    <3>3. want' \in [Worker -> [row : Row \cup {Nobody}, ctx : Unit \cup {Base}]]
      BY <2>1 DEF NoStatement
    <3> QED BY <2>1, <3>1, <3>2, <3>3 DEF IInv, TypeOK
  <2>3. ASSUME NEW x \in Unit PROVE UnitIsSound(x)'
    BY <2>1 DEF IInv, UnitIsSound, Done
  <2>4. ASSUME NEW v \in Worker PROVE StackIsOpen(v)' /\ StatementIsOwn(v)'
    BY <2>1 DEF StackIsOpen, StatementIsOwn
  <2> QED BY <2>2, <2>3, <2>4 DEF IInv
<1> QED BY <1>1, <1>2, <1>3

(* Every step keeps the strengthened invariant. *)
LEMMA StepKeepsIInv == IInv /\ [Next]_vars => IInv'
<1> SUFFICES ASSUME IInv, [Next]_vars PROVE IInv'
  OBVIOUS
<1>1. ASSUME NEW w \in Worker, Step(w) \/ Cancel(w) PROVE IInv'
  BY <1>1, ControlKeepsIInv, BeginKeepsIInv, EndingKeepsIInv, StatementKeepsIInv
     DEF Step, Ending
<1> QED BY <1>1, OutsideKeepsIInv DEF Next

LEMMA InvariantHolds == Spec => []IInv
BY InitIsSound, StepKeepsIInv, PTL DEF Spec

(* The variables keep their types. *)
THEOREM TypeIsCorrect == Spec => []TypeOK
<1>1. IInv => TypeOK
  BY DEF IInv
<1> QED BY <1>1, InvariantHolds, PTL

(* Execute answers nil only for writes that were all committed.            *)
THEOREM SuccessWasWhole == Spec => []SuccessIsWhole
<1>1. IInv => SuccessIsWhole
  BY DEF IInv, UnitIsSound, SuccessIsWhole
<1> QED BY <1>1, InvariantHolds, PTL

-----------------------------------------------------------------------------
(* The refinement.                                                         *)

asked == [u \in Unit |-> Done(u)]

(* What a unit may be asked to show is what its transaction holds. *)
LEMMA AskedIsWritten ==
    ASSUME IInv, NEW u \in Unit
    PROVE  asked[u] = wrote[u]
BY DEF IInv, UnitIsSound, asked

LEMMA AskedStays == calls' = calls => asked' = asked
BY DEF asked, Done

(* A commit is the unit's success; one that is refused, a rollback and a   *)
(* transaction that never began are its failure.                           *)
LEMMA EndingIsAtomic ==
    ASSUME IInv, NEW w \in Worker, Ending(w)
    PROVE  Units!Next
<1> USE DEF Units!Next, Units!Succeed, Units!Fail, Units!Doubt, Units!Answer, Units!Show
<1>1. PICK u \in Unit : u = Top(w)
  BY EndingIsSound
<1>2. answer[u] = "none" /\ asked' = asked /\ asked[u] = wrote[u]
  BY <1>1, EndingIsSound, AskedStays, AskedIsWritten
<1>3. ASSUME NEW a, Leave(w, a) PROVE answer' = [answer EXCEPT ![u] = a]
  BY <1>1, <1>3 DEF Leave
<1>4. CASE BeginFails(w)
  <2>1. Leave(w, "error") /\ UNCHANGED data
    BY <1>4 DEF BeginFails, database
  <2>2. Units!Fail(u)
    BY <1>2, <1>3, <2>1 DEF asked
  <2> QED BY <2>2
<1>5. CASE Commit(w)
  <2>1. Leave(w, "ok") /\ data' = [r \in Row |-> IF r \in asked[u] THEN u ELSE data[r]]
    BY <1>1, <1>2, <1>5 DEF Commit, Committed
  <2>2. Units!Succeed(u)
    BY <1>2, <1>3, <2>1 DEF asked
  <2> QED BY <2>2
<1>6. CASE CommitRefused(w)
  <2>1. Leave(w, "error") /\ UNCHANGED data
    BY <1>6 DEF CommitRefused, Undone
  <2>2. Units!Fail(u)
    BY <1>2, <1>3, <2>1 DEF asked
  <2> QED BY <2>2
<1>7. CASE CommitUnanswered(w)
  <2>1. /\ Leave(w, "unknown")
        /\ \/ data' = [r \in Row |-> IF r \in asked[u] THEN u ELSE data[r]]
           \/ UNCHANGED data
    BY <1>1, <1>2, <1>7 DEF CommitUnanswered, Committed, Undone
  <2>2. Units!Doubt(u)
    BY <1>2, <1>3, <2>1 DEF asked
  <2> QED BY <2>2
<1>8. CASE Rollback(w)
  <2>1. verdict[w] \in {"error", "panic"}
    BY <1>8 DEF Rollback, IInv, TypeOK
  <2>2. Leave(w, verdict[w]) /\ UNCHANGED data
    BY <1>8 DEF Rollback, Undone
  <2>3. Units!Fail(u)
    BY <1>2, <1>3, <2>1, <2>2 DEF asked
  <2> QED BY <2>3
<1> QED BY <1>4, <1>5, <1>6, <1>7, <1>8 DEF Ending

(* A statement writes for the unit in hand, or alone, or shows nothing.    *)
LEMMA StatementIsAtomic ==
    ASSUME IInv, NEW w \in Worker,
           Statement(w) \/ StatementRefused(w) \/ StatementFails(w)
    PROVE  [Units!Next]_(Units!vars)
<1> USE DEF Units!Next, Units!Write, Units!WriteAlone, Units!vars
<1>1. PICK r \in Row : r = want[w].row
  BY StatementEffect
<1>2. UNCHANGED answer
  BY StatementEffect
<1>3. CASE calls' = calls /\ (data' = data \/ data' = [data EXCEPT ![r] = Base])
  <2>1. asked' = asked
    BY <1>3, AskedStays
  <2> QED BY <1>2, <1>3, <2>1 DEF asked
<1>4. ASSUME NEW u \in Unit, answer[u] = "none", calls[u][r] = "untried", UNCHANGED data,
             NEW res \in {"done", "failed"}, calls' = [calls EXCEPT ![u][r] = res]
      PROVE  [Units!Next]_(Units!vars)
  <2>1. calls'[u] = [calls[u] EXCEPT ![r] = res]
    BY <1>4 DEF IInv, TypeOK
  <2>2. \A x \in Unit : x # u => calls'[x] = calls[x]
    BY <1>4 DEF IInv, TypeOK
  <2>3. calls[u] \in [Row -> {"untried", "done", "failed"}]
    BY DEF IInv, TypeOK
  <2>4. \A x \in Unit : x # u => Done(x)' = Done(x)
    BY <2>2 DEF Done
  <2>5. CASE res = "done"
    <3>1. Done(u)' = Done(u) \cup {r}
      BY <2>1, <2>3, <2>5 DEF Done
    <3>2. asked' = [asked EXCEPT ![u] = @ \cup {r}]
      BY <2>4, <3>1 DEF asked
    <3>3. Units!Write(u, r)
      BY <1>2, <1>4, <3>2 DEF asked
    <3> QED BY <3>3
  <2>6. CASE res = "failed"
    <3>1. Done(u)' = Done(u)
      BY <1>4, <2>1, <2>3, <2>6 DEF Done
    <3>2. asked' = asked
      BY <2>4, <3>1 DEF asked
    <3> QED BY <1>2, <1>4, <3>2 DEF asked
  <2> QED BY <2>5, <2>6
<1>5. CASE depth[w] > 0 /\ Top(w) \in Unit /\ answer[Top(w)] = "none"
           /\ calls[Top(w)][r] = "untried" /\ UNCHANGED data
           /\ \E res \in {"done", "failed"} : calls' = [calls EXCEPT ![Top(w)][r] = res]
  <2>1. PICK u \in Unit : u = Top(w)
    BY <1>5
  <2> QED BY <1>4, <1>5, <2>1
<1> QED BY <1>1, <1>3, <1>5, StatementEffect

(* Every other step leaves what units show and answer alone. *)
LEMMA StepIsAtomic == IInv /\ [Next]_vars => [Units!Next]_(Units!vars)
<1> SUFFICES ASSUME IInv, [Next]_vars PROVE [Units!Next]_(Units!vars)
  OBVIOUS
<1>1. ASSUME UNCHANGED <<data, calls, answer>> PROVE [Units!Next]_(Units!vars)
  <2>1. asked' = asked
    BY <1>1, AskedStays
  <2> QED BY <1>1, <2>1 DEF asked, Units!vars
<1>2. ASSUME NEW w \in Worker, Step(w) \/ Cancel(w) PROVE [Units!Next]_(Units!vars)
  <2>1. CASE \/ Execute(w) \/ Begin(w) \/ Return(w) \/ Cancel(w)
             \/ CallInUnit(w) \/ CallOutside(w) \/ CallTooLate(w)
    BY <1>1, <2>1 DEF Execute, Begin, Return, Cancel, CallInUnit, CallOutside, CallTooLate,
       Call, database
  <2> QED BY <1>2, <2>1, EndingIsAtomic, StatementIsAtomic DEF Step, Ending
<1>3. CASE UNCHANGED vars \/ Crash \/ \E u \in Unit : CancelledUndone(u)
  BY <1>1, <1>3 DEF vars, database, Crash, CancelledUndone
<1> QED BY <1>2, <1>3 DEF Next

(* Every unit implements the atomic one.                                   *)
THEOREM UnitsImplement == Spec => UnitsAreAtomic
<1>1. Init => Units!Init
  BY DEF Init, Done, Units!Init
<1> QED BY <1>1, StepIsAtomic, InvariantHolds, PTL DEF Spec, UnitsAreAtomic, Units!Spec
=============================================================================
