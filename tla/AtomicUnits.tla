---------------------------- MODULE AtomicUnits -----------------------------
(***************************************************************************)
(* What Execute promises (UnitOfWork of pkg/persistence/unit_of_work.go):  *)
(* the writes of a unit show all at once, when it succeeds, and never if   *)
(* it answers with an error or a panic.                                    *)
(***************************************************************************)
CONSTANTS Unit, Row,
          Nobody, Base    \* writer of the first data, and of writes in no unit

VARIABLES data,           \* who wrote what each row shows
          asked,          \* rows a unit wrote, as its function was told
          answer          \* what Execute returned, "none" before

vars == <<data, asked, answer>>

Init == /\ data = [r \in Row |-> Nobody]
        /\ asked = [u \in Unit |-> {}]
        /\ answer = [u \in Unit |-> "none"]

Answer(u, a) == answer' = [answer EXCEPT ![u] = a]

Show(u) == data' = [r \in Row |-> IF r \in asked[u] THEN u ELSE data[r]]

Write(u, r) == /\ answer[u] = "none"
               /\ asked' = [asked EXCEPT ![u] = @ \cup {r}]
               /\ UNCHANGED <<data, answer>>

Succeed(u) == /\ answer[u] = "none"
              /\ Answer(u, "ok")
              /\ Show(u)
              /\ UNCHANGED asked

Fail(u) == /\ answer[u] = "none"
           /\ \E a \in {"error", "panic"} : Answer(u, a)
           /\ UNCHANGED <<data, asked>>

(* The answer to the commit is lost: an error, and the writes may show. *)
Doubt(u) == /\ answer[u] = "none"
            /\ Answer(u, "unknown")
            /\ Show(u) \/ UNCHANGED data
            /\ UNCHANGED asked

WriteAlone(r) == /\ data' = [data EXCEPT ![r] = Base]
                 /\ UNCHANGED <<asked, answer>>

Next == \/ \E u \in Unit : \/ \E r \in Row : Write(u, r)
                           \/ Succeed(u) \/ Fail(u) \/ Doubt(u)
        \/ \E r \in Row : WriteAlone(r)

Spec == Init /\ [][Next]_vars
=============================================================================
