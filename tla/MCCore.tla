------------------------------ MODULE MCCore ------------------------------
(***************************************************************************)
(* The stores everything else rests on, one at a time: the lease table     *)
(* with three workers (two of them retries of one run), the abstract task  *)
(* board, the task ledger with two writers, and the promotion of two       *)
(* operations by two pipelines.  They share no variable, so a behaviour    *)
(* moves one of them, chosen at the start, and leaves the others alone.    *)
(***************************************************************************)
EXTENDS ControlLeases, TaskBoard, TaskLedger, Promotion, TLC

CONSTANTS w1, w2, w3, r1, r2, p1, p2, a, b, x1, x2, o1, o2, s1, s2, s3

VARIABLE part

MCRunOf == (w1 :> r1) @@ (w2 :> r1) @@ (w3 :> r2)

\* Two tasks, the second depending on the first, with enough commands to finish
\* the first, to block, reopen and cancel, and to reuse a key for another
\* command.
NewCmd(k, i, deps) == [kind |-> "create", key |-> k, task |-> i,
                       target |-> "inbox", deps |-> deps, reason |-> FALSE]
MoveCmd(k, i, s) == [kind |-> "move", key |-> k, task |-> i, target |-> s,
                     deps |-> {}, reason |-> s = "blocked"]
\* The move's idempotency key again, with a blocked_reason it must not have.
BadMove == [kind |-> "move", key |-> 3, task |-> a, target |-> "cancelled",
            deps |-> {}, reason |-> TRUE]

MCKeys == 1..20
MCCommands ==
    { NewCmd(1, a, {}), NewCmd(2, b, {a}),
      MoveCmd(3, a, "planned"), MoveCmd(4, a, "ready"), MoveCmd(5, a, "running"),
      MoveCmd(6, a, "review"), MoveCmd(7, a, "done"), MoveCmd(8, a, "blocked"),
      MoveCmd(9, a, "ready"), MoveCmd(10, a, "cancelled"),
      MoveCmd(11, b, "planned"), MoveCmd(12, b, "ready"), MoveCmd(13, b, "running"),
      MoveCmd(14, b, "review"), MoveCmd(15, b, "blocked"), MoveCmd(16, b, "running"),
      MoveCmd(11, b, "cancelled"), MoveCmd(17, b, "done"), BadMove }
MCRequests == {NewCmd(1, a, {}), NewCmd(2, b, {a}), MoveCmd(3, a, "planned"), BadMove}

\* Two operations, of two sources or of one, or the second of the real corpus.
MCSourceMaps == {(o1 :> s1) @@ (o2 :> s) : s \in {s1, s2, s3}}

CoreInit ==
    /\ part \in {"leases", "board", "tasks", "promotion"}
    /\ LeaseInit /\ BoardInit /\ TasksInit /\ PromotionInit
    /\ part # "promotion" => sourceOf = CHOOSE m \in MCSourceMaps : TRUE

CoreNext ==
    /\ \/ /\ part = "leases" /\ LeaseNext
          /\ UNCHANGED <<bvars, tasksVars, promotionVars>>
       \/ /\ part = "board" /\ BoardNext
          /\ UNCHANGED <<leaseVars, tasksVars, promotionVars>>
       \/ /\ part = "tasks" /\ TasksNext
          /\ UNCHANGED <<leaseVars, bvars, promotionVars>>
       \/ /\ part = "promotion" /\ PromotionNext
          /\ UNCHANGED <<leaseVars, bvars, tasksVars>>
    /\ UNCHANGED part

CoreSpec ==
    CoreInit /\ [][CoreNext]_<<part, leaseVars, bvars, tasksVars, promotionVars>> /\ Fairness
=============================================================================
