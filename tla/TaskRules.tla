----------------------------- MODULE TaskRules -----------------------------
(***************************************************************************)
(* The task state machine of src/raytsystem/tasking.py and the commands    *)
(* that drive it.  A command stands for its operation key: the key is a    *)
(* hash over the command's whole content and its idempotency key, so equal *)
(* commands are equal records and a retry submits the same record.         *)
(***************************************************************************)
EXTENDS Integers

CONSTANTS Tasks,     \* task ids
          Keys,      \* idempotency ids (actor and client key)
          Commands,  \* the commands clients may submit
          MaxTime    \* bound on the clock

Statuses == {"inbox", "planned", "ready", "running", "review", "done",
             "blocked", "cancelled"}

\* reason says whether a blocked_reason was given.
Command == [kind : {"create", "move"}, key : Keys, task : Tasks,
            target : Statuses, deps : SUBSET Tasks, reason : BOOLEAN]

\* task_id is derived from the operation key of the creating command.
ASSUME CommandsOK ==
    /\ Commands \subseteq Command
    /\ \A c, d \in Commands :
          c.kind = "create" /\ d.kind = "create" /\ c.task = d.task => c = d
    /\ MaxTime \in Nat

Task == [status : Statuses, deps : SUBSET Tasks, rev : Nat, updated : Nat,
         reason : BOOLEAN]

\* Mutation: a finished task may be reopened.
TransitionsReopen(s) ==
    CASE s = "inbox" -> {"planned", "cancelled"}
      [] s = "planned" -> {"ready", "blocked", "cancelled"}
      [] s = "ready" -> {"running", "blocked", "cancelled"}
      [] s = "running" -> {"review", "blocked", "cancelled"}
      [] s = "review" -> {"done", "running", "blocked", "cancelled"}
      [] s = "blocked" -> {"planned", "ready", "running", "cancelled"}
      [] s = "done" -> {"blocked"}
      [] s = "cancelled" -> {}

\* _TRANSITIONS
Transitions(s) ==
    CASE s = "inbox" -> {"planned", "cancelled"}
      [] s = "planned" -> {"ready", "blocked", "cancelled"}
      [] s = "ready" -> {"running", "blocked", "cancelled"}
      [] s = "running" -> {"review", "blocked", "cancelled"}
      [] s = "review" -> {"done", "running", "blocked", "cancelled"}
      [] s = "blocked" -> {"planned", "ready", "running", "cancelled"}
      [] s \in {"done", "cancelled"} -> {}

\* The dependency gate of transition_task.
DepsReady(board, deps, target) ==
    target \in {"ready", "running"} => \A d \in deps : board[d].status = "done"

\* The task object create_task builds.
NewTask(c, t) ==
    [status |-> "inbox", deps |-> c.deps, rev |-> 1, updated |-> t, reason |-> FALSE]

\* The task object transition_task builds: blocked_reason is kept only for a
\* move to blocked.
MovedTask(rec, c, t) ==
    [status |-> c.target, deps |-> rec.deps, rev |-> rec.rev + 1, updated |-> t,
     reason |-> (c.target = "blocked" /\ c.reason)]
=============================================================================
