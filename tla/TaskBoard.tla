----------------------------- MODULE TaskBoard -----------------------------
(***************************************************************************)
(* What the task ledger promises its callers: one board on which commands  *)
(* are applied one at a time, each at most once.  TaskLedger, the writers, *)
(* files and pointer of src/raytsystem/tasking.py, implements it.          *)
(***************************************************************************)
EXTENDS TaskRules, FiniteSets

VARIABLES tasks,    \* the board: tasks[i] is the current record of task i
          applied,  \* commands whose event is in the board's history
          clock     \* timestamp of the newest generation

bvars == <<tasks, applied, clock>>

BoardTypeOK ==
    /\ DOMAIN tasks \subseteq Tasks
    /\ tasks \in [DOMAIN tasks -> Task]
    /\ applied \subseteq Commands
    /\ clock \in Nat

BoardInit ==
    /\ tasks = [i \in {} |-> NewTask(i, 0)]
    /\ applied = {}
    /\ clock = 0

\* _find_operation found nothing: neither this operation key nor its
\* idempotency key has been used.
Fresh(c) == \A d \in applied : d.key # c.key

Create(c, t) ==
    /\ c.kind = "create"
    /\ applied' = applied \cup {c}
    /\ Fresh(c)
    /\ c.task \notin DOMAIN tasks
    /\ c.deps \subseteq DOMAIN tasks
    /\ t >= clock
    /\ tasks' = [i \in DOMAIN tasks \cup {c.task} |->
                    IF i = c.task THEN NewTask(c, t) ELSE tasks[i]]
    /\ clock' = t

\* A blocked_reason goes with a move to blocked and with nothing else: the
\* request validator wants one there, and the closure check rejects an event
\* whose operation key has one elsewhere.
Move(c, t) ==
    /\ c.kind = "move"
    /\ applied' = applied \cup {c}
    /\ Fresh(c)
    /\ c.task \in DOMAIN tasks
    /\ c.target \in Transitions(tasks[c.task].status)
    /\ DepsReady(tasks, tasks[c.task].deps, c.target)
    /\ c.reason <=> c.target = "blocked"
    /\ t >= clock
    /\ tasks' = [tasks EXCEPT ![c.task] = MovedTask(@, c, t)]
    /\ clock' = t

BoardNext == \E c \in Commands, t \in 0..MaxTime : Create(c, t) \/ Move(c, t)

BoardSpec == BoardInit /\ [][BoardNext]_bvars

-----------------------------------------------------------------------------
\* Work rests on finished work: a task that is ready, running, under review or
\* done has only finished dependencies, although the gate in transition_task
\* looks at them only on the moves to ready and running, and nothing rechecks
\* them later.
WorkRestsOnDone ==
    \A i \in DOMAIN tasks :
        /\ tasks[i].deps \subseteq DOMAIN tasks
        /\ tasks[i].status \in {"ready", "running", "review", "done"} =>
              \A d \in tasks[i].deps : tasks[d].status = "done"

\* Exactly once: a task's revision is the number of distinct commands that were
\* applied to it, however often a client retried.
RevisionCountsCommands ==
    \A i \in DOMAIN tasks :
        tasks[i].rev = Cardinality({c \in applied : c.task = i})

\* An idempotency key stands for one command for ever.
KeyNamesOneCommand ==
    \A c, d \in applied : c.key = d.key => c = d

\* Nothing was applied to a task that does not exist.
AppliedTasksExist ==
    /\ \A c \in applied : c.task \in DOMAIN tasks
    /\ IsFiniteSet(applied)

\* The inductive invariant of TaskBoardProofs.
BoardInv ==
    /\ BoardTypeOK
    /\ WorkRestsOnDone
    /\ RevisionCountsCommands
    /\ KeyNamesOneCommand
    /\ AppliedTasksExist
=============================================================================
