-------------------------- MODULE TaskBoardProofs --------------------------
(***************************************************************************)
(* The promises of TaskBoard for every set of tasks, keys and commands.    *)
(* BoardInv is inductive as it stands: the dependency rule needs the       *)
(* closure of the dependencies under the board, and counting commands      *)
(* needs that nothing was applied to a task that does not exist.           *)
(***************************************************************************)
EXTENDS TaskBoard, FiniteSetTheorems, TLAPS

\* The empty board satisfies the invariant.
LEMMA BoardInvInit == BoardInit => BoardInv
<1> SUFFICES ASSUME BoardInit PROVE BoardInv
  OBVIOUS
<1>1. tasks = <<>> \/ DOMAIN tasks = {}
  BY DEF BoardInit
<1>2. DOMAIN tasks = {} /\ applied = {} /\ clock = 0
  BY DEF BoardInit
<1>3. tasks \in [DOMAIN tasks -> Task]
  BY <1>2 DEF BoardInit
<1>4. IsFiniteSet(applied)
  BY <1>2, FS_EmptySet
<1> QED
  BY <1>2, <1>3, <1>4 DEF BoardInv, BoardTypeOK, WorkRestsOnDone, RevisionCountsCommands,
     KeyNamesOneCommand, AppliedTasksExist

\* What create_task stores is a task record.
LEMMA NewTaskType ==
  ASSUME NEW c \in Command, NEW t \in Nat
  PROVE  /\ NewTask(c, t) \in Task
         /\ NewTask(c, t).status = "inbox" /\ NewTask(c, t).rev = 1
         /\ NewTask(c, t).deps = c.deps
  BY DEF NewTask, Task, Command, Statuses

\* What transition_task stores is a task record of the same dependencies, one
\* revision on.
LEMMA MovedTaskType ==
  ASSUME NEW r \in Task, NEW c \in Command, NEW t \in Nat
  PROVE  /\ MovedTask(r, c, t) \in Task
         /\ MovedTask(r, c, t).status = c.target
         /\ MovedTask(r, c, t).rev = r.rev + 1
         /\ MovedTask(r, c, t).deps = r.deps
<1>1. (c.target = "blocked" /\ c.reason) \in BOOLEAN
  BY Zenon
<1>2. r.deps \subseteq Tasks /\ r.rev \in Nat /\ c.target \in Statuses
  BY DEF Task, Command
<1>3. ASSUME NEW b \in BOOLEAN
      PROVE  [status |-> c.target, deps |-> r.deps, rev |-> r.rev + 1,
              updated |-> t, reason |-> b] \in Task
  BY <1>2 DEF Task
<1>4. MovedTask(r, c, t) \in Task
  BY <1>1, <1>3, Zenon DEF MovedTask
<1> QED
  BY <1>4 DEF MovedTask

\* A finished task never moves again.
LEMMA DoneIsFinal ==
  ASSUME NEW s \in Statuses, NEW x \in Transitions(s)
  PROVE  /\ s # "done"
         /\ x = "review" => s = "running"
         /\ x = "done" => s = "review"
  BY DEF Transitions, Statuses

\* A command that is not fresh any more was applied: nothing is applied twice.
LEMMA FreshIsNew ==
  ASSUME NEW c \in Commands, Fresh(c)
  PROVE  c \notin applied
  BY DEF Fresh

\* Creating a task preserves the invariant.
LEMMA CreateKeepsInv ==
  ASSUME BoardInv, NEW c \in Commands, NEW t \in 0..MaxTime, Create(c, t)
  PROVE  BoardInv'
<1>1. c \in Command /\ t \in Nat /\ MaxTime \in Nat
  BY CommandsOK
<1>2. /\ DOMAIN tasks' = DOMAIN tasks \cup {c.task}
      /\ tasks'[c.task] = NewTask(c, t)
      /\ \A i \in DOMAIN tasks : tasks'[i] = tasks[i]
      /\ c.task \notin DOMAIN tasks
      /\ c.deps \subseteq DOMAIN tasks
      /\ applied' = applied \cup {c}
      /\ clock' = t
  BY DEF Create
<1>3. NewTask(c, t) \in Task /\ NewTask(c, t).status = "inbox" /\ NewTask(c, t).rev = 1
      /\ NewTask(c, t).deps = c.deps
  BY <1>1, NewTaskType
<1>4. BoardTypeOK'
  <2>1. DOMAIN tasks' \subseteq Tasks
    BY <1>1, <1>2 DEF BoardInv, BoardTypeOK, Command
  <2>2. tasks' \in [DOMAIN tasks' -> Task]
    BY <1>3 DEF Create, BoardInv, BoardTypeOK
  <2> QED
    BY <1>1, <1>2, <2>1, <2>2 DEF BoardInv, BoardTypeOK
<1>5. WorkRestsOnDone'
  BY <1>2, <1>3 DEF BoardInv, WorkRestsOnDone
<1>6. AppliedTasksExist'
  <2>1. IsFiniteSet(applied')
    BY <1>2, FS_AddElement DEF BoardInv, AppliedTasksExist
  <2> QED
    BY <1>2, <2>1 DEF BoardInv, AppliedTasksExist
<1>7. KeyNamesOneCommand'
  BY <1>2 DEF BoardInv, KeyNamesOneCommand, Create, Fresh
<1>8. RevisionCountsCommands'
  <2> SUFFICES ASSUME NEW i \in DOMAIN tasks'
               PROVE  tasks'[i].rev = Cardinality({d \in applied' : d.task = i})
    BY DEF RevisionCountsCommands
  <2>1. CASE i = c.task
    <3>1. {d \in applied' : d.task = i} = {c}
      BY <1>2, <2>1 DEF BoardInv, AppliedTasksExist
    <3>2. Cardinality({c}) = 1
      BY FS_Singleton
    <3> QED
      BY <1>2, <1>3, <2>1, <3>1, <3>2
  <2>2. CASE i # c.task
    <3>1. {d \in applied' : d.task = i} = {d \in applied : d.task = i}
      BY <1>2, <2>2
    <3>2. i \in DOMAIN tasks /\ tasks'[i] = tasks[i]
      BY <1>2, <2>2
    <3> QED
      BY <3>1, <3>2 DEF BoardInv, RevisionCountsCommands
  <2> QED
    BY <2>1, <2>2
<1> QED
  BY <1>4, <1>5, <1>6, <1>7, <1>8 DEF BoardInv

\* Moving a task preserves the invariant.
LEMMA MoveKeepsInv ==
  ASSUME BoardInv, NEW c \in Commands, NEW t \in 0..MaxTime, Move(c, t)
  PROVE  BoardInv'
<1> DEFINE r == tasks[c.task]
<1>1. c \in Command /\ t \in Nat /\ MaxTime \in Nat
  BY CommandsOK
<1>2. /\ c.task \in DOMAIN tasks
      /\ DOMAIN tasks' = DOMAIN tasks
      /\ tasks'[c.task] = MovedTask(r, c, t)
      /\ \A i \in DOMAIN tasks : i # c.task => tasks'[i] = tasks[i]
      /\ applied' = applied \cup {c}
      /\ clock' = t
      /\ c.target \in Transitions(r.status)
      /\ DepsReady(tasks, r.deps, c.target)
  BY DEF Move
<1>3. r \in Task /\ r.status \in Statuses /\ r.rev \in Nat
  BY <1>2 DEF BoardInv, BoardTypeOK, Task
<1>4. MovedTask(r, c, t) \in Task /\ MovedTask(r, c, t).status = c.target
      /\ MovedTask(r, c, t).rev = r.rev + 1 /\ MovedTask(r, c, t).deps = r.deps
  BY <1>1, <1>3, MovedTaskType
<1>5. r.status # "done" /\ (c.target = "review" => r.status = "running")
      /\ (c.target = "done" => r.status = "review")
  BY <1>2, <1>3, DoneIsFinal
<1>6. BoardTypeOK'
  <2>1. tasks' \in [DOMAIN tasks' -> Task]
    BY <1>2, <1>4 DEF Move, BoardInv, BoardTypeOK
  <2> QED
    BY <1>1, <1>2, <2>1 DEF BoardInv, BoardTypeOK
<1>7. WorkRestsOnDone'
  <2> SUFFICES ASSUME NEW i \in DOMAIN tasks
               PROVE  /\ tasks'[i].deps \subseteq DOMAIN tasks
                      /\ tasks'[i].status \in {"ready", "running", "review", "done"} =>
                            \A d \in tasks'[i].deps : tasks'[d].status = "done"
    BY <1>2 DEF WorkRestsOnDone
  <2>1. tasks'[i].deps = tasks[i].deps /\ tasks[i].deps \subseteq DOMAIN tasks
    BY <1>2, <1>4 DEF BoardInv, WorkRestsOnDone
  <2>2. ASSUME NEW d \in DOMAIN tasks, tasks[d].status = "done"
        PROVE  tasks'[d].status = "done"
    BY <1>2, <1>5, <2>2
  <2>3. ASSUME tasks'[i].status \in {"ready", "running", "review", "done"}
        PROVE  \A d \in tasks[i].deps : tasks[d].status = "done"
    <3>1. CASE i # c.task
      BY <1>2, <2>3, <3>1 DEF BoardInv, WorkRestsOnDone
    <3>2. CASE i = c.task
      <4>1. c.target \in {"ready", "running", "review", "done"}
        BY <1>2, <1>4, <2>3, <3>2
      <4>2. CASE c.target \in {"ready", "running"}
        BY <1>2, <3>2, <4>2 DEF DepsReady
      <4>3. CASE c.target \in {"review", "done"}
        BY <1>2, <1>5, <3>2, <4>3 DEF BoardInv, WorkRestsOnDone
      <4> QED
        BY <4>1, <4>2, <4>3
    <3> QED
      BY <3>1, <3>2
  <2> QED
    BY <2>1, <2>2, <2>3
<1>8. AppliedTasksExist'
  <2>1. IsFiniteSet(applied')
    BY <1>2, FS_AddElement DEF BoardInv, AppliedTasksExist
  <2> QED
    BY <1>2, <2>1 DEF BoardInv, AppliedTasksExist
<1>9. KeyNamesOneCommand'
  BY <1>2 DEF BoardInv, KeyNamesOneCommand, Move, Fresh
<1>10. RevisionCountsCommands'
  <2> SUFFICES ASSUME NEW i \in DOMAIN tasks
               PROVE  tasks'[i].rev = Cardinality({d \in applied' : d.task = i})
    BY <1>2 DEF RevisionCountsCommands
  <2> DEFINE S == {d \in applied : d.task = i}
  <2>1. tasks[i].rev = Cardinality(S)
    BY DEF BoardInv, RevisionCountsCommands
  <2>2. CASE i = c.task
    <3>1. {d \in applied' : d.task = i} = S \cup {c}
      BY <1>2, <2>2
    <3>2. c \notin S
      BY FreshIsNew DEF Move
    <3>3. IsFiniteSet(S)
      BY FS_Subset DEF BoardInv, AppliedTasksExist
    <3>4. Cardinality(S \cup {c}) = Cardinality(S) + 1
      BY <3>2, <3>3, FS_AddElement
    <3> QED
      BY <1>2, <1>4, <2>1, <2>2, <3>1, <3>4
  <2>3. CASE i # c.task
    <3>1. {d \in applied' : d.task = i} = S
      BY <1>2, <2>3
    <3> QED
      BY <1>2, <2>1, <2>3, <3>1
  <2> QED
    BY <2>2, <2>3
<1> QED
  BY <1>6, <1>7, <1>8, <1>9, <1>10 DEF BoardInv

\* Every command of the board preserves the invariant.
LEMMA BoardInvStep == BoardInv /\ [BoardNext]_bvars => BoardInv'
<1> SUFFICES ASSUME BoardInv, [BoardNext]_bvars PROVE BoardInv'
  OBVIOUS
<1>1. CASE BoardNext
  BY <1>1, CreateKeepsInv, MoveKeepsInv DEF BoardNext
<1>2. CASE UNCHANGED bvars
  BY <1>2 DEF bvars, BoardInv, BoardTypeOK, WorkRestsOnDone, RevisionCountsCommands,
     KeyNamesOneCommand, AppliedTasksExist
<1> QED
  BY <1>1, <1>2

\* BoardInv holds in every reachable state of the board.
THEOREM BoardInvariant == BoardSpec => []BoardInv
BY BoardInvInit, BoardInvStep, PTL DEF BoardSpec

\* The board keeps its types.
THEOREM BoardTypeCorrect == BoardSpec => []BoardTypeOK
  BY BoardInvariant, PTL DEF BoardInv

\* Work rests on finished work, for any board and any dependency graph, although
\* transition_task looks at dependencies on two moves only.
THEOREM WorkIsGrounded == BoardSpec => []WorkRestsOnDone
  BY BoardInvariant, PTL DEF BoardInv

\* A task's revision counts the distinct commands applied to it: retries and
\* replays of transition_task never count twice.
THEOREM CommandsApplyOnce == BoardSpec => []RevisionCountsCommands
  BY BoardInvariant, PTL DEF BoardInv

\* An idempotency key stands for one command for ever.
THEOREM KeysAreUnique == BoardSpec => []KeyNamesOneCommand
  BY BoardInvariant, PTL DEF BoardInv
=============================================================================
