----------------------------- MODULE TaskLedger -----------------------------
(***************************************************************************)
(* The writers, files and pointer of TaskService (src/raytsystem/          *)
(* tasking.py).  A command is committed in steps: task object, event and   *)
(* generation are published as immutable, content-addressed files, the new *)
(* generation's closure is validated, CURRENT is read again and replaced.  *)
(* A writer may die between any two steps; readers take no lock.           *)
(*                                                                         *)
(* An event names its predecessor and a generation names its parent by     *)
(* hash, so either stands for the whole history that leads to it: both are *)
(* represented by that sequence of entries.                                *)
(***************************************************************************)
EXTENDS TaskRules, Sequences, SequencesExt

CONSTANTS Writers,    \* processes that run task commands
          Requests,   \* the commands they are sent
          NoWriter,   \* nobody holds ops/locks/task-ledger.lock
          MaxEvents,  \* max_events
          MaxTasks,   \* max_tasks
          MaxTries    \* bound on submissions

ASSUME BoundsOK ==
    /\ NoWriter \notin Writers
    /\ Requests \subseteq Commands
    /\ {MaxEvents, MaxTasks, MaxTries} \subseteq Nat

VARIABLES objects,  \* published task objects
          taskEvents,   \* published events
          taskGens,     \* published generations
          taskCurrent,  \* the generation CURRENT names; <<>> when it is absent
          lock,     \* holder of the writer lock
          pc, job,  \* per writer: step and command at work
          seen,     \* per writer: the generation its client read last
          acks,     \* results handed back: command and its generation
          tries     \* submissions so far

tasksVars == <<objects, taskEvents, taskGens, taskCurrent, lock, pc, job, seen, acks, tries>>

Entry == [cmd : Commands, at : Nat, from : Statuses \cup {"none"}, rec : Task]

Jobs == [cmd : Requests, at : 0..MaxTime, expected : Seq(Entry), base : Seq(Entry),
         next : Seq(Entry)]

NoJob == [cmd |-> "none"]

TasksTypeOK ==
    /\ objects \subseteq (Tasks \X Task)
    /\ taskEvents \subseteq Seq(Entry)
    /\ taskGens \subseteq Seq(Entry)
    /\ taskCurrent \in Seq(Entry)
    /\ lock \in Writers \cup {NoWriter}
    /\ pc \in [Writers -> {"idle", "wait", "decide", "task", "event", "gen",
                           "closure", "point"}]
    /\ job \in [Writers -> Jobs \cup {NoJob}]
    /\ \A w \in Writers : pc[w] # "idle" => job[w] \in Jobs
    /\ seen \in [Writers -> Seq(Entry)]
    /\ acks \subseteq (Commands \X Seq(Entry))
    /\ tries \in Nat

TasksInit ==
    /\ objects = {} /\ taskEvents = {} /\ taskGens = {}
    /\ taskCurrent = <<>>
    /\ lock = NoWriter
    /\ pc = [w \in Writers |-> "idle"]
    /\ job = [w \in Writers |-> NoJob]
    /\ seen = [w \in Writers |-> <<>>]
    /\ acks = {}
    /\ tries = 0

-----------------------------------------------------------------------------
(* Histories                                                               *)

TaskIds(h) == {h[i].cmd.task : i \in DOMAIN h}

\* task_hashes of a generation, resolved: the last entry of each task.
Board(h) ==
    [t \in TaskIds(h) |->
        LET last == CHOOSE i \in DOMAIN h :
                       /\ h[i].cmd.task = t
                       /\ \A j \in DOMAIN h : h[j].cmd.task = t => j <= i
        IN h[last].rec]

Applied(h) == {h[i].cmd : i \in DOMAIN h}

LastTime(h) == IF h = <<>> THEN 0 ELSE Last(h).at

\* Every file _validate_generation_closure reads exists.
Stored(h) ==
    \A i \in DOMAIN h :
        LET p == SubSeq(h, 1, i) IN
        p \in taskGens /\ p \in taskEvents /\ <<h[i].cmd.task, h[i].rec>> \in objects

\* Head i of the history agrees with its parent generation: _validate_created_event,
\* _validate_transition_event and the generation-level checks around them.
HeadValid(h, i) ==
    LET e == h[i]
        parent == SubSeq(h, 1, i - 1)
        board == Board(parent)
        c == e.cmd
    IN /\ \A j \in 1..(i - 1) : h[j].cmd.key # c.key
       /\ LastTime(parent) <= e.at
       /\ e.rec.updated = e.at
       /\ IF c.kind = "create"
          THEN /\ c.task \notin DOMAIN board
               /\ e.rec.rev = 1 /\ e.rec.status = "inbox"
               /\ e.rec.deps = c.deps /\ c.deps \subseteq DOMAIN board
          ELSE /\ c.task \in DOMAIN board
               /\ e.from = board[c.task].status
               /\ e.rec.rev = board[c.task].rev + 1
               /\ e.rec.updated >= board[c.task].updated
               /\ e.rec.deps = board[c.task].deps
               /\ e.rec.status \in Transitions(board[c.task].status)
               \* the operation key is recomputed from the stored record
               /\ e.rec.status = c.target /\ e.rec.reason = c.reason
               /\ DepsReady(board, e.rec.deps, e.rec.status)

\* _validate_task_graph on the newest board; a cycle would need a task older
\* than its dependency, which HeadValid excludes.
GraphValid(board) ==
    \A t \in DOMAIN board :
        /\ board[t].deps \subseteq DOMAIN board
        /\ DepsReady(board, board[t].deps, board[t].status)

\* Mutation: the history is not compared with its ancestry.
ClosureStoredOnly(h) == Stored(h)

\* _validate_generation_closure
Closure(h) ==
    /\ Stored(h)
    /\ Len(h) <= MaxEvents
    /\ \A i \in DOMAIN h : HeadValid(h, i)
    /\ GraphValid(Board(h))

-----------------------------------------------------------------------------
(* Clients                                                                 *)

\* snapshot(): no lock.  The pointer is read first and the closure after it,
\* but nothing published is ever deleted, so one step stands for both
\* (ReadsStayValid covers the pointer values of the past).
Snapshot(w) ==
    /\ pc[w] = "idle"
    /\ seen[w] # taskCurrent
    /\ Closure(taskCurrent)
    /\ seen' = [seen EXCEPT ![w] = taskCurrent]
    /\ UNCHANGED <<objects, taskEvents, taskGens, taskCurrent, lock, pc, job, acks, tries>>

\* A client sends a command with the generation it last saw and the timestamp
\* of the call; the same command may be sent again by anyone at any time.
Submit(w, c, t) ==
    /\ pc[w] = "idle"
    /\ tries < MaxTries
    /\ job' = [job EXCEPT ![w] = [cmd |-> c, at |-> t, expected |-> seen[w],
                                  base |-> <<>>, next |-> <<>>]]
    /\ pc' = [pc EXCEPT ![w] = "wait"]
    /\ tries' = tries + 1
    /\ UNCHANGED <<objects, taskEvents, taskGens, taskCurrent, lock, seen, acks>>

-----------------------------------------------------------------------------
(* The command, under the writer lock                                      *)

\* _writer_lock: flock(LOCK_EX).
Lock(w) ==
    /\ pc[w] = "wait"
    /\ lock = NoWriter
    /\ lock' = w
    /\ pc' = [pc EXCEPT ![w] = "decide"]
    /\ UNCHANGED <<objects, taskEvents, taskGens, taskCurrent, job, seen, acks, tries>>

\* Mutation: an early return that leaves the lock held.
LeaveHolding(w) ==
    /\ pc' = [pc EXCEPT ![w] = "idle"]
    /\ job' = [job EXCEPT ![w] = NoJob]
    /\ lock' = lock

\* Leaving the with-block, by a return or by an exception.
Leave(w) ==
    /\ pc' = [pc EXCEPT ![w] = "idle"]
    /\ job' = [job EXCEPT ![w] = NoJob]
    /\ lock' = NoWriter

\* _find_operation: the history up to the event of this very command.
Earlier(h, c) == {SubSeq(h, 1, i) : i \in {j \in DOMAIN h : h[j].cmd = c}}
KeyTaken(h, c) == \E i \in DOMAIN h : h[i].cmd.key = c.key

\* Mutation: a retry is answered with the board of now.
ReplayNewest(w) ==
    /\ pc[w] = "decide"
    /\ \E h \in Earlier(taskCurrent, job[w].cmd) : acks' = acks \cup {<<job[w].cmd, taskCurrent>>}
    /\ Leave(w)
    /\ UNCHANGED <<objects, taskEvents, taskGens, taskCurrent, seen, tries>>

\* _result_for_event: a retry gets the result of the first time, before the
\* expected generation is looked at.
Replay(w) ==
    /\ pc[w] = "decide"
    /\ \E h \in Earlier(taskCurrent, job[w].cmd) : acks' = acks \cup {<<job[w].cmd, h>>}
    /\ Leave(w)
    /\ UNCHANGED <<objects, taskEvents, taskGens, taskCurrent, seen, tries>>

\* The checks of create_task and transition_task after _find_operation.
Accepted(c, expected, t) ==
    LET board == Board(taskCurrent) IN
    /\ ~KeyTaken(taskCurrent, c)
    /\ expected = taskCurrent
    /\ IF c.kind = "create"
       THEN Cardinality(DOMAIN board) < MaxTasks /\ c.deps \subseteq DOMAIN board
       ELSE /\ c.task \in DOMAIN board
            /\ c.target \in Transitions(board[c.task].status)
            /\ DepsReady(board, board[c.task].deps, c.target)
            /\ t >= board[c.task].updated
            /\ c.target = "blocked" => c.reason

\* The event and task object of a command applied to history h.
EntryFor(h, c, t) ==
    LET board == Board(h) IN
    IF c.kind = "create"
    THEN [cmd |-> c, at |-> t, from |-> "none", rec |-> NewTask(c, t)]
    ELSE [cmd |-> c, at |-> t, from |-> board[c.task].status,
          rec |-> MovedTask(board[c.task], c, t)]

Reject(w) ==
    /\ pc[w] = "decide"
    /\ Earlier(taskCurrent, job[w].cmd) = {}
    /\ ~Accepted(job[w].cmd, job[w].expected, job[w].at)
    /\ Leave(w)
    /\ UNCHANGED <<objects, taskEvents, taskGens, taskCurrent, seen, acks, tries>>

Accept(w) ==
    /\ pc[w] = "decide"
    /\ Earlier(taskCurrent, job[w].cmd) = {}
    /\ Accepted(job[w].cmd, job[w].expected, job[w].at)
    /\ job' = [job EXCEPT ![w].base = taskCurrent,
                          ![w].next = Append(taskCurrent, EntryFor(taskCurrent, job[w].cmd, job[w].at))]
    /\ pc' = [pc EXCEPT ![w] = "task"]
    /\ UNCHANGED <<objects, taskEvents, taskGens, taskCurrent, lock, seen, acks, tries>>

\* _commit, first part.
PublishTask(w) ==
    /\ pc[w] = "task"
    /\ objects' = objects \cup {<<job[w].cmd.task, Last(job[w].next).rec>>}
    /\ pc' = [pc EXCEPT ![w] = "event"]
    /\ UNCHANGED <<taskEvents, taskGens, taskCurrent, lock, job, seen, acks, tries>>

PublishTaskEvent(w) ==
    /\ pc[w] = "event"
    /\ taskEvents' = taskEvents \cup {job[w].next}
    /\ pc' = [pc EXCEPT ![w] = "gen"]
    /\ UNCHANGED <<objects, taskGens, taskCurrent, lock, job, seen, acks, tries>>

\* The event limit is looked at only after the event file is published.
LimitReached(w) ==
    /\ pc[w] = "gen"
    /\ Len(job[w].next) > MaxEvents
    /\ Leave(w)
    /\ UNCHANGED <<objects, taskEvents, taskGens, taskCurrent, seen, acks, tries>>

\* Mutation: the generation file is written after the pointer.
PublishGenLate(w) ==
    /\ pc[w] = "gen"
    /\ taskCurrent' = job[w].next
    /\ pc' = [pc EXCEPT ![w] = "closure"]
    /\ UNCHANGED <<objects, taskEvents, taskGens, lock, job, seen, acks, tries>>

PublishGen(w) ==
    /\ pc[w] = "gen"
    /\ Len(job[w].next) <= MaxEvents
    /\ taskGens' = taskGens \cup {job[w].next}
    /\ pc' = [pc EXCEPT ![w] = "closure"]
    /\ UNCHANGED <<objects, taskEvents, taskCurrent, lock, job, seen, acks, tries>>

CheckClosure(w) ==
    /\ pc[w] = "closure"
    /\ IF Closure(job[w].next) /\ taskCurrent = job[w].base
       THEN pc' = [pc EXCEPT ![w] = "point"] /\ UNCHANGED <<lock, job>>
       ELSE Leave(w)
    /\ UNCHANGED <<objects, taskEvents, taskGens, taskCurrent, seen, acks, tries>>

\* write_bytes_atomic on CURRENT.
MovePointer(w) ==
    /\ pc[w] = "point"
    /\ taskCurrent' = job[w].next
    /\ acks' = acks \cup {<<job[w].cmd, job[w].next>>}
    /\ Leave(w)
    /\ UNCHANGED <<objects, taskEvents, taskGens, seen, tries>>

\* The process dies right after the pointer write: the caller gets no answer.
CrashAfterPointer(w) ==
    /\ pc[w] = "point"
    /\ taskCurrent' = job[w].next
    /\ seen' = [seen EXCEPT ![w] = <<>>]
    /\ Leave(w)
    /\ UNCHANGED <<objects, taskEvents, taskGens, acks, tries>>

\* The process dies anywhere else: the kernel drops its flock, published files
\* stay.
WriterDies(w) ==
    /\ pc[w] # "idle"
    /\ pc' = [pc EXCEPT ![w] = "idle"]
    /\ job' = [job EXCEPT ![w] = NoJob]
    /\ lock' = IF lock = w THEN NoWriter ELSE lock
    /\ seen' = [seen EXCEPT ![w] = <<>>]
    /\ UNCHANGED <<objects, taskEvents, taskGens, taskCurrent, acks, tries>>

WriterStep(w) ==
    \/ Replay(w) \/ Reject(w) \/ Accept(w)
    \/ PublishTask(w) \/ PublishTaskEvent(w) \/ LimitReached(w) \/ PublishGen(w)
    \/ CheckClosure(w) \/ MovePointer(w)

TasksNext ==
    \E w \in Writers :
        \/ Snapshot(w)
        \/ \E c \in Requests, t \in 0..MaxTime : Submit(w, c, t)
        \/ Lock(w) \/ WriterStep(w) \/ WriterDies(w) \/ CrashAfterPointer(w)

\* The code never pauses on its own between two steps; flock wakes a waiter
\* when the lock is free.
Fairness == \A w \in Writers : WF_tasksVars(Lock(w)) /\ WF_tasksVars(WriterStep(w))

TasksSpec == TasksInit /\ [][TasksNext]_tasksVars /\ Fairness

-----------------------------------------------------------------------------
\* The generation CURRENT names, and every one it ever named that some client
\* still holds, can be loaded and passes the closure check: a lock-free reader
\* never meets a half-published board, at whatever step a writer died.
ReadsStayValid ==
    /\ Closure(taskCurrent)
    /\ \A w \in Writers : Closure(seen[w])

\* A result that was handed out stays true: the command's generation remains
\* in the ancestry of CURRENT and ends with that command, for first answers
\* and retries alike.
AcksStayTrue ==
    \A x \in acks : /\ IsPrefix(x[2], taskCurrent)
                    /\ x[2] # <<>> /\ Last(x[2]).cmd = x[1]

\* The ledger implements TaskBoard: every move of the pointer is one legal
\* command of the abstract board, everything else is invisible to readers.
TheBoard == INSTANCE TaskBoard WITH Commands <- Requests,
                                    tasks <- Board(taskCurrent),
                                    applied <- Applied(taskCurrent),
                                    clock <- LastTime(taskCurrent)
ImplementsBoard == TheBoard!BoardSpec

\* Every submitted command is answered or its process dies: no early return,
\* failed check or crash of another writer leaves the lock held.
CommandsEnd == \A w \in Writers : pc[w] = "wait" ~> pc[w] = "idle"

-----------------------------------------------------------------------------
(* The inductive invariant of TaskLedgerProofs                             *)

\* Every task of the history has a newest entry: what Board chooses exists.
Newest(h, i) ==
    /\ i \in DOMAIN h
    /\ \A j \in DOMAIN h : h[j].cmd.task = h[i].cmd.task => j <= i
BoardChosen(h) ==
    \A t \in TaskIds(h) : \E i \in DOMAIN h : h[i].cmd.task = t /\ Newest(h, i)

\* Whoever is past the lock holds it.
LockHeld == \A w \in Writers : pc[w] \notin {"idle", "wait"} => lock = w

\* A command that was accepted is still built on the generation CURRENT names,
\* and what stands before the pointer move passed the closure check.
OnTop(j) ==
    /\ Accepted(j.cmd, j.expected, j.at)
    /\ j.base = taskCurrent
    /\ j.next = Append(taskCurrent, EntryFor(taskCurrent, j.cmd, j.at))
WorkOnTop ==
    \A w \in Writers :
        /\ pc[w] \notin {"idle", "wait", "decide"} => OnTop(job[w])
        /\ pc[w] = "point" => Closure(job[w].next)

LedgerInv ==
    /\ TasksTypeOK
    /\ BoardChosen(taskCurrent)
    /\ LockHeld
    /\ WorkOnTop
    /\ ReadsStayValid
    /\ AcksStayTrue
=============================================================================
