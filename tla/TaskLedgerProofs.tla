-------------------------- MODULE TaskLedgerProofs --------------------------
(***************************************************************************)
(* The task ledger for any number of writers, commands, submissions and    *)
(* crashes: what readers and callers were shown stays true, and the ledger *)
(* implements the board of TaskBoard, so that the board's theorems hold of *)
(* the files.                                                              *)
(***************************************************************************)
EXTENDS TaskLedger, TLAPS

\* The theorems of the board, for the board the ledger shows.
Shown == INSTANCE TaskBoardProofs WITH Commands <- Requests,
                                       tasks <- Board(taskCurrent),
                                       applied <- Applied(taskCurrent),
                                       clock <- LastTime(taskCurrent)

-----------------------------------------------------------------------------
(* Histories                                                               *)

\* Appending an entry keeps the history that was there and ends with the entry.
LEMMA Appending ==
    ASSUME NEW h \in Seq(Entry), NEW e \in Entry
    PROVE  /\ Append(h, e) \in Seq(Entry)
           /\ Len(Append(h, e)) = Len(h) + 1
           /\ DOMAIN h = 1..Len(h) /\ DOMAIN Append(h, e) = 1..(Len(h) + 1)
           /\ \A i \in DOMAIN h : Append(h, e)[i] = h[i]
           /\ Append(h, e)[Len(h) + 1] = e
           /\ Last(Append(h, e)) = e
           /\ SubSeq(Append(h, e), 1, Len(h)) = h
           /\ Append(h, e) # <<>>
<1>1. SubSeq(Append(h, e), 1, Len(h)) = h
  OBVIOUS
<1>2. /\ Append(h, e) \in Seq(Entry)
      /\ Len(Append(h, e)) = Len(h) + 1
      /\ DOMAIN h = 1..Len(h) /\ DOMAIN Append(h, e) = 1..(Len(h) + 1)
      /\ \A i \in DOMAIN h : Append(h, e)[i] = h[i]
  OBVIOUS
<1>3. Append(h, e)[Len(h) + 1] = e
  OBVIOUS
<1>4. Append(h, e) # <<>>
  BY <1>2
<1>. QED  BY <1>1, <1>2, <1>3, <1>4 DEF Last

\* A prefix of a history is a prefix of what is appended to it.
LEMMA PrefixKept ==
    ASSUME NEW h \in Seq(Entry), NEW e \in Entry, NEW p \in Seq(Entry), IsPrefix(p, h)
    PROVE  IsPrefix(p, Append(h, e))
<1>1. Len(p) \in Nat /\ Len(h) \in Nat /\ Len(p) <= Len(h)
  BY DEF IsPrefix
<1>2. SubSeq(Append(h, e), 1, Len(p)) = SubSeq(h, 1, Len(p))
  BY <1>1
<1>. QED  BY <1>1, <1>2, Appending DEF IsPrefix

\* A history cut after entry i is a prefix that ends with entry i.
LEMMA CutIsPrefix ==
    ASSUME NEW h \in Seq(Entry), NEW i \in DOMAIN h
    PROVE  /\ SubSeq(h, 1, i) \in Seq(Entry)
           /\ IsPrefix(SubSeq(h, 1, i), h)
           /\ SubSeq(h, 1, i) # <<>>
           /\ Last(SubSeq(h, 1, i)) = h[i]
<1>1. i \in 1..Len(h) /\ Len(h) \in Nat
  OBVIOUS
<1> DEFINE p == SubSeq(h, 1, i)
<1>2. p \in Seq(Entry) /\ Len(p) = i /\ p[i] = h[i]
  BY <1>1
<1>3. SubSeq(p, 1, i) = p
  BY <1>1, <1>2
<1>. QED  BY <1>1, <1>2, <1>3 DEF IsPrefix, Last

\* The tasks of a history and of what is appended to it.
LEMMA TaskIdsAppend ==
    ASSUME NEW h \in Seq(Entry), NEW e \in Entry
    PROVE  TaskIds(Append(h, e)) = TaskIds(h) \cup {e.cmd.task}
BY Appending DEF TaskIds

\* The commands of a history and of what is appended to it.
LEMMA AppliedAppend ==
    ASSUME NEW h \in Seq(Entry), NEW e \in Entry
    PROVE  Applied(Append(h, e)) = Applied(h) \cup {e.cmd}
BY Appending DEF Applied

\* The board shows a task's newest record (task_hashes of a generation).
LEMMA BoardShowsNewest ==
    ASSUME NEW h \in Seq(Entry), NEW i \in DOMAIN h, Newest(h, i)
    PROVE  h[i].cmd.task \in DOMAIN Board(h) /\ Board(h)[h[i].cmd.task] = h[i].rec
<1> DEFINE t == h[i].cmd.task
           P(k) == h[k].cmd.task = t /\ \A j \in DOMAIN h : h[j].cmd.task = t => j <= k
           last == CHOOSE k \in DOMAIN h : P(k)
<1>1. t \in TaskIds(h)
  BY DEF TaskIds
<1>2. P(i)
  BY DEF Newest
<1>3. last \in DOMAIN h /\ P(last)
  BY <1>2
<1>4. last = i
  <2>1. last <= i /\ i <= last
    BY <1>2, <1>3
  <2>. QED  BY <1>3, <2>1
<1>. QED  BY <1>1, <1>4 DEF Board

\* What the board shows are task records.
LEMMA BoardType ==
    ASSUME NEW h \in Seq(Entry), BoardChosen(h)
    PROVE  /\ DOMAIN Board(h) = TaskIds(h)
           /\ Board(h) \in [TaskIds(h) -> Task]
<1>1. DOMAIN Board(h) = TaskIds(h)
  BY DEF Board
<1>2. ASSUME NEW t \in TaskIds(h) PROVE Board(h)[t] \in Task
  <2>1. PICK i \in DOMAIN h : h[i].cmd.task = t /\ Newest(h, i)
    BY DEF BoardChosen
  <2>2. h[i] \in Entry
    OBVIOUS
  <2>. QED  BY <2>1, <2>2, BoardShowsNewest DEF Entry
<1>3. Board(h) = [t \in TaskIds(h) |-> Board(h)[t]]
  BY DEF Board
<1>. QED  BY <1>1, <1>2, <1>3

\* Appending an entry changes the record of its task and of no other task.
LEMMA BoardAppend ==
    ASSUME NEW h \in Seq(Entry), BoardChosen(h), NEW e \in Entry
    PROVE  /\ BoardChosen(Append(h, e))
           /\ DOMAIN Board(Append(h, e)) = DOMAIN Board(h) \cup {e.cmd.task}
           /\ Board(Append(h, e)) =
                [t \in DOMAIN Board(h) \cup {e.cmd.task} |->
                    IF t = e.cmd.task THEN e.rec ELSE Board(h)[t]]
<1> DEFINE g == Append(h, e)
           n == Len(h) + 1
<1>0. Len(h) \in Nat /\ n \in Nat
  OBVIOUS
<1>1. /\ g \in Seq(Entry)
      /\ DOMAIN h = 1..Len(h) /\ DOMAIN g = 1..n
      /\ \A i \in DOMAIN h : g[i] = h[i]
      /\ g[n] = e
  BY Appending
<1>2. TaskIds(g) = TaskIds(h) \cup {e.cmd.task}
  BY TaskIdsAppend
<1> HIDE DEF g
<1>3. Newest(g, n)
  BY <1>0, <1>1 DEF Newest
<1>4. ASSUME NEW i \in DOMAIN h, Newest(h, i), h[i].cmd.task # e.cmd.task
      PROVE  i \in DOMAIN g /\ Newest(g, i) /\ g[i] = h[i]
  <2>1. i \in DOMAIN g /\ g[i] = h[i]
    BY <1>0, <1>1
  <2>2. ASSUME NEW j \in DOMAIN g, g[j].cmd.task = g[i].cmd.task PROVE j <= i
    <3>1. j \in DOMAIN h
      BY <1>0, <1>1, <1>4, <2>1, <2>2
    <3>. QED  BY <1>1, <1>4, <2>1, <2>2, <3>1 DEF Newest
  <2>. QED  BY <2>1, <2>2 DEF Newest
<1>5. ASSUME NEW t \in TaskIds(h), t # e.cmd.task
      PROVE  /\ \E i \in DOMAIN g : g[i].cmd.task = t /\ Newest(g, i)
             /\ Board(g)[t] = Board(h)[t]
  <2>1. PICK i \in DOMAIN h : h[i].cmd.task = t /\ Newest(h, i)
    BY DEF BoardChosen
  <2>2. i \in DOMAIN g /\ Newest(g, i) /\ g[i] = h[i]
    BY <1>4, <1>5, <2>1
  <2>3. Board(h)[t] = h[i].rec
    BY <2>1, BoardShowsNewest
  <2>4. Board(g)[t] = g[i].rec
    BY <1>1, <2>1, <2>2, BoardShowsNewest
  <2>. QED  BY <2>1, <2>2, <2>3, <2>4
<1>6. /\ \E i \in DOMAIN g : g[i].cmd.task = e.cmd.task /\ Newest(g, i)
      /\ Board(g)[e.cmd.task] = e.rec
  <2>1. n \in DOMAIN g
    BY <1>0, <1>1
  <2>. QED  BY <1>1, <1>3, <2>1, BoardShowsNewest
<1>7. BoardChosen(g)
  BY <1>2, <1>5, <1>6 DEF BoardChosen
<1>8. DOMAIN Board(h) = TaskIds(h) /\ DOMAIN Board(g) = TaskIds(g)
  BY DEF Board
<1>9. Board(g) = [t \in TaskIds(g) |-> Board(g)[t]]
  BY DEF Board
<1>. QED
  <2> DEFINE new == [t \in DOMAIN Board(h) \cup {e.cmd.task} |->
                       IF t = e.cmd.task THEN e.rec ELSE Board(h)[t]]
  <2>1. \A t \in TaskIds(g) : Board(g)[t] = new[t]
    BY <1>2, <1>5, <1>6, <1>8
  <2>2. Board(g) = new
    BY <1>2, <1>8, <1>9, <2>1
  <2>. QED  BY <1>2, <1>7, <1>8, <2>2 DEF g

-----------------------------------------------------------------------------
(* The steps of a writer                                                   *)

\* The entry _commit builds for an accepted command is well formed.
LEMMA EntryOfCommand ==
    ASSUME NEW h \in Seq(Entry), BoardChosen(h), NEW c \in Commands, NEW t \in Nat,
           c.kind = "create" \/ c.task \in DOMAIN Board(h)
    PROVE  /\ EntryFor(h, c, t) \in Entry
           /\ EntryFor(h, c, t).cmd = c /\ EntryFor(h, c, t).at = t
           /\ c.kind = "create" => EntryFor(h, c, t).rec = NewTask(c, t)
           /\ c.kind # "create" => EntryFor(h, c, t).rec = MovedTask(Board(h)[c.task], c, t)
<1>1. c \in Command
  BY CommandsOK
<1>2. CASE c.kind = "create"
  <2>1. NewTask(c, t) \in Task
    BY <1>1 DEF NewTask, Task, Command, Statuses
  <2>. QED  BY <1>2, <2>1 DEF EntryFor, Entry
<1>3. CASE c.kind # "create"
  <2>1. Board(h)[c.task] \in Task
    BY <1>3, BoardType
  <2>2. MovedTask(Board(h)[c.task], c, t) \in Task
    BY <1>1, <2>1, CommandsOK, Shown!MovedTaskType
    DEF MovedTask, Task, Command, Statuses, Shown!MovedTask, Shown!Task, Shown!Command, Shown!Statuses
  <2>3. Board(h)[c.task].status \in Statuses
    BY <2>1 DEF Task
  <2>. QED  BY <1>3, <2>2, <2>3 DEF EntryFor, Entry
<1>. QED  BY <1>2, <1>3

\* Nothing published is deleted, so a history that could be loaded can be
\* loaded for ever.
LEMMA ClosureKept ==
    ASSUME objects \subseteq objects', taskEvents \subseteq taskEvents', taskGens \subseteq taskGens',
           NEW h, Closure(h)
    PROVE  Closure(h)'
<1>1. Stored(h)'
  BY DEF Closure, Stored
<1>2. Len(h) <= MaxEvents /\ (\A i \in DOMAIN h : HeadValid(h, i)) /\ GraphValid(Board(h))
  BY DEF Closure
<1>. QED  BY <1>1, <1>2 DEF Closure

\* The absent ledger passes the closure check.
LEMMA EmptyLoads == Closure(<<>>)
BY BoundsOK DEF Closure, Stored, GraphValid, Board, TaskIds

\* What a step leaves alone when only the writer's own step and work change:
\* the invariant needs to be shown only for that writer.
LEMMA OwnStep ==
    ASSUME LedgerInv, NEW w \in Writers, NEW p, NEW j,
           pc' = [pc EXCEPT ![w] = p], job' = [job EXCEPT ![w] = j],
           p \in {"idle", "wait", "decide", "task", "event", "gen", "closure", "point"},
           j \in Jobs \/ (p = "idle" /\ j = NoJob),
           objects \subseteq objects', objects' \subseteq (Tasks \X Task),
           taskEvents \subseteq taskEvents', taskEvents' \subseteq Seq(Entry),
           taskGens \subseteq taskGens', taskGens' \subseteq Seq(Entry),
           taskCurrent' = taskCurrent,
           lock' \in Writers \cup {NoWriter},
           lock' = lock \/ lock \notin Writers \/ lock = w,
           p \notin {"idle", "wait"} => lock' = w,
           p \notin {"idle", "wait", "decide"} => OnTop(j),
           p = "point" => Closure(j.next),
           seen' = seen \/ seen' = [seen EXCEPT ![w] = <<>>],
           acks' = acks, tries' \in Nat
    PROVE  LedgerInv'
<1>0. TasksTypeOK /\ BoardChosen(taskCurrent) /\ LockHeld /\ WorkOnTop /\ ReadsStayValid /\ AcksStayTrue
  BY DEF LedgerInv
<1>1. /\ pc'[w] = p /\ job'[w] = j
      /\ \A v \in Writers : v # w => pc'[v] = pc[v] /\ job'[v] = job[v]
  BY <1>0 DEF TasksTypeOK
<1>2. TasksTypeOK'
  <2>1. pc' \in [Writers -> {"idle", "wait", "decide", "task", "event", "gen", "closure", "point"}]
    BY <1>0 DEF TasksTypeOK
  <2>2. job' \in [Writers -> Jobs \cup {NoJob}]
    BY <1>0 DEF TasksTypeOK
  <2>3. \A v \in Writers : pc'[v] # "idle" => job'[v] \in Jobs
    BY <1>0, <1>1 DEF TasksTypeOK
  <2>4. seen' \in [Writers -> Seq(Entry)]
    <3>1. <<>> \in Seq(Entry)
      OBVIOUS
    <3>. QED  BY <1>0, <3>1 DEF TasksTypeOK
  <2>5. taskCurrent' \in Seq(Entry) /\ acks' \subseteq (Commands \X Seq(Entry))
    BY <1>0 DEF TasksTypeOK
  <2>. QED  BY <2>1, <2>2, <2>3, <2>4, <2>5, Zenon DEF TasksTypeOK
<1>9. taskCurrent' = taskCurrent
  OBVIOUS
<1>3. BoardChosen(taskCurrent)'
  BY <1>0, <1>9
<1>4. LockHeld'
  <2> SUFFICES ASSUME NEW v \in Writers, pc'[v] \notin {"idle", "wait"} PROVE lock' = v
    BY DEF LockHeld
  <2>1. CASE v = w
    BY <1>1, <2>1
  <2>2. CASE v # w
    BY <1>0, <1>1, <2>2 DEF LockHeld
  <2>. QED  BY <2>1, <2>2
<1>5. \A h : Closure(h) => Closure(h)'
  BY ClosureKept
<1>6. WorkOnTop'
  <2>1. \A x : OnTop(x)' <=> OnTop(x)
    BY <1>9 DEF OnTop, Accepted
  <2>2. ASSUME NEW v \in Writers PROVE (pc[v] \notin {"idle", "wait", "decide"} => OnTop(job[v]))'
    <3>1. PICK x : x = job'[v]
      OBVIOUS
    <3>2. ASSUME pc'[v] \notin {"idle", "wait", "decide"} PROVE OnTop(x)
      BY <1>0, <1>1, <3>1, <3>2 DEF WorkOnTop
    <3>3. ASSUME pc'[v] \notin {"idle", "wait", "decide"} PROVE OnTop(x)'
      BY <2>1, <3>2, <3>3
    <3>. QED  BY <3>1, <3>3 DEF OnTop, Accepted
  <2>3. ASSUME NEW v \in Writers PROVE (pc[v] = "point" => Closure(job[v].next))'
    <3>1. PICK x : x = job'[v]
      OBVIOUS
    <3>2. ASSUME pc'[v] = "point" PROVE Closure(x.next)
      BY <1>0, <1>1, <3>1, <3>2 DEF WorkOnTop
    <3>3. ASSUME pc'[v] = "point" PROVE Closure(x.next)'
      BY <1>5, <3>2, <3>3
    <3>. QED  BY <3>1, <3>3
  <2>. QED  BY <2>2, <2>3 DEF WorkOnTop
<1>7. ReadsStayValid'
  <2>1. Closure(taskCurrent)'
    BY <1>0, <1>5 DEF ReadsStayValid
  <2>2. ASSUME NEW v \in Writers PROVE Closure(seen[v])'
    <3>1. seen'[v] = seen[v] \/ seen'[v] = <<>>
      BY <1>0 DEF TasksTypeOK
    <3>. QED  BY <1>0, <1>5, <3>1, EmptyLoads DEF ReadsStayValid
  <2>. QED  BY <2>1, <2>2 DEF ReadsStayValid
<1>8. AcksStayTrue'
  BY <1>0 DEF AcksStayTrue
<1>. QED  BY <1>2, <1>3, <1>4, <1>6, <1>7, <1>8 DEF LedgerInv

\* The generation an accepted command builds: the current one and one entry,
\* that command's.
LEMMA BuiltOnTop ==
    ASSUME LedgerInv, NEW j \in Jobs, OnTop(j)
    PROVE  /\ EntryFor(taskCurrent, j.cmd, j.at) \in Entry
           /\ EntryFor(taskCurrent, j.cmd, j.at).cmd = j.cmd
           /\ j.next \in Seq(Entry)
           /\ j.next = Append(taskCurrent, EntryFor(taskCurrent, j.cmd, j.at))
           /\ j.next # <<>> /\ Last(j.next) = EntryFor(taskCurrent, j.cmd, j.at)
           /\ IsPrefix(taskCurrent, j.next)
           /\ BoardChosen(j.next)
<1>1. taskCurrent \in Seq(Entry) /\ BoardChosen(taskCurrent)
  BY DEF LedgerInv, TasksTypeOK
<1>2. j.cmd \in Commands /\ j.cmd \in Command /\ j.at \in Nat
  BY BoundsOK, CommandsOK DEF Jobs
<1>3. j.cmd.kind = "create" \/ j.cmd.task \in DOMAIN Board(taskCurrent)
  BY DEF OnTop, Accepted
<1>4. PICK e : e = EntryFor(taskCurrent, j.cmd, j.at)
  OBVIOUS
<1>5. e \in Entry /\ e.cmd = j.cmd
  BY <1>1, <1>2, <1>3, <1>4, EntryOfCommand
<1>6. j.next = Append(taskCurrent, e)
  BY <1>4 DEF OnTop
<1>7. IsPrefix(taskCurrent, Append(taskCurrent, e))
  <2>1. IsPrefix(taskCurrent, taskCurrent)
    BY <1>1 DEF IsPrefix
  <2>. QED  BY <1>1, <1>5, <2>1, PrefixKept
<1>8. /\ Append(taskCurrent, e) \in Seq(Entry) /\ Append(taskCurrent, e) # <<>>
      /\ Last(Append(taskCurrent, e)) = e
  BY <1>1, <1>5, Appending
<1>9. BoardChosen(Append(taskCurrent, e))
  BY <1>1, <1>5, BoardAppend
<1>. QED  BY <1>4, <1>5, <1>6, <1>7, <1>8, <1>9

\* Submitting, waiting for the lock and dying keep the invariant.
LEMMA OutsideSteps ==
    ASSUME LedgerInv, NEW w \in Writers,
           \/ \E c \in Requests, t \in 0..MaxTime : Submit(w, c, t)
           \/ Lock(w) \/ WriterDies(w)
    PROVE  LedgerInv'
<1>0. TasksTypeOK /\ LockHeld
  BY DEF LedgerInv
<1>1. ASSUME NEW c \in Requests, NEW t \in 0..MaxTime, Submit(w, c, t) PROVE LedgerInv'
  <2>1. PICK j : j = [cmd |-> c, at |-> t, expected |-> seen[w], base |-> <<>>, next |-> <<>>]
    OBVIOUS
  <2>2. seen[w] \in Seq(Entry) /\ <<>> \in Seq(Entry)
    BY <1>0 DEF TasksTypeOK
  <2>3. j \in Jobs
    BY <2>1, <2>2, BoundsOK DEF Jobs
  <2>4. tries' \in Nat
    BY <1>0, <1>1 DEF Submit, TasksTypeOK
  <2>. QED  BY <1>0, <1>1, <2>1, <2>3, <2>4, OwnStep DEF Submit, TasksTypeOK
<1>2. CASE Lock(w)
  <2>1. PICK j : j = job[w]
    OBVIOUS
  <2>2. j \in Jobs /\ job' = [job EXCEPT ![w] = j]
    BY <1>0, <1>2, <2>1 DEF Lock, TasksTypeOK
  <2>3. lock \notin Writers
    BY <1>2, BoundsOK DEF Lock
  <2>. QED  BY <1>0, <1>2, <2>2, <2>3, OwnStep DEF Lock, TasksTypeOK
<1>3. CASE WriterDies(w)
  BY <1>0, <1>3, OwnStep DEF WriterDies, TasksTypeOK
<1>. QED  BY <1>1, <1>2, <1>3

\* An early return, a failed limit or a failed closure check keeps the invariant.
LEMMA LeavingSteps ==
    ASSUME LedgerInv, NEW w \in Writers, pc[w] \notin {"idle", "wait"}, Leave(w),
           UNCHANGED <<objects, taskEvents, taskGens, taskCurrent, seen, acks, tries>>
    PROVE  LedgerInv'
<1>1. TasksTypeOK /\ lock = w
  BY DEF LedgerInv, LockHeld
<1>. QED  BY <1>1, OwnStep DEF Leave, TasksTypeOK

\* Accepting a command and publishing its files keeps the invariant.
LEMMA PublishingSteps ==
    ASSUME LedgerInv, NEW w \in Writers,
           \/ Accept(w) \/ PublishTask(w) \/ PublishTaskEvent(w) \/ PublishGen(w)
           \/ CheckClosure(w)
    PROVE  LedgerInv'
<1>0. TasksTypeOK /\ LockHeld /\ WorkOnTop /\ BoardChosen(taskCurrent)
  BY DEF LedgerInv
<1>1. pc[w] \notin {"idle", "wait"} /\ lock = w /\ job[w] \in Jobs
  BY <1>0 DEF LockHeld, TasksTypeOK, Accept, PublishTask, PublishTaskEvent, PublishGen, CheckClosure
<1>2. PICK k \in Jobs : k = job[w]
  BY <1>1
<1>3. /\ k.cmd \in Commands /\ k.at \in 0..MaxTime /\ k.at \in Nat
      /\ k.cmd.task \in Tasks
  BY BoundsOK, CommandsOK DEF Jobs, Command
<1>4. job = [job EXCEPT ![w] = k]
  BY <1>0, <1>2 DEF TasksTypeOK
<1>5. CASE Accept(w)
  <2>1. PICK n : n = Append(taskCurrent, EntryFor(taskCurrent, k.cmd, k.at))
    OBVIOUS
  <2>2. PICK j : j = [k EXCEPT !.base = taskCurrent, !.next = n]
    OBVIOUS
  <2>3. Accepted(k.cmd, k.expected, k.at)
    BY <1>2, <1>5 DEF Accept
  <2>4. taskCurrent \in Seq(Entry) /\ n \in Seq(Entry)
    <3>1. k.cmd.kind = "create" \/ k.cmd.task \in DOMAIN Board(taskCurrent)
      BY <2>3 DEF Accepted
    <3>2. taskCurrent \in Seq(Entry) /\ EntryFor(taskCurrent, k.cmd, k.at) \in Entry
      BY <1>0, <1>3, <3>1, EntryOfCommand DEF TasksTypeOK
    <3>. QED  BY <2>1, <3>2, Appending
  <2>5. /\ j \in Jobs /\ j.cmd = k.cmd /\ j.expected = k.expected /\ j.at = k.at
        /\ j.base = taskCurrent /\ j.next = n
    BY <2>2, <2>4 DEF Jobs
  <2>6. OnTop(j)
    BY <2>1, <2>3, <2>5 DEF OnTop
  <2>7. job' = [job EXCEPT ![w] = j]
    BY <1>2, <1>5, <2>1, <2>2 DEF Accept
  <2>. QED  BY <1>0, <1>1, <1>5, <2>5, <2>6, <2>7, OwnStep DEF Accept, TasksTypeOK
<1>6. CASE ~Accept(w)
  <2>1. OnTop(k)
    BY <1>0, <1>2, <1>6 DEF WorkOnTop, PublishTask, PublishTaskEvent, PublishGen, CheckClosure
  <2>2. k.next \in Seq(Entry) /\ Last(k.next) \in Entry
    BY <2>1, BuiltOnTop
  <2>3. CASE PublishTask(w)
    <3>1. objects' \subseteq (Tasks \X Task) /\ objects \subseteq objects'
      BY <1>0, <1>2, <1>3, <2>2, <2>3 DEF PublishTask, TasksTypeOK, Entry
    <3>. QED  BY <1>0, <1>1, <1>4, <2>1, <2>3, <3>1, OwnStep DEF PublishTask, TasksTypeOK
  <2>4. CASE PublishTaskEvent(w)
    <3>1. taskEvents' \subseteq Seq(Entry) /\ taskEvents \subseteq taskEvents'
      BY <1>0, <1>2, <2>2, <2>4 DEF PublishTaskEvent, TasksTypeOK
    <3>2. /\ pc' = [pc EXCEPT ![w] = "gen"]
          /\ UNCHANGED <<objects, taskGens, taskCurrent, lock, job, seen, acks, tries>>
      BY <2>4 DEF PublishTaskEvent
    <3>. QED  BY <1>0, <1>1, <1>4, <2>1, <3>1, <3>2, OwnStep DEF TasksTypeOK
  <2>5. CASE PublishGen(w)
    <3>1. taskGens' \subseteq Seq(Entry) /\ taskGens \subseteq taskGens'
      BY <1>0, <1>2, <2>2, <2>5 DEF PublishGen, TasksTypeOK
    <3>2. /\ pc' = [pc EXCEPT ![w] = "closure"]
          /\ UNCHANGED <<objects, taskEvents, taskCurrent, lock, job, seen, acks, tries>>
      BY <2>5 DEF PublishGen
    <3>. QED  BY <1>0, <1>1, <1>4, <2>1, <3>1, <3>2, OwnStep DEF TasksTypeOK
  <2>6. CASE CheckClosure(w)
    <3>1. CASE Closure(k.next) /\ taskCurrent = k.base
      <4>1. /\ pc' = [pc EXCEPT ![w] = "point"]
            /\ UNCHANGED <<objects, taskEvents, taskGens, taskCurrent, lock, job, seen, acks, tries>>
        BY <1>2, <2>6, <3>1 DEF CheckClosure
      <4>. QED  BY <1>0, <1>1, <1>4, <2>1, <3>1, <4>1, OwnStep DEF TasksTypeOK
    <3>2. CASE ~(Closure(k.next) /\ taskCurrent = k.base)
      BY <1>1, <1>2, <2>6, <3>2, LeavingSteps DEF CheckClosure
    <3>. QED  BY <3>1, <3>2
  <2>. QED  BY <1>6, <2>3, <2>4, <2>5, <2>6
<1>. QED  BY <1>5, <1>6

\* Reading the board keeps the invariant: what a reader holds could be loaded.
LEMMA SnapshotStep ==
    ASSUME LedgerInv, NEW w \in Writers, Snapshot(w)
    PROVE  LedgerInv'
<1>0. TasksTypeOK /\ BoardChosen(taskCurrent) /\ LockHeld /\ WorkOnTop /\ ReadsStayValid /\ AcksStayTrue
  BY DEF LedgerInv
<1>1. UNCHANGED <<objects, taskEvents, taskGens, taskCurrent, lock, pc, job, acks, tries>>
  BY DEF Snapshot
<1>2. seen' \in [Writers -> Seq(Entry)] /\ \A v \in Writers : seen'[v] \in {seen[v], taskCurrent}
  BY <1>0 DEF Snapshot, TasksTypeOK
<1>3. TasksTypeOK'
  BY <1>0, <1>1, <1>2 DEF TasksTypeOK
<1>4. \A h : Closure(h)' <=> Closure(h)
  BY <1>1 DEF Closure, Stored
<1>5. ReadsStayValid'
  BY <1>0, <1>1, <1>2, <1>4 DEF ReadsStayValid
<1>6. BoardChosen(taskCurrent)' /\ LockHeld' /\ AcksStayTrue'
  BY <1>0, <1>1 DEF LockHeld, AcksStayTrue
<1>7. WorkOnTop'
  BY <1>0, <1>1, <1>4 DEF WorkOnTop, OnTop, Accepted
<1>. QED  BY <1>3, <1>5, <1>6, <1>7 DEF LedgerInv

\* Answering a retry keeps the invariant: the answer is the generation that ends
\* with the command's own event.
LEMMA ReplayStep ==
    ASSUME LedgerInv, NEW w \in Writers, Replay(w)
    PROVE  LedgerInv'
<1>0. TasksTypeOK /\ BoardChosen(taskCurrent) /\ LockHeld /\ WorkOnTop /\ ReadsStayValid /\ AcksStayTrue
  BY DEF LedgerInv
<1>1. /\ UNCHANGED <<objects, taskEvents, taskGens, taskCurrent, seen, tries>>
      /\ pc' = [pc EXCEPT ![w] = "idle"] /\ job' = [job EXCEPT ![w] = NoJob]
      /\ lock' = NoWriter /\ lock = w /\ job[w] \in Jobs
  BY <1>0 DEF Replay, Leave, LockHeld, TasksTypeOK
<1>2. PICK i \in DOMAIN taskCurrent : /\ taskCurrent[i].cmd = job[w].cmd
                                  /\ acks' = acks \cup {<<job[w].cmd, SubSeq(taskCurrent, 1, i)>>}
  BY DEF Replay, Earlier
<1>3. PICK h \in Seq(Entry) : /\ h = SubSeq(taskCurrent, 1, i) /\ h # <<>> /\ IsPrefix(h, taskCurrent)
                              /\ Last(h).cmd = job[w].cmd
  BY <1>0, <1>2, CutIsPrefix DEF TasksTypeOK
<1>4. PICK c \in Commands : c = job[w].cmd
  BY <1>1, BoundsOK DEF Jobs
<1>5. acks' = acks \cup {<<c, h>>}
  BY <1>2, <1>3, <1>4
<1>6. AcksStayTrue'
  <2>1. ASSUME NEW x \in acks'
        PROVE  IsPrefix(x[2], taskCurrent) /\ x[2] # <<>> /\ Last(x[2]).cmd = x[1]
    <3>1. CASE x \in acks
      BY <1>0, <3>1 DEF AcksStayTrue
    <3>2. CASE x = <<c, h>>
      BY <1>3, <1>4, <3>2
    <3>. QED  BY <1>5, <3>1, <3>2
  <2>. QED  BY <1>1, <2>1 DEF AcksStayTrue
<1>7. TasksTypeOK'
  <2>1. pc' \in [Writers -> {"idle", "wait", "decide", "task", "event", "gen", "closure", "point"}]
    BY <1>0, <1>1 DEF TasksTypeOK
  <2>2. /\ job' \in [Writers -> Jobs \cup {NoJob}]
        /\ \A v \in Writers : pc'[v] # "idle" => job'[v] \in Jobs
    BY <1>0, <1>1 DEF TasksTypeOK
  <2>3. acks' \subseteq (Commands \X Seq(Entry))
    BY <1>0, <1>5 DEF TasksTypeOK
  <2>. QED  BY <1>0, <1>1, <2>1, <2>2, <2>3 DEF TasksTypeOK
<1>8. \A h1 : Closure(h1)' <=> Closure(h1)
  BY <1>1 DEF Closure, Stored
<1>9. ReadsStayValid'
  BY <1>0, <1>1, <1>8 DEF ReadsStayValid
<1>10. \A v \in Writers : pc'[v] \notin {"idle", "wait"} => FALSE
  BY <1>0, <1>1 DEF LockHeld, TasksTypeOK
<1>11. LockHeld' /\ WorkOnTop'
  BY <1>10 DEF LockHeld, WorkOnTop
<1>12. BoardChosen(taskCurrent)'
  BY <1>0, <1>1
<1>. QED  BY <1>6, <1>7, <1>9, <1>11, <1>12 DEF LedgerInv

\* What the pointer moves to: the current generation and the entry of the one
\* command the lock holder accepted, all of it published and valid.
LEMMA PointerTarget ==
    ASSUME LedgerInv, NEW w \in Writers, pc[w] = "point"
    PROVE  job[w] \in Jobs /\ OnTop(job[w]) /\ Closure(job[w].next) /\ lock = w
BY DEF LedgerInv, WorkOnTop, TasksTypeOK, LockHeld

\* Moving CURRENT keeps the invariant, whether the caller gets its answer or the
\* process dies first.
LEMMA PointerSteps ==
    ASSUME LedgerInv, NEW w \in Writers, MovePointer(w) \/ CrashAfterPointer(w)
    PROVE  LedgerInv'
<1>0. TasksTypeOK /\ BoardChosen(taskCurrent) /\ LockHeld /\ WorkOnTop /\ ReadsStayValid /\ AcksStayTrue
  BY DEF LedgerInv
<1>1. PICK j \in Jobs : j = job[w] /\ OnTop(j) /\ Closure(j.next) /\ lock = w
  BY PointerTarget DEF MovePointer, CrashAfterPointer
<1>2. /\ UNCHANGED <<objects, taskEvents, taskGens, tries>>
      /\ taskCurrent' = j.next
      /\ pc' = [pc EXCEPT ![w] = "idle"] /\ job' = [job EXCEPT ![w] = NoJob]
      /\ lock' = NoWriter
      /\ acks' = acks \/ acks' = acks \cup {<<j.cmd, j.next>>}
      /\ seen' = seen \/ seen' = [seen EXCEPT ![w] = <<>>]
  BY <1>1 DEF MovePointer, CrashAfterPointer, Leave
<1>3. PICK e \in Entry : /\ e.cmd = j.cmd /\ j.next = Append(taskCurrent, e)
                         /\ j.next \in Seq(Entry) /\ j.next # <<>> /\ Last(j.next) = e
                         /\ BoardChosen(j.next)
  BY <1>1, BuiltOnTop
<1>4. j.cmd \in Commands
  BY BoundsOK DEF Jobs
<1>5. seen' \in [Writers -> Seq(Entry)] /\ \A v \in Writers : seen'[v] \in {seen[v], <<>>}
  <2>1. <<>> \in Seq(Entry)
    OBVIOUS
  <2>. QED  BY <1>0, <1>2, <2>1 DEF TasksTypeOK
<1>6. TasksTypeOK'
  <2>1. pc' \in [Writers -> {"idle", "wait", "decide", "task", "event", "gen", "closure", "point"}]
    BY <1>0, <1>2 DEF TasksTypeOK
  <2>2. /\ job' \in [Writers -> Jobs \cup {NoJob}]
        /\ \A v \in Writers : pc'[v] # "idle" => job'[v] \in Jobs
    BY <1>0, <1>2 DEF TasksTypeOK
  <2>3. acks' \subseteq (Commands \X Seq(Entry)) /\ taskCurrent' \in Seq(Entry)
    <3>1. <<j.cmd, j.next>> \in Commands \X Seq(Entry)
      BY <1>3, <1>4
    <3>2. acks \subseteq (Commands \X Seq(Entry))
      BY <1>0 DEF TasksTypeOK
    <3>. QED  BY <1>2, <1>3, <3>1, <3>2, Zenon
  <2>. QED  BY <1>0, <1>2, <1>5, <2>1, <2>2, <2>3 DEF TasksTypeOK
<1>7. \A h : Closure(h)' <=> Closure(h)
  BY <1>2 DEF Closure, Stored
<1>8. ReadsStayValid'
  BY <1>0, <1>1, <1>2, <1>5, <1>7, EmptyLoads DEF ReadsStayValid
<1>9. AcksStayTrue'
  <2>1. ASSUME NEW x \in acks
        PROVE  IsPrefix(x[2], j.next) /\ x[2] # <<>> /\ Last(x[2]).cmd = x[1]
    <3>1. x[2] \in Seq(Entry) /\ taskCurrent \in Seq(Entry)
      BY <1>0 DEF TasksTypeOK
    <3>2. IsPrefix(x[2], taskCurrent) /\ x[2] # <<>> /\ Last(x[2]).cmd = x[1]
      BY <1>0 DEF AcksStayTrue
    <3>. QED  BY <1>3, <3>1, <3>2, PrefixKept
  <2>2. IsPrefix(j.next, j.next)
    BY <1>3 DEF IsPrefix
  <2>3. ASSUME NEW x \in acks'
        PROVE  IsPrefix(x[2], j.next) /\ x[2] # <<>> /\ Last(x[2]).cmd = x[1]
    <3>1. CASE x \in acks
      BY <2>1, <3>1
    <3>2. CASE x = <<j.cmd, j.next>>
      BY <1>3, <2>2, <3>2
    <3>. QED  BY <1>2, <3>1, <3>2
  <2>. QED  BY <1>2, <2>3 DEF AcksStayTrue
<1>10. \A v \in Writers : pc'[v] \notin {"idle", "wait"} => FALSE
  BY <1>0, <1>1, <1>2 DEF LockHeld, TasksTypeOK
<1>11. LockHeld' /\ WorkOnTop'
  BY <1>10 DEF LockHeld, WorkOnTop
<1>12. BoardChosen(taskCurrent)'
  BY <1>2, <1>3
<1>. QED  BY <1>6, <1>8, <1>9, <1>11, <1>12 DEF LedgerInv

\* The absent ledger satisfies the invariant.
LEMMA LedgerInvInit == TasksInit => LedgerInv
<1> SUFFICES ASSUME TasksInit PROVE LedgerInv
  OBVIOUS
<1>1. TasksTypeOK
  BY BoundsOK DEF TasksInit, TasksTypeOK
<1>2. BoardChosen(taskCurrent) /\ LockHeld /\ WorkOnTop /\ AcksStayTrue
  BY DEF TasksInit, BoardChosen, TaskIds, LockHeld, WorkOnTop, AcksStayTrue
<1>3. ReadsStayValid
  BY EmptyLoads DEF TasksInit, ReadsStayValid
<1>. QED  BY <1>1, <1>2, <1>3 DEF LedgerInv

\* Every step of every writer keeps the invariant.
LEMMA LedgerInvStep == LedgerInv /\ [TasksNext]_tasksVars => LedgerInv'
<1> SUFFICES ASSUME LedgerInv, [TasksNext]_tasksVars PROVE LedgerInv'
  OBVIOUS
<1>1. CASE UNCHANGED tasksVars
  <2>1. UNCHANGED <<objects, taskEvents, taskGens, taskCurrent, lock, pc, job, seen, acks, tries>>
    BY <1>1 DEF tasksVars
  <2>2. \A h : Closure(h)' <=> Closure(h)
    BY <2>1 DEF Closure, Stored
  <2>3. TasksTypeOK' /\ LockHeld' /\ ReadsStayValid' /\ AcksStayTrue' /\ BoardChosen(taskCurrent)'
    BY <2>1, <2>2 DEF LedgerInv, TasksTypeOK, LockHeld, ReadsStayValid, AcksStayTrue
  <2>4. WorkOnTop'
    BY <2>1, <2>2 DEF LedgerInv, WorkOnTop, OnTop, Accepted
  <2>. QED  BY <2>3, <2>4 DEF LedgerInv
<1>2. ASSUME NEW w \in Writers, Reject(w) \/ LimitReached(w) PROVE LedgerInv'
  BY <1>2, LeavingSteps DEF Reject, LimitReached
<1>. QED  BY <1>1, <1>2, OutsideSteps, PublishingSteps, SnapshotStep, ReplayStep, PointerSteps DEF TasksNext, WriterStep

\* The inductive invariant holds in every reachable state.
THEOREM LedgerInvariant == TasksSpec => []LedgerInv
BY LedgerInvInit, LedgerInvStep, PTL DEF TasksSpec

\* The ledger keeps its types.
THEOREM LedgerTypeCorrect == TasksSpec => []TasksTypeOK
<1>1. LedgerInv => TasksTypeOK
  BY DEF LedgerInv
<1>. QED  BY <1>1, LedgerInvariant, PTL

\* The generation CURRENT names, and every one a lock-free reader still holds,
\* can be loaded and passes _validate_generation_closure, whoever died when.
THEOREM ReadersAlwaysLoad == TasksSpec => []ReadsStayValid
<1>1. LedgerInv => ReadsStayValid
  BY DEF LedgerInv
<1>. QED  BY <1>1, LedgerInvariant, PTL

\* A result handed out by _commit or _result_for_event stays in the ancestry of
\* CURRENT and ends with its command.
THEOREM AnswersStayTrue == TasksSpec => []AcksStayTrue
<1>1. LedgerInv => AcksStayTrue
  BY DEF LedgerInv
<1>. QED  BY <1>1, LedgerInvariant, PTL

-----------------------------------------------------------------------------
(* The ledger implements the board                                         *)

\* The absent ledger shows the empty board.
LEMMA ShowsEmptyBoard == TasksInit => TheBoard!BoardInit
<1> SUFFICES ASSUME TasksInit PROVE TheBoard!BoardInit
  OBVIOUS
<1>1. taskCurrent = <<>> /\ DOMAIN taskCurrent = {}
  BY DEF TasksInit
<1>2. TaskIds(taskCurrent) = {} /\ Applied(taskCurrent) = {} /\ LastTime(taskCurrent) = 0
  BY <1>1 DEF TaskIds, Applied, LastTime
<1>3. Board(taskCurrent) = [i \in {} |-> TheBoard!NewTask(i, 0)]
  BY <1>2 DEF Board
<1>. QED  BY <1>2, <1>3 DEF TheBoard!BoardInit

\* Moving CURRENT is one command of the board: what _commit appended, and the
\* closure check accepted, is a legal creation or transition there.
LEMMA PointerIsCommand ==
    ASSUME LedgerInv, NEW j \in Jobs, OnTop(j), Closure(j.next), taskCurrent' = j.next
    PROVE  TheBoard!BoardNext
<1> DEFINE board == Board(taskCurrent)
           c == j.cmd
           t == j.at
<1>0. taskCurrent \in Seq(Entry) /\ BoardChosen(taskCurrent)
  BY DEF LedgerInv, TasksTypeOK
<1>1. PICK e \in Entry : /\ e = EntryFor(taskCurrent, c, t) /\ e.cmd = c
                         /\ j.next = Append(taskCurrent, e) /\ Last(j.next) = e
                         /\ j.next # <<>>
  BY BuiltOnTop
<1>2. c \in Requests /\ c \in Commands /\ c \in Command /\ t \in 0..MaxTime /\ t \in Nat
  BY BoundsOK, CommandsOK DEF Jobs
<1>3. ~KeyTaken(taskCurrent, c) /\ (c.kind = "create" \/ c.task \in DOMAIN board)
  BY DEF OnTop, Accepted
<1>4. /\ e.at = t
      /\ c.kind = "create" => e.rec = NewTask(c, t)
      /\ c.kind # "create" => e.rec = MovedTask(board[c.task], c, t)
  BY <1>0, <1>1, <1>2, <1>3, EntryOfCommand
<1>5. HeadValid(j.next, Len(taskCurrent) + 1)
  BY <1>0, <1>1, Appending DEF Closure
<1>6. /\ j.next[Len(taskCurrent) + 1] = e
      /\ SubSeq(j.next, 1, Len(taskCurrent)) = taskCurrent
      /\ (Len(taskCurrent) + 1) - 1 = Len(taskCurrent)
  BY <1>0, <1>1, Appending
<1>7. /\ LastTime(taskCurrent) <= t
      /\ c.kind = "create" => c.task \notin DOMAIN board /\ c.deps \subseteq DOMAIN board
      /\ c.kind # "create" => e.rec.reason = c.reason
  BY <1>1, <1>4, <1>5, <1>6 DEF HeadValid
<1>8. \A d \in Applied(taskCurrent) : d.key # c.key
  BY <1>3 DEF Applied, KeyTaken
<1>9. /\ Board(taskCurrent)' = [i \in DOMAIN board \cup {c.task} |->
                              IF i = c.task THEN e.rec ELSE board[i]]
      /\ Applied(taskCurrent)' = Applied(taskCurrent) \cup {c}
      /\ LastTime(taskCurrent)' = t
  <2>1. Board(Append(taskCurrent, e)) = [i \in DOMAIN board \cup {c.task} |->
                                       IF i = c.task THEN e.rec ELSE board[i]]
    <3>1. Board(Append(taskCurrent, e)) = [i \in DOMAIN board \cup {e.cmd.task} |->
                                         IF i = e.cmd.task THEN e.rec ELSE board[i]]
      BY <1>0, BoardAppend, Zenon
    <3>. QED  BY <1>1, <3>1, Zenon
  <2>2. Applied(Append(taskCurrent, e)) = Applied(taskCurrent) \cup {c}
    BY <1>0, <1>1, AppliedAppend
  <2>3. LastTime(j.next) = t
    BY <1>1, <1>4 DEF LastTime
  <2>4. taskCurrent' = j.next /\ j.next = Append(taskCurrent, e)
    BY <1>1
  <2> HIDE DEF board, c, t
  <2>. QED  BY <2>1, <2>2, <2>3, <2>4
<1>10. CASE c.kind = "create"
  <2>1. TheBoard!Create(c, t)
    BY <1>2, <1>4, <1>7, <1>8, <1>9, <1>10
    DEF TheBoard!Create, TheBoard!Fresh, TheBoard!NewTask, NewTask
  <2>. QED  BY <1>2, <2>1 DEF TheBoard!BoardNext
<1>11. CASE c.kind # "create"
  <2>1. /\ c.task \in DOMAIN board
        /\ c.target \in Transitions(board[c.task].status)
        /\ DepsReady(board, board[c.task].deps, c.target)
        /\ c.target = "blocked" => c.reason
    BY <1>11 DEF OnTop, Accepted
  <2>2. c.kind = "move"
    BY <1>2, <1>11 DEF Command
  <2>3. c.reason <=> c.target = "blocked"
    <3>1. PICK b : b = (c.target = "blocked" /\ c.reason)
      OBVIOUS
    <3>2. e.rec = [status |-> c.target, deps |-> board[c.task].deps, rev |-> board[c.task].rev + 1,
                   updated |-> t, reason |-> b]
      BY <1>4, <1>11, <3>1, Zenon DEF MovedTask
    <3>3. e.rec.reason = b
      BY <3>2
    <3>4. c.reason = b
      BY <1>7, <1>11, <3>3
    <3>. QED  BY <2>1, <3>1, <3>4, Zenon
  <2>4. Board(taskCurrent)' = [board EXCEPT ![c.task] = MovedTask(board[c.task], c, t)]
    <3>1. board = [i \in DOMAIN board |-> board[i]] /\ DOMAIN board \cup {c.task} = DOMAIN board
      BY <1>0, <2>1, BoardType
    <3>. QED  BY <1>4, <1>9, <1>11, <3>1
  <2>5. TheBoard!Move(c, t)
    BY <1>7, <1>8, <1>9, <2>1, <2>2, <2>3, <2>4
    DEF TheBoard!Move, TheBoard!Fresh, TheBoard!Transitions, Transitions, TheBoard!DepsReady, DepsReady,
        TheBoard!MovedTask, MovedTask
  <2>. QED  BY <1>2, <2>5 DEF TheBoard!BoardNext
<1>. QED  BY <1>10, <1>11

\* Every step of the ledger is a command of the board or invisible on it.
LEMMA StepIsCommand == LedgerInv /\ [TasksNext]_tasksVars => [TheBoard!BoardNext]_(TheBoard!bvars)
<1> SUFFICES ASSUME LedgerInv, [TasksNext]_tasksVars
             PROVE  TheBoard!BoardNext \/ taskCurrent' = taskCurrent
  BY DEF TheBoard!bvars
<1>1. ASSUME NEW w \in Writers, MovePointer(w) \/ CrashAfterPointer(w)
      PROVE  TheBoard!BoardNext
  <2>1. PICK j \in Jobs : j = job[w] /\ OnTop(j) /\ Closure(j.next)
    BY <1>1, PointerTarget DEF MovePointer, CrashAfterPointer
  <2>. QED  BY <1>1, <2>1, PointerIsCommand DEF MovePointer, CrashAfterPointer
<1>2. CASE TasksNext
  BY <1>1, <1>2 DEF TasksNext, WriterStep, Snapshot, Submit, Lock, Replay, Reject, Accept, PublishTask, PublishTaskEvent,
     LimitReached, PublishGen, CheckClosure, WriterDies
<1>. QED  BY <1>2 DEF tasksVars

\* The files, locks and pointer of TaskService implement the board: every move of
\* CURRENT is one legal command, everything else is invisible to readers.
THEOREM LedgerImplementsBoard == TasksSpec => ImplementsBoard
BY ShowsEmptyBoard, StepIsCommand, LedgerInvariant, PTL DEF TasksSpec, ImplementsBoard, TheBoard!BoardSpec

\* The board of TaskBoard and the board its theorems speak of are the same one.
LEMMA SameBoard ==
    /\ TheBoard!BoardInit => Shown!BoardInit
    /\ [TheBoard!BoardNext]_(TheBoard!bvars) => [Shown!BoardNext]_(Shown!bvars)
    /\ Shown!WorkRestsOnDone => TheBoard!WorkRestsOnDone
    /\ Shown!RevisionCountsCommands => TheBoard!RevisionCountsCommands
<1>1. TheBoard!BoardInit => Shown!BoardInit
  BY DEF TheBoard!BoardInit, Shown!BoardInit, TheBoard!NewTask, Shown!NewTask
<1>2. ASSUME NEW c, NEW t, TheBoard!Create(c, t) PROVE Shown!Create(c, t)
  BY <1>2 DEF TheBoard!Create, Shown!Create, TheBoard!Fresh, Shown!Fresh, TheBoard!NewTask, Shown!NewTask
<1>3. ASSUME NEW c, NEW t, TheBoard!Move(c, t) PROVE Shown!Move(c, t)
  BY <1>3, Zenon DEF TheBoard!Move, Shown!Move, TheBoard!Fresh, Shown!Fresh, TheBoard!MovedTask, Shown!MovedTask,
     TheBoard!Transitions, Shown!Transitions, TheBoard!DepsReady, Shown!DepsReady
<1>4. [TheBoard!BoardNext]_(TheBoard!bvars) => [Shown!BoardNext]_(Shown!bvars)
  BY <1>2, <1>3 DEF TheBoard!BoardNext, Shown!BoardNext, TheBoard!bvars, Shown!bvars
<1>5. Shown!WorkRestsOnDone => TheBoard!WorkRestsOnDone
  BY DEF TheBoard!WorkRestsOnDone, Shown!WorkRestsOnDone
<1>6. Shown!RevisionCountsCommands => TheBoard!RevisionCountsCommands
  BY DEF TheBoard!RevisionCountsCommands, Shown!RevisionCountsCommands, TheBoard!Cardinality, Shown!Cardinality
<1>. QED  BY <1>1, <1>4, <1>5, <1>6

\* The assumption on commands under which the board's theorems were proved.
LEMMA SameCommands ==
    /\ Requests \subseteq Shown!Command
    /\ \A c, d \in Requests :
          c.kind = "create" /\ d.kind = "create" /\ c.task = d.task => c = d
    /\ MaxTime \in Nat
BY BoundsOK, CommandsOK DEF Command, Shown!Command, Statuses, Shown!Statuses

\* The invariant of the board holds of the board the files show.
THEOREM ShownBoardInvariant == TasksSpec => []Shown!BoardInv
<1>1. TasksInit => Shown!BoardInv
  BY ShowsEmptyBoard, SameBoard, SameCommands, Shown!BoardInvInit
<1>2. Shown!BoardInv /\ LedgerInv /\ [TasksNext]_tasksVars => Shown!BoardInv'
  BY StepIsCommand, SameBoard, SameCommands, Shown!BoardInvStep
<1>. QED  BY <1>1, <1>2, LedgerInvariant, PTL DEF TasksSpec

\* What the files say is grounded: in every generation CURRENT ever names, work
\* that is ready, running, under review or done rests on finished dependencies,
\* although readers take no lock and writers may die at any step.
THEOREM LedgerWorkIsGrounded == TasksSpec => []TheBoard!WorkRestsOnDone
<1>1. Shown!BoardInv => TheBoard!WorkRestsOnDone
  BY SameBoard DEF Shown!BoardInv
<1>. QED  BY <1>1, ShownBoardInvariant, PTL

\* Exactly once, in the files: a task's revision is the number of distinct
\* commands applied to it, however often transition_task was retried and whoever
\* died between the pointer and the answer.
THEOREM LedgerAppliesOnce == TasksSpec => []TheBoard!RevisionCountsCommands
<1>1. Shown!BoardInv => TheBoard!RevisionCountsCommands
  BY SameBoard DEF Shown!BoardInv
<1>. QED  BY <1>1, ShownBoardInvariant, PTL
=============================================================================
