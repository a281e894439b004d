------------------------------ MODULE CodeGraph ------------------------------
(* The code graph (codegraph/projection.py, detect.py, querying.py): a      *)
(* builder reads the source files one by one, derives a snapshot, reads     *)
(* them again, and moves CURRENT under a fenced lease; a query answers from *)
(* the snapshot only while it describes the files.  Nothing keeps people    *)
(* from editing meanwhile, or from putting back what was there before.      *)
(* Derived data is what it is derived from: a snapshot is the files and the *)
(* Git head it was built from; the extraction cache, keyed by content,      *)
(* answers what extraction would.                                           *)
EXTENDS PlatformStore, Sequences

CONSTANTS CodePaths,        \* paths the configuration may find
          CodeTexts,        \* what a file may hold
          Heads,            \* Git heads: a branch and its commit
          MaxGraphMoves     \* bound: calls and edits together

Gone == "gone"
ASSUME GraphAssumption == CodeTexts # {} /\ Heads # {} /\ Gone \notin CodeTexts

VARIABLES moments,    \* the workspace as it was, oldest first; the last is now
          published,  \* snapshots and manifests on disk
          pointer,    \* CURRENT
          flat,       \* manifest.json
          gwal,       \* WAL.json
          glease,     \* the lease projection:code_graph and the guard on it
          qcall,      \* the call of each caller
          qbudget,    \* bounds: calls and edits, deaths
          swap        \* history: the moments of CURRENT's last write and of the one before

qvars == <<moments, published, pointer, flat, gwal, glease, qcall, qbudget, swap>>

QIdle == [step |-> "idle"]
NoSnapshot == [state |-> "none"]
Open == "none"

\* The files, and the workspace at a moment: the files and the Git head.
CodeFiles == [CodePaths -> CodeTexts \cup {Gone}]
Moments == [files : CodeFiles, head : Heads]
Now == moments[Len(moments)]

\* A snapshot: what was read, the head, and the build it is from (created_at,
\* mtimes and metrics make the bytes of every build its own).
Snapshots == [files : CodeFiles, head : Heads, build : Nat]
NothingFound == [p \in CodePaths |-> Gone]
NothingDerived == [files |-> NothingFound, head |-> CHOOSE h \in Heads : TRUE, build |-> 0]

Builds == [step : {"recover", "old", "list", "read", "noop", "snapshot", "manifest", "prepare", "pointer", "flat",
                   "committed", "fail", "release"},
           pass : {"first", "second"}, fence : Nat, old : Snapshots \cup {NoSnapshot}, snap : Snapshots,
           names : SUBSET CodePaths, todo : SUBSET CodePaths, found : CodeFiles]
Queries == [step : {"list", "read", "wal", "git", "answer", "answered", "fail"}, pass : {"query"}, since : Nat,
            judged : Snapshots, snap : Snapshots \cup {NoSnapshot}, names : SUBSET CodePaths, todo : SUBSET CodePaths, found : CodeFiles]

GraphTypeOK ==
    /\ moments \in Seq(Moments) /\ moments # <<>>
    /\ published \in [snapshots : SUBSET Snapshots, manifests : SUBSET Snapshots]
    /\ pointer \in Snapshots \cup {NoSnapshot} /\ flat \in Snapshots \cup {NoSnapshot}
    /\ glease \in [fence : Nat, live : BOOLEAN, guard : Callers \cup {Open}]
    /\ qcall \in [Callers -> {QIdle} \cup Builds \cup Queries]
    /\ swap \in [before : Nat, last : Nat]

GraphInit ==
    /\ moments = <<[files |-> [p \in CodePaths |-> CHOOSE t \in CodeTexts : TRUE], head |-> CHOOSE h \in Heads : TRUE]>>
    /\ published = [snapshots |-> {}, manifests |-> {}]
    /\ pointer = NoSnapshot /\ flat = NoSnapshot
    /\ gwal = [state |-> "none"]
    /\ glease = [fence |-> 0, live |-> FALSE, guard |-> Open]
    /\ qcall = [c \in Callers |-> QIdle]
    /\ qbudget = [moves |-> 0, deaths |-> 0]
    /\ swap = [before |-> 1, last |-> 1]

-----------------------------------------------------------------------------
QGo(c, step) == qcall' = [qcall EXCEPT ![c].step = step]
QEnd(c) == qcall' = [qcall EXCEPT ![c] = QIdle]
NotBuilding == UNCHANGED <<moments, published, pointer, flat, gwal, glease, qbudget, swap>>

\* hold_valid_leases lets the call in: its lease is the newest and runs.
Leased(c) == glease.live /\ glease.fence = qcall[c].fence /\ glease.guard = Open

\* _load_current: the objects CURRENT names are there and fit each other.
Loadable == pointer \in published.snapshots \cap published.manifests

\* _write_fenced_wal; without the lease the call fails.
FencedWal(c, record, next) ==
    IF Leased(c) THEN gwal' = record /\ QGo(c, next) ELSE QGo(c, "fail") /\ UNCHANGED gwal

-----------------------------------------------------------------------------
\* update and rebuild begin with the lease; while another call has it they
\* fail at once.
StartBuild(c) ==
    /\ qcall[c] = QIdle
    /\ qbudget.moves < MaxGraphMoves
    /\ ~glease.live /\ glease.guard = Open
    /\ qbudget' = [qbudget EXCEPT !.moves = @ + 1]
    /\ glease' = [fence |-> glease.fence + 1, live |-> TRUE, guard |-> Open]
    /\ qcall' = [qcall EXCEPT ![c] = [step |-> "recover", pass |-> "first", fence |-> glease.fence + 1,
                                      old |-> NoSnapshot, snap |-> NothingDerived, names |-> CodePaths, todo |-> {},
                                      found |-> NothingFound]]
    /\ UNCHANGED <<moments, published, pointer, flat, gwal, swap>>

\* _recover_if_committed: a builder that died after its pointer is finished.
RecoverCommitted(c) ==
    LET pending == gwal.state = "prepared" /\ Loadable /\ pointer = gwal.snap IN
    /\ qcall[c].step = "recover"
    /\ IF pending /\ Leased(c)
       THEN flat' = pointer /\ gwal' = [state |-> "committed", snap |-> pointer]
       ELSE UNCHANGED <<flat, gwal>>
    /\ QGo(c, IF pending /\ ~Leased(c) THEN "fail" ELSE "old")
    /\ UNCHANGED <<moments, published, pointer, glease, qbudget, swap>>

\* The snapshot so far, if it can be loaded, and the log's first entry.
LoadOld(c) ==
    /\ qcall[c].step = "old"
    /\ IF Leased(c)
       THEN /\ gwal' = [state |-> "building"]
            /\ qcall' = [qcall EXCEPT ![c].step = "list", ![c].old = IF Loadable THEN pointer ELSE NoSnapshot]
       ELSE QGo(c, "fail") /\ UNCHANGED gwal
    /\ UNCHANGED <<moments, published, pointer, flat, glease, qbudget, swap>>

\* detect_files: the names first, directory by directory (candidate_paths, here
\* each path in one of its own) ...
ListPaths(c) ==
    LET call == qcall[c]  p == CHOOSE x \in call.names : TRUE IN
    /\ call.step = "list"
    /\ IF call.names = {} THEN QGo(c, "read")
       ELSE qcall' = [qcall EXCEPT ![c] = [call EXCEPT !.names = @ \ {p}, !.found[p] = Gone,
                                           !.todo = IF Now.files[p] = Gone THEN @ ELSE @ \cup {p}]]
    /\ NotBuilding

\* ... then one file after the other; a listed file that is gone is an error.
\* The order is by name; any order does no harm here.
ReadCode(c) ==
    LET call == qcall[c]  p == CHOOSE x \in call.todo : TRUE IN
    /\ call.step = "read" /\ call.todo # {}
    /\ IF Now.files[p] # Gone
       THEN qcall' = [qcall EXCEPT ![c] = [call EXCEPT !.todo = @ \ {p}, !.found[p] = Now.files[p]]]
       ELSE QGo(c, "fail")
    /\ NotBuilding

\* What is derived from the bytes that were read, by extraction or from the
\* cache under their hash.
SnapshotOf(call, head) == [files |-> call.found, head |-> head, build |-> call.fence]

\* The same logical fingerprint and head.
SameContent(snap, old) == old # NoSnapshot /\ old.files = snap.files /\ old.head = snap.head

\* _git_metadata.
GitHead == Now.head

\* Every file is extracted; the Git head is asked here.
Extract(c) ==
    LET call == qcall[c]  snap == SnapshotOf(call, GitHead) IN
    /\ call.step = "read" /\ call.todo = {} /\ call.pass = "first"
    /\ IF Leased(c)
       THEN qcall' = [qcall EXCEPT ![c].step = IF SameContent(snap, call.old) THEN "noop" ELSE "list",
                                   ![c].pass = "second", ![c].snap = snap, ![c].names = CodePaths]
       ELSE QGo(c, "fail")
    /\ NotBuilding

\* Nothing changed: the log says so and the call ends.
CommitNoop(c) ==
    /\ qcall[c].step = "noop"
    /\ FencedWal(c, [state |-> "committed", snap |-> qcall[c].snap], "release")
    /\ UNCHANGED <<moments, published, pointer, flat, glease, qbudget, swap>>

\* Mutation: one look at the files is enough.
SeenAgainOnce(call) == TRUE

\* observed_again: both looks found the same.
SeenAgain(call) == call.found = call.snap.files

CompareInputs(c) ==
    LET call == qcall[c] IN
    /\ call.step = "read" /\ call.todo = {} /\ call.pass = "second"
    /\ QGo(c, IF SeenAgain(call) THEN "snapshot" ELSE "fail")
    /\ NotBuilding

\* Both objects are immutable and named by their content: no lease is needed.
PublishSnapshot(c) ==
    /\ qcall[c].step = "snapshot"
    /\ published' = [published EXCEPT !.snapshots = @ \cup {qcall[c].snap}]
    /\ QGo(c, "manifest")
    /\ UNCHANGED <<moments, pointer, flat, gwal, glease, qbudget, swap>>

PublishManifest(c) ==
    /\ qcall[c].step = "manifest"
    /\ published' = [published EXCEPT !.manifests = @ \cup {qcall[c].snap}]
    /\ QGo(c, "prepare")
    /\ UNCHANGED <<moments, pointer, flat, gwal, glease, qbudget, swap>>

PrepareGraph(c) ==
    /\ qcall[c].step = "prepare"
    /\ FencedWal(c, [state |-> "prepared", snap |-> qcall[c].snap], "pointer")
    /\ UNCHANGED <<moments, published, pointer, flat, glease, qbudget, swap>>

\* The guard around the last three writes is opened with the first.
SwapPointer(c) ==
    /\ qcall[c].step = "pointer"
    /\ IF Leased(c)
       THEN /\ pointer' = qcall[c].snap /\ QGo(c, "flat")
            /\ glease' = [glease EXCEPT !.guard = c]
            /\ swap' = [before |-> swap.last, last |-> Len(moments)]
       ELSE QGo(c, "fail") /\ UNCHANGED <<pointer, glease, swap>>
    /\ UNCHANGED <<moments, published, flat, gwal, qbudget>>

WriteFlat(c) ==
    /\ qcall[c].step = "flat"
    /\ flat' = qcall[c].snap
    /\ QGo(c, "committed")
    /\ UNCHANGED <<moments, published, pointer, gwal, glease, qbudget, swap>>

CommitGraph(c) ==
    /\ qcall[c].step = "committed"
    /\ gwal' = [state |-> "committed", snap |-> qcall[c].snap]
    /\ glease' = [glease EXCEPT !.guard = Open]
    /\ QGo(c, "release")
    /\ UNCHANGED <<moments, published, pointer, flat, qbudget, swap>>

\* An error is logged if the lease is still good; a query just fails.
FailBuild(c) ==
    /\ qcall[c].step = "fail"
    /\ IF qcall[c].pass # "query"
       THEN /\ gwal' = IF Leased(c) THEN [state |-> "error"] ELSE gwal
            /\ QGo(c, "release")
       ELSE QEnd(c) /\ UNCHANGED gwal
    /\ UNCHANGED <<moments, published, pointer, flat, glease, qbudget, swap>>

ReleaseGraph(c) ==
    /\ qcall[c].step = "release"
    /\ glease' = IF glease.fence = qcall[c].fence THEN [glease EXCEPT !.live = FALSE] ELSE glease
    /\ QEnd(c)
    /\ UNCHANGED <<moments, published, pointer, flat, gwal, qbudget, swap>>

-----------------------------------------------------------------------------
\* A query: status loads the snapshot, ...
StartQuery(c) ==
    /\ qcall[c] = QIdle
    /\ qbudget.moves < MaxGraphMoves
    /\ Loadable
    /\ qbudget' = [qbudget EXCEPT !.moves = @ + 1]
    /\ qcall' = [qcall EXCEPT ![c] = [step |-> "list", pass |-> "query", since |-> Len(moments),
                                      judged |-> pointer, snap |-> pointer, names |-> CodePaths, todo |-> {},
                                      found |-> NothingFound]]
    /\ UNCHANGED <<moments, published, pointer, flat, gwal, glease, swap>>

\* ... compares it with the files, ...
CompareStatus(c) ==
    LET call == qcall[c] IN
    /\ call.step = "read" /\ call.todo = {} /\ call.pass = "query"
    /\ IF call.found = call.snap.files THEN QGo(c, "wal") ELSE QEnd(c)
    /\ NotBuilding

\* _wal_state: a builder at work, or one that left its work, is in the way,
\* unless its pointer has been written already.
NoBuilderSeen(snap) == gwal.state \in {"building", "prepared"} => gwal.state = "prepared" /\ gwal.snap = snap

ReadLog(c) ==
    /\ qcall[c].step = "wal"
    /\ IF NoBuilderSeen(qcall[c].snap) THEN QGo(c, "git") ELSE QEnd(c)
    /\ NotBuilding

CompareHead(c) ==
    /\ qcall[c].step = "git"
    /\ IF GitHead = qcall[c].snap.head THEN QGo(c, "answer") ELSE QEnd(c)
    /\ NotBuilding

\* ... and when all is well current_snapshot loads the snapshot once more: the
\* one that was judged, unless CURRENT moved.
Answer(c) ==
    /\ qcall[c].step = "answer"
    /\ qcall' = [qcall EXCEPT ![c].step = "answered", ![c].snap = pointer]
    /\ NotBuilding

Answered(c) == qcall[c].step = "answered" /\ QEnd(c) /\ NotBuilding

-----------------------------------------------------------------------------
\* A person writes, adds or removes a file, or commits or checks out: to what
\* was there before as well as to something new.
EditCode ==
    /\ qbudget.moves < MaxGraphMoves
    /\ qbudget' = [qbudget EXCEPT !.moves = @ + 1]
    /\ \/ \E p \in CodePaths, text \in CodeTexts \cup {Gone} :
            text # Now.files[p] /\ moments' = Append(moments, [Now EXCEPT !.files[p] = text])
       \/ \E head \in Heads \ {Now.head} : moments' = Append(moments, [Now EXCEPT !.head = head])
    /\ UNCHANGED <<published, pointer, flat, gwal, glease, qcall, swap>>

\* A lease runs out under a builder that is slow.
GraphLeaseExpires ==
    /\ glease.live /\ glease.guard = Open
    /\ glease' = [glease EXCEPT !.live = FALSE]
    /\ UNCHANGED <<moments, published, pointer, flat, gwal, qcall, qbudget, swap>>

\* A guard ends with the process that holds it; the lease does not.
BuilderDies(c) ==
    /\ qcall[c] # QIdle
    /\ qbudget.deaths < MaxDeaths
    /\ qbudget' = [qbudget EXCEPT !.deaths = @ + 1]
    /\ glease' = IF glease.guard = c THEN [glease EXCEPT !.guard = Open] ELSE glease
    /\ QEnd(c)
    /\ UNCHANGED <<moments, published, pointer, flat, gwal, swap>>

GraphNext ==
    \/ \E c \in Callers :
         \/ StartBuild(c) \/ RecoverCommitted(c) \/ LoadOld(c) \/ ListPaths(c) \/ ReadCode(c) \/ Extract(c)
         \/ CommitNoop(c) \/ CompareInputs(c) \/ PublishSnapshot(c) \/ PublishManifest(c) \/ PrepareGraph(c)
         \/ SwapPointer(c) \/ WriteFlat(c) \/ CommitGraph(c) \/ FailBuild(c) \/ ReleaseGraph(c)
         \/ StartQuery(c) \/ CompareStatus(c) \/ ReadLog(c) \/ CompareHead(c) \/ Answer(c) \/ Answered(c)
         \/ BuilderDies(c)
    \/ EditCode \/ GraphLeaseExpires

-----------------------------------------------------------------------------
\* A file held the text, or the snapshot's texts were all there, between two
\* moments: file by file, for nothing keeps all of them still at once.
Seen(past, p, text, i, j) == \E k \in i .. j : past[k].files[p] = text
AllSeen(past, snap, i, j) == \A p \in CodePaths : Seen(past, p, snap.files[p], i, j)

\* The texts were there before and after a moment that had the snapshot's head.
SeenAround(past, snap, i, j) ==
    \E k \in i .. j : past[k].head = snap.head /\ AllSeen(past, snap, i, k) /\ AllSeen(past, snap, k, j)

\* What CURRENT describes was there, file by file, before and after one moment
\* of its Git head, all of it since CURRENT was last something else, although
\* leases run out under builders; and what a query judged to be current was
\* there, file by file, with its head, since the query was asked (_build,
\* detect_files, status).
AnswersCurrent ==
    /\ pointer # NoSnapshot => SeenAround(moments, pointer, swap.before, swap.last)
    /\ \A c \in Callers : qcall[c].step = "answered" =>
         /\ AllSeen(moments, qcall[c].judged, qcall[c].since, Len(moments))
         /\ \E k \in qcall[c].since .. Len(moments) : moments[k].head = qcall[c].judged.head

-----------------------------------------------------------------------------
\* The paths a pass is done with were as found since moment n.
DoneSeen(past, call, n) == \A p \in CodePaths \ (call.names \cup call.todo) : Seen(past, p, call.found[p], n, Len(past))

\* What is true of the builder with the newest lease between two steps, CURRENT
\* being from moment n.
BuildStands(past, call, n) ==
    /\ call.step \in {"recover", "old"} => call.pass = "first" /\ call.names = CodePaths
    /\ call.step \in {"list", "read"} /\ call.pass = "first" => DoneSeen(past, call, n)
    /\ call.step = "read" => call.names = {}
    /\ call.step \in {"list", "read"} /\ call.pass = "second" =>
         \E k \in n .. Len(past) : /\ past[k].head = call.snap.head /\ AllSeen(past, call.snap, n, k)
                                    /\ DoneSeen(past, call, k)
    /\ call.step \in {"snapshot", "manifest", "prepare", "pointer"} =>
         SeenAround(past, call.snap, n, Len(past))

\* And of a query: what it finds is compared with CURRENT as it was.
QueryStands(past, call) ==
    /\ call.since \in 1 .. Len(past)
    /\ call.step \in {"list", "read"} => DoneSeen(past, call, call.since)
    /\ call.step = "read" => call.names = {}
    /\ call.step # "answered" => call.snap = call.judged
    /\ call.step \in {"wal", "git", "answer", "answered"} => AllSeen(past, call.judged, call.since, Len(past))
    /\ call.step \in {"answer", "answered"} => \E k \in call.since .. Len(past) : past[k].head = call.judged.head

Building(c) == qcall[c] # QIdle /\ qcall[c].pass # "query"
Asking(c) == qcall[c] # QIdle /\ qcall[c].pass = "query"

GraphInv ==
    /\ GraphTypeOK
    /\ 1 <= swap.before /\ swap.before <= swap.last /\ swap.last <= Len(moments)
    /\ pointer # NoSnapshot => SeenAround(moments, pointer, swap.before, swap.last)
    /\ \A c \in Callers : Building(c) => /\ qcall[c].fence <= glease.fence
                                         /\ qcall[c].fence = glease.fence => BuildStands(moments, qcall[c], swap.last)
                                         /\ \A d \in Callers : Building(d) /\ qcall[d].fence = qcall[c].fence => d = c
    /\ \A c \in Callers : Asking(c) => QueryStands(moments, qcall[c])
=============================================================================
