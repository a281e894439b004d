--------------------------- MODULE TaskWorkspaces ---------------------------
(* Workspaces of tasks (execution/workspace.py): prepare reads the task     *)
(* board, the catalog, the Git head and the code graph (Sources: those the  *)
(* configuration has; a fixture has no head of its own) one after another,  *)
(* looks at all of them again, publishes the workspace file by file under a *)
(* name derived from what it read, and looks again.  Nothing is locked.     *)
EXTENDS PlatformStore, Sequences

CONSTANTS Sources,             \* the order in which prepare reads them
          MaxPrepares, MaxMoves   \* bounds of a behaviour

VARIABLES now,      \* the current version of every source
          spaces,   \* workspaces on disk, by the versions they are bound to
          prep,     \* the prepare call of each caller
          mbudget,  \* bounds: calls, source changes, deaths
          handed    \* history: preparations returned, with whether they were ever true

mvars == <<now, spaces, prep, mbudget, handed>>

SourceSet == {Sources[i] : i \in 1 .. Len(Sources)}
ASSUME SpaceAssumption == Sources \in Seq(SourceSet) /\ Sources # <<>>

PrepIdle == [step |-> "idle"]
Unread == [s \in SourceSet |-> 0]

\* What a workspace is made of, in the order it is made (_persist).
Parts == <<"root", "repo", "folders", "context", "manifest">>
PartSet == {Parts[i] : i \in 1 .. Len(Parts)}
Versions == [SourceSet -> Nat]
SpaceIds == Versions \X BOOLEAN
PrepCalls == [step : {"read", "stable", "persist", "publish", "raced", "validate", "again", "return"},
              at : Nat \ {0}, bound : Versions, fixture : BOOLEAN, joint : BOOLEAN, still : BOOLEAN]

SpaceTypeOK ==
    /\ now \in Versions
    /\ DOMAIN spaces \subseteq SpaceIds /\ spaces \in [DOMAIN spaces -> SUBSET PartSet]
    /\ prep \in [Callers -> PrepCalls \cup {PrepIdle}]
    /\ \A h \in handed : h.id \in SpaceIds

SpaceInit ==
    /\ now = [s \in SourceSet |-> 1]
    /\ spaces = [b \in {} |-> {}]
    /\ prep = [c \in Callers |-> PrepIdle]
    /\ mbudget = [calls |-> 0, moves |-> 0, deaths |-> 0]
    /\ handed = {}

\* workspace_id: derived from everything the workspace is bound to.
SpaceId(c) == <<prep[c].bound, prep[c].fixture>>

\* The parts on disk of a workspace.
OnDisk(b) == IF b \in DOMAIN spaces THEN spaces[b] ELSE {}
Put(b, part) == spaces' = [x \in DOMAIN spaces \cup {b} |-> IF x = b THEN OnDisk(b) \cup {part} ELSE spaces[x]]

GoOn(c, step, at) == prep' = [prep EXCEPT ![c].step = step, ![c].at = at]
Fail(c) == prep' = [prep EXCEPT ![c] = PrepIdle]

\* prepare begins, in fixture mode (an empty repository) or with a worktree.
\* History: "joint", all that was read was current at the last read; "still",
\* nothing was put back to what it had been since the call began.
StartPrepare(c, fixture) ==
    /\ prep[c] = PrepIdle
    /\ mbudget.calls < MaxPrepares
    /\ mbudget' = [mbudget EXCEPT !.calls = @ + 1]
    /\ prep' = [prep EXCEPT ![c] = [step |-> "read", at |-> 1, bound |-> Unread, fixture |-> fixture,
                                     joint |-> FALSE, still |-> TRUE]]
    /\ UNCHANGED <<now, spaces, handed>>

\* In fixture mode the commit is the caller's: no head is read or looked at again.
FromCaller(call, s) == call.fixture /\ s = "head"

\* Task board, catalog, head (_git_binding) and graph (_graph_binding), one
\* read each.
ReadSource(c) ==
    LET call == prep[c]
        s == Sources[call.at]
        bound == [call.bound EXCEPT ![s] = IF FromCaller(call, s) THEN @ ELSE now[s]]
        joint == \A t \in SourceSet : FromCaller(call, t) \/ bound[t] = now[t]
    IN
    /\ call.step = "read"
    /\ prep' = [prep EXCEPT ![c] =
                  IF call.at < Len(Sources) THEN [call EXCEPT !.bound = bound, !.at = call.at + 1]
                  ELSE [call EXCEPT !.step = "stable", !.at = 1, !.bound = bound, !.joint = joint]]
    /\ UNCHANGED <<now, spaces, mbudget, handed>>

\* A second look that stops after the first source.
StableFirst(c) == prep[c].at > 1 \/ now[Sources[1]] = prep[c].bound[Sources[1]]

\* _assert_sources_stable, source by source.
StableAt(c) ==
    LET s == Sources[prep[c].at] IN FromCaller(prep[c], s) \/ now[s] = prep[c].bound[s]

\* Before the workspace is published, and again after it.
AssertStable(c) ==
    /\ prep[c].step \in {"stable", "again"}
    /\ CASE ~StableAt(c) -> Fail(c)
         [] StableAt(c) /\ prep[c].at < Len(Sources) -> GoOn(c, prep[c].step, prep[c].at + 1)
         [] OTHER -> GoOn(c, IF prep[c].step = "stable" THEN "persist" ELSE "return", 1)
    /\ UNCHANGED <<now, spaces, mbudget, handed>>

\* A workspace that is there is used if it is whole (_validate_existing).
FindExisting(c) ==
    /\ prep[c].step = "persist"
    /\ CASE OnDisk(SpaceId(c)) = {} -> GoOn(c, "publish", 1)
         [] OnDisk(SpaceId(c)) = PartSet -> GoOn(c, "again", 1)
         [] OTHER -> Fail(c)
    /\ UNCHANGED <<now, spaces, mbudget, handed>>

\* Directories may be there already; a worktree or a published file of
\* another writer ends the call.  publish_immutable never replaces.
MayExist(c, part) == part \in {"root", "folders"} \/ (part = "repo" /\ prep[c].fixture)

PublishPart(c) ==
    LET part == Parts[prep[c].at]  there == part \in OnDisk(SpaceId(c)) IN
    /\ prep[c].step = "publish"
    /\ Put(SpaceId(c), part)
    /\ CASE there /\ part = "context" -> GoOn(c, "raced", prep[c].at)
         [] there /\ part # "context" /\ ~MayExist(c, part) -> Fail(c)
         [] OTHER -> IF prep[c].at < Len(Parts) THEN GoOn(c, "publish", prep[c].at + 1) ELSE GoOn(c, "validate", 1)
    /\ UNCHANGED <<now, mbudget, handed>>

\* A writer that found one document published writes the manifest and fails.
PublishRaced(c) ==
    /\ prep[c].step = "raced"
    /\ Put(SpaceId(c), "manifest")
    /\ Fail(c)
    /\ UNCHANGED <<now, mbudget, handed>>

Validate(c) ==
    /\ prep[c].step = "validate"
    /\ IF OnDisk(SpaceId(c)) = PartSet THEN GoOn(c, "again", 1) ELSE Fail(c)
    /\ UNCHANGED <<now, spaces, mbudget, handed>>

HandOver(c) ==
    /\ prep[c].step = "return"
    /\ handed' = handed \cup {[id |-> SpaceId(c), joint |-> prep[c].joint, still |-> prep[c].still]}
    /\ Fail(c)
    /\ UNCHANGED <<now, spaces, mbudget>>

\* A task command, a catalog edit, a commit or a new graph snapshot.
MoveSource(s) ==
    /\ mbudget.moves < MaxMoves
    /\ mbudget' = [mbudget EXCEPT !.moves = @ + 1]
    /\ now' = [now EXCEPT ![s] = @ + 1]
    /\ UNCHANGED <<spaces, prep, handed>>

\* A catalog, head or graph is put back to an earlier version.  A generation of
\* the task board names its parent and never comes back.
RestoreSource(s) ==
    /\ s # "tasks" /\ now[s] > 1
    /\ mbudget.moves < MaxMoves
    /\ mbudget' = [mbudget EXCEPT !.moves = @ + 1]
    /\ \E v \in 1 .. now[s] - 1 : now' = [now EXCEPT ![s] = v]
    /\ prep' = [c \in Callers |-> IF prep[c] = PrepIdle THEN PrepIdle ELSE [prep[c] EXCEPT !.still = FALSE]]
    /\ UNCHANGED <<spaces, handed>>

PreparerDies(c) ==
    /\ prep[c] # PrepIdle
    /\ mbudget.deaths < MaxDeaths
    /\ mbudget' = [mbudget EXCEPT !.deaths = @ + 1]
    /\ Fail(c)
    /\ UNCHANGED <<now, spaces, handed>>

SpaceNext ==
    \/ \E c \in Callers :
         \/ \E fixture \in BOOLEAN : StartPrepare(c, fixture)
         \/ ReadSource(c) \/ AssertStable(c) \/ FindExisting(c) \/ PublishPart(c)
         \/ PublishRaced(c) \/ Validate(c) \/ HandOver(c) \/ PreparerDies(c)
    \/ \E s \in SourceSet : MoveSource(s) \/ RestoreSource(s)

-----------------------------------------------------------------------------
\* A workspace that is handed over is whole, and what it is bound to - the task
\* generation, the catalog, the graph and, unless a fixture's caller names it,
\* the commit - was all current at one moment, although it is read one by one
\* and changes under way (_assert_sources_stable).  The second look compares
\* hashes, so it says this only of calls under which no catalog, head or graph
\* was put back to what it had been.
HandedTogether == \A h \in handed : (h.still => h.joint) /\ OnDisk(h.id) = PartSet

-----------------------------------------------------------------------------
\* The workspaces that have all their parts.
WholeSpaces == {b \in DOMAIN spaces : spaces[b] = PartSet}

\* Where nothing was put back, what was read is not newer than what is there;
\* if the reads did not meet in one moment, a source that the first look has
\* still to reach has moved on; past that look they met.  In any case the
\* workspace is whole past the second step.
PrepStands(call, versions, whole) ==
    /\ call.still => \A s \in SourceSet : call.bound[s] <= versions[s]
    /\ call.step \in {"read", "stable", "again"} => call.at \in 1 .. Len(Sources)
    /\ call.step = "publish" => call.at \in 1 .. Len(Parts)
    /\ call.still /\ call.step = "stable" =>
         call.joint \/ \E i \in 1 .. Len(Sources) : /\ call.at <= i /\ ~FromCaller(call, Sources[i])
                                                   /\ call.bound[Sources[i]] < versions[Sources[i]]
    /\ call.still /\ call.step \notin {"read", "stable"} => call.joint
    /\ call.step \in {"again", "return"} => <<call.bound, call.fixture>> \in whole

\* The inductive invariant of task workspaces.
SpaceInv ==
    /\ SpaceTypeOK
    /\ HandedTogether
    /\ \A c \in Callers : prep[c] # PrepIdle => PrepStands(prep[c], now, WholeSpaces)
=============================================================================
