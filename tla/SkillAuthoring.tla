--------------------------- MODULE SkillAuthoring ---------------------------
(* Skill authoring (skill_authoring.py): a SKILL.md is saved or forked      *)
(* under an exclusive file lock and one store transaction, step by step on  *)
(* the disk, with a durable intent that the next call rolls back or         *)
(* finishes.  Readers hold the lock shared.  A person may put a file of     *)
(* their own in place of any SKILL.md at any time.                          *)
EXTENDS PlatformStore

CONSTANTS Skills, Local,     \* skill directories; the ones of pack_local, with user trust
          Withheld,          \* skills of unverified provenance or restricted
          SaveTexts, EditTexts,
          MaxSaves, MaxOwnEdits   \* bounds of a behaviour: calls with edits; edits

ASSUME SkillAssumption == Local \subseteq Skills

VARIABLES live,     \* the SKILL.md of each skill
          wit,      \* the witnesses of the open transaction: proposed, original, displaced
          folder,   \* the directory of each skill: none, bare, or marked by a fork
          journal,  \* the recovery intent on disk
          saved,    \* receipts in the store
          slock,    \* who holds the lock exclusively, or shared
          scall,    \* the call each caller is in
          pins,     \* skills of active packages (package_active records)
          sbudget,  \* bounds: calls, edits, deaths; the last inode number
          last,     \* history: the text that was last edited in or committed
          stuck     \* history: a recovery ended in manual_recovery_required

svars == <<live, wit, folder, journal, saved, slock, scall, pins, sbudget, last, stuck>>

NoText == "none"
NoFile == [ino |-> 0, text |-> NoText]
NoWitness == [temp |-> NoFile, guard |-> NoFile, displaced |-> NoFile]
NoIntent == [state |-> "none"]
Torn == [state |-> "torn"]       \* half written, no complete intent beside it
SkillIdle == [step |-> "idle"]
Unlocked == [exclusive |-> {}, shared |-> {}]

\* Every step of a call, up to the lock and under it.
SkillSteps ==
    {"lock", "share", "pending", "reading", "recover", "decide", "intent",
     "temp", "fill", "guard", "displace", "compare", "install", "witness", "untemp",
     "mkdir", "mark", "create", "record", "load", "commit", "finish", "forget",
     "restore", "judge", "remove", "moved", "relink", "drop", "clean", "unfork", "rmdir"}

SkillTexts == SaveTexts \cup EditTexts \cup {NoText, "first", "partial"}
SkillFiles == [ino : Nat, text : SkillTexts]
SkillRequests ==
    {r \in [op : {"save", "fork"}, skill : Skills, target : Skills, text : SkillTexts,
            cat : [Skills -> SkillTexts]] : r.op = "save" => r.skill = r.target}
SkillIntents == [state : {"open"}, req : SkillRequests, ino : Nat]
SkillCalls == [step : SkillSteps, req : SkillRequests \cup {[op |-> "recover"], [op |-> "read"]},
               file : SkillFiles]

SkillTypeOK ==
    /\ live \in [Skills -> SkillFiles]
    /\ wit \in [temp : SkillFiles, guard : SkillFiles, displaced : SkillFiles]
    /\ folder \in [Skills -> {"none", "bare", "marked"}]
    /\ journal \in {NoIntent, Torn} \cup SkillIntents
    /\ saved \subseteq SkillRequests
    /\ slock \in [exclusive : SUBSET Callers, shared : SUBSET Callers]
    /\ scall \in [Callers -> SkillCalls \cup {SkillIdle}]
    /\ pins \subseteq Skills
    /\ sbudget \in [calls : Nat, edits : Nat, deaths : Nat, ino : Nat]
    /\ last \in [Skills -> SkillTexts]
    /\ stuck \in BOOLEAN

\* One local skill does not exist yet.
SkillInit ==
    /\ LET absent == CHOOSE s \in Local : TRUE IN
         /\ folder = [s \in Skills |-> IF s = absent THEN "none" ELSE "bare"]
         /\ live = [s \in Skills |-> IF s = absent THEN NoFile
                                     ELSE [ino |-> 1, text |-> "first"]]
         /\ last = [s \in Skills |-> live[s].text]
    /\ wit = NoWitness /\ journal = NoIntent /\ saved = {} /\ slock = Unlocked
    /\ scall = [c \in Callers |-> SkillIdle]
    /\ pins = {}
    /\ sbudget = [calls |-> 0, edits |-> 0, deaths |-> 0, ino |-> 1]
    /\ stuck = FALSE

-----------------------------------------------------------------------------
\* policy_for_definition, with the pins of the transaction's own snapshot.
Editable(s) == s \in Local \ (Withheld \cup pins)
Forkable(s) == s \notin Withheld

\* What a client read of the catalog: the texts of all skills.
Catalog == [s \in Skills |-> live[s].text]

Step(c, step) == scall' = [scall EXCEPT ![c].step = step]

\* A call goes on with the identity of a file it read or made.
Holding(c, step, file) ==
    scall' = [scall EXCEPT ![c] = [step |-> step, req |-> scall[c].req, file |-> file]]
Same(f, g) == f.ino = g.ino
NextFile(t) == [ino |-> sbudget.ino + 1, text |-> t]
NewIno == sbudget' = [sbudget EXCEPT !.ino = @ + 1]

\* The lock goes with the call, however it ends (_authoring_lock).
Unlocking(c) == slock' = [exclusive |-> slock.exclusive \ {c}, shared |-> slock.shared \ {c}]
End(c) == scall' = [scall EXCEPT ![c] = SkillIdle] /\ Unlocking(c)

AskSkill(c, call) ==
    /\ scall[c] = SkillIdle
    /\ sbudget.calls + sbudget.edits < MaxSaves
    /\ sbudget' = [sbudget EXCEPT !.calls = @ + 1]
    /\ scall' = [scall EXCEPT ![c] = call]
    /\ UNCHANGED <<live, wit, folder, journal, saved, slock, pins, last, stuck>>

SaveRequest(s, t) == [op |-> "save", skill |-> s, target |-> s, text |-> t, cat |-> Catalog]

\* A fork carries the text of its source under the new identifier.
ForkRequest(s, target) == [op |-> "fork", skill |-> s, target |-> target, text |-> live[s].text, cat |-> Catalog]

\* save and create_fork, from what the client saw or as it asked before.
Author(c) ==
    \E req \in {SaveRequest(s, t) : s \in {r \in Skills : live[r] # NoFile}, t \in SaveTexts}
               \cup {ForkRequest(s, target) : s \in {r \in Skills : live[r] # NoFile}, target \in Local}
               \cup saved :
        AskSkill(c, [step |-> "lock", req |-> req, file |-> NoFile])

\* recover_pending on its own.
RecoverPending(c) == journal # NoIntent /\ AskSkill(c, [step |-> "lock", req |-> [op |-> "recover"], file |-> NoFile])

\* catalog_read_guard.
ReadCatalog(c) == AskSkill(c, [step |-> "share", req |-> [op |-> "read"], file |-> NoFile])

LockExclusive(c) ==
    /\ scall[c].step = "lock"
    /\ slock = Unlocked
    /\ slock' = [slock EXCEPT !.exclusive = {c}]
    /\ Step(c, "recover")
    /\ UNCHANGED <<live, wit, folder, journal, saved, pins, sbudget, last, stuck>>

LockShared(c) ==
    /\ scall[c].step = "share"
    /\ slock.exclusive = {}
    /\ slock' = [slock EXCEPT !.shared = @ \cup {c}]
    /\ Step(c, "pending")
    /\ UNCHANGED <<live, wit, folder, journal, saved, pins, sbudget, last, stuck>>

\* _has_pending_recovery: any journal file, torn or whole, keeps a reader out.
NothingPending == journal = NoIntent

LookPending(c) ==
    /\ scall[c].step = "pending"
    /\ IF NothingPending THEN Step(c, "reading") /\ UNCHANGED slock
       ELSE Unlocking(c) /\ Step(c, "lock")
    /\ UNCHANGED <<live, wit, folder, journal, saved, pins, sbudget, last, stuck>>

LeaveReading(c) ==
    /\ scall[c].step = "reading"
    /\ End(c)
    /\ UNCHANGED <<live, wit, folder, journal, saved, pins, sbudget, last, stuck>>

-----------------------------------------------------------------------------
\* manual_recovery_required: the call fails, the intent and all files stay.
Manual(c) == stuck' = TRUE /\ End(c)

\* _recovery_receipt_committed: the receipt decides which way recovery goes.
ReceiptCommitted(i) == i.req \in saved

\* After recovery: a reader takes the guard again, a writer goes on.
Recovered(c) ==
    CASE scall[c].req.op = "read" -> Unlocking(c) /\ Step(c, "share")
      [] scall[c].req.op = "recover" -> End(c)
      [] OTHER -> Step(c, "decide") /\ UNCHANGED slock

\* _recover_pending_journals: finished, rolled back, or not readable at all.
Recover(c) ==
    /\ scall[c].step = "recover"
    /\ CASE journal = NoIntent -> Recovered(c) /\ UNCHANGED stuck
         [] journal = Torn -> Manual(c)
         [] OTHER -> /\ Step(c, IF ReceiptCommitted(journal) THEN "finish" ELSE "restore")
                     /\ UNCHANGED <<slock, stuck>>
    /\ UNCHANGED <<live, wit, folder, journal, saved, pins, sbudget, last>>

\* _require_cas: source and catalog are as the editor saw them.
AsOpened(req) == req.cat = Catalog

\* The store transaction opens: receipt, policy, source and catalog, and the
\* place of a fork must be free.
Decide(c) ==
    LET req == scall[c].req IN
    /\ scall[c].step = "decide"
    /\ IF /\ req \notin saved
          /\ live[req.skill] # NoFile
          /\ IF req.op = "save" THEN Editable(req.skill)
             ELSE Forkable(req.skill) /\ folder[req.target] = "none"
          /\ AsOpened(req)
       THEN Step(c, "intent") /\ UNCHANGED slock
       ELSE End(c)
    /\ UNCHANGED <<live, wit, folder, journal, saved, pins, sbudget, last, stuck>>

\* _new_recovery_intent: candidate file, synced, then renamed.
WriteIntent(c) ==
    /\ scall[c].step = "intent"
    /\ journal' = [state |-> "open", req |-> scall[c].req, ino |-> 0]
    /\ Step(c, IF scall[c].req.op = "save" THEN "temp" ELSE "mkdir")
    /\ UNCHANGED <<live, wit, folder, saved, slock, pins, sbudget, last, stuck>>

-----------------------------------------------------------------------------
\* _atomic_replace: the target is read once more and the proposed file opened ...
OpenTemp(c) ==
    LET s == scall[c].req.skill IN
    /\ scall[c].step = "temp"
    /\ IF live[s].text = scall[c].req.cat[s]
       THEN /\ wit' = [wit EXCEPT !.temp = NextFile("partial")] /\ NewIno
            /\ Holding(c, "fill", live[s])
       ELSE Step(c, "restore") /\ UNCHANGED <<wit, sbudget>>
    /\ UNCHANGED <<live, folder, journal, saved, slock, pins, last, stuck>>

\* ... and written.
FillTemp(c) ==
    /\ scall[c].step = "fill"
    /\ wit' = [wit EXCEPT !.temp.text = scall[c].req.text]
    /\ Step(c, "guard")
    /\ UNCHANGED <<live, folder, journal, saved, slock, pins, sbudget, last, stuck>>

\* A second link keeps the original; it must be the file that was read.
LinkGuard(c) ==
    LET s == scall[c].req.skill IN
    /\ scall[c].step = "guard"
    /\ IF live[s] # NoFile /\ Same(live[s], scall[c].file)
       THEN wit' = [wit EXCEPT !.guard = live[s]] /\ Step(c, "displace")
       ELSE Step(c, "restore") /\ UNCHANGED wit
    /\ UNCHANGED <<live, folder, journal, saved, slock, pins, sbudget, last, stuck>>

\* SKILL.md, whatever it is by now, is moved aside.
Displace(c) ==
    LET s == scall[c].req.skill IN
    /\ scall[c].step = "displace"
    /\ IF live[s] = NoFile THEN Step(c, "restore") /\ UNCHANGED <<live, wit>>
       ELSE /\ live' = [live EXCEPT ![s] = NoFile]
            /\ wit' = [wit EXCEPT !.displaced = live[s]]
            /\ Step(c, "compare")
    /\ UNCHANGED <<folder, journal, saved, slock, pins, sbudget, last, stuck>>

\* A displaced file nobody compares.
DisplacedAlwaysOurs == TRUE

DisplacedIsOriginal == Same(wit.displaced, wit.guard)

\* Another file than the original goes back where nothing is
\* (_restore_displaced_no_replace), else both stay for a person to sort out.
CompareDisplaced(c) ==
    LET s == scall[c].req.skill IN
    /\ scall[c].step = "compare"
    /\ CASE DisplacedIsOriginal ->
              wit' = [wit EXCEPT !.displaced = NoFile] /\ Step(c, "install") /\ UNCHANGED live
         [] ~DisplacedIsOriginal /\ live[s] = NoFile ->
              /\ live' = [live EXCEPT ![s] = wit.displaced]
              /\ wit' = [wit EXCEPT !.displaced = NoFile]
              /\ Step(c, "restore")
         [] OTHER -> Step(c, "restore") /\ UNCHANGED <<live, wit>>
    /\ UNCHANGED <<folder, journal, saved, slock, pins, sbudget, last, stuck>>

\* The proposed file is linked into the empty name, or there is a conflict.
Install(c) ==
    LET s == scall[c].req.skill IN
    /\ scall[c].step = "install"
    /\ IF live[s] = NoFile THEN live' = [live EXCEPT ![s] = wit.temp] /\ Step(c, "witness")
       ELSE Step(c, "restore") /\ UNCHANGED live
    /\ UNCHANGED <<wit, folder, journal, saved, slock, pins, sbudget, last, stuck>>

\* The inode that was installed becomes part of the intent.
WitnessInstalled(c) ==
    LET s == scall[c].req.skill IN
    /\ scall[c].step = "witness"
    /\ IF Same(live[s], wit.temp) THEN journal' = [journal EXCEPT !.ino = live[s].ino] /\ Step(c, "untemp")
       ELSE Step(c, "restore") /\ UNCHANGED journal
    /\ UNCHANGED <<live, wit, folder, saved, slock, pins, sbudget, last, stuck>>

UnlinkTemp(c) ==
    /\ scall[c].step = "untemp"
    /\ wit' = [wit EXCEPT !.temp = NoFile]
    /\ Step(c, "load")
    /\ UNCHANGED <<live, folder, journal, saved, slock, pins, sbudget, last, stuck>>

-----------------------------------------------------------------------------
\* _create_skill_file: directory, marker, SKILL.md, inode into the intent.
MakeFolder(c) ==
    LET s == scall[c].req.target IN
    /\ scall[c].step = "mkdir"
    /\ IF folder[s] = "none" THEN folder' = [folder EXCEPT ![s] = "bare"] /\ Step(c, "mark")
       ELSE Step(c, "unfork") /\ UNCHANGED folder
    /\ UNCHANGED <<live, wit, journal, saved, slock, pins, sbudget, last, stuck>>

MarkFolder(c) ==
    /\ scall[c].step = "mark"
    /\ folder' = [folder EXCEPT ![scall[c].req.target] = "marked"]
    /\ Step(c, "create")
    /\ UNCHANGED <<live, wit, journal, saved, slock, pins, sbudget, last, stuck>>

\* A failed create removes the directory if it can (_cleanup_partial_create);
\* the marker in it keeps it.
CreateSkill(c) ==
    LET s == scall[c].req.target IN
    /\ scall[c].step = "create"
    /\ IF live[s] = NoFile
       THEN /\ live' = [live EXCEPT ![s] = NextFile(scall[c].req.text)] /\ NewIno
            /\ Holding(c, "record", NextFile(scall[c].req.text))
       ELSE Step(c, "unfork") /\ UNCHANGED <<live, sbudget>>
    /\ UNCHANGED <<wit, folder, journal, saved, slock, pins, last, stuck>>

RecordFork(c) ==
    /\ scall[c].step = "record"
    /\ journal' = [journal EXCEPT !.ino = scall[c].file.ino]
    /\ Step(c, "load")
    /\ UNCHANGED <<live, wit, folder, saved, slock, pins, sbudget, last, stuck>>

-----------------------------------------------------------------------------
\* _load_updated and _require_non_target_catalog_unchanged: what is on disk
\* is what was proposed, and nothing else moved.
OnlyTargetChanged(req) ==
    /\ live[req.target].text = req.text
    /\ \A s \in Skills \ {req.target} : live[s].text = req.cat[s]

LoadUpdated(c) ==
    /\ scall[c].step = "load"
    /\ Step(c, IF OnlyTargetChanged(scall[c].req) THEN "commit"
               ELSE IF scall[c].req.op = "save" THEN "restore" ELSE "unfork")
    /\ UNCHANGED <<live, wit, folder, journal, saved, slock, pins, sbudget, last, stuck>>

\* Revision, audit event and receipt in one transaction (_record_change).  A
\* person who came later keeps the last word.
CommitChange(c) ==
    LET req == scall[c].req IN
    /\ scall[c].step = "commit"
    /\ saved' = saved \cup {req}
    /\ last' = IF last[req.target] = req.cat[req.target] /\ live[req.target].text = req.text
               THEN [last EXCEPT ![req.target] = req.text] ELSE last
    /\ Step(c, "finish")
    /\ UNCHANGED <<live, wit, folder, journal, slock, pins, sbudget, stuck>>

\* _cleanup_named_recovery_file: only a witness with the expected text goes.
Clean(name, text) == wit[name] = NoFile \/ wit[name].text = text

\* _finalize_recovery_intent: witnesses or marker, then the intent.
Finalize(c) ==
    LET req == journal.req IN
    /\ scall[c].step = "finish"
    /\ IF IF req.op = "save"
          THEN /\ wit.displaced = NoFile
               /\ Clean("guard", req.cat[req.skill]) /\ Clean("temp", req.text)
          ELSE folder[req.target] = "marked" \/ (folder[req.target] = "bare" /\ live[req.target] # NoFile)
       THEN /\ wit' = NoWitness
            /\ folder' = IF req.op = "fork" THEN [folder EXCEPT ![req.target] = "bare"] ELSE folder
            /\ Step(c, "forget") /\ UNCHANGED <<slock, stuck>>
       ELSE Manual(c) /\ UNCHANGED <<wit, folder>>
    /\ UNCHANGED <<live, journal, saved, pins, sbudget, last>>

\* _delete_recovery_intent; a writer that finished its own intent is done.
Forget(c) ==
    /\ scall[c].step = "forget"
    /\ journal' = NoIntent
    /\ IF scall[c].req = journal.req THEN End(c) ELSE Recovered(c)
    /\ UNCHANGED <<live, wit, folder, saved, pins, sbudget, last, stuck>>

-----------------------------------------------------------------------------
\* _rollback_save_intent: a displaced file goes back first ...
RestoreDisplaced(c) ==
    LET s == journal.req.target IN
    /\ scall[c].step = "restore" /\ journal.req.op = "save"
    /\ CASE wit.displaced = NoFile \/ Same(wit.displaced, live[s]) ->
              wit' = [wit EXCEPT !.displaced = NoFile] /\ Step(c, "judge") /\ UNCHANGED <<live, slock, stuck>>
         [] wit.displaced # NoFile /\ live[s] = NoFile ->
              live' = [live EXCEPT ![s] = wit.displaced] /\ UNCHANGED <<wit, scall, slock, stuck>>
         [] OTHER -> Manual(c) /\ UNCHANGED <<live, wit>>
    /\ UNCHANGED <<folder, journal, saved, pins, sbudget, last>>

\* Only the file this transaction installed is taken back.
TargetIsProposed(s) ==
    /\ live[s].text = journal.req.text
    /\ (wit.temp # NoFile /\ Same(live[s], wit.temp)) \/ (journal.ino # 0 /\ live[s].ino = journal.ino)

TargetIsOriginal(s) ==
    /\ live[s].text = journal.req.cat[s]
    /\ wit.guard = NoFile \/ Same(live[s], wit.guard)

GuardIsOriginal(s) == wit.guard # NoFile /\ wit.guard.text = journal.req.cat[s]

\* ... then target, original and proposed file are looked at together.
Judge(c) ==
    LET s == journal.req.target IN
    /\ scall[c].step = "judge"
    /\ CASE TargetIsProposed(s) \/ live[s] = NoFile ->
              IF GuardIsOriginal(s)
              THEN /\ Holding(c, IF live[s] = NoFile THEN "relink" ELSE "remove", live[s])
                   /\ UNCHANGED <<slock, stuck>>
              ELSE Manual(c)
         [] ~TargetIsProposed(s) /\ live[s] # NoFile /\ ~TargetIsOriginal(s) /\ journal.ino # 0 -> Manual(c)
         [] OTHER -> Step(c, "clean") /\ UNCHANGED <<slock, stuck>>
    /\ UNCHANGED <<live, wit, folder, journal, saved, pins, sbudget, last>>

\* The installed file is moved aside, and put back if it was another by now.
RemoveProposed(c) ==
    LET s == journal.req.target IN
    /\ scall[c].step = "remove"
    /\ IF live[s] = NoFile THEN Manual(c) /\ UNCHANGED <<live, wit>>
       ELSE /\ live' = [live EXCEPT ![s] = NoFile]
            /\ wit' = [wit EXCEPT !.displaced = live[s]]
            /\ Step(c, "moved") /\ UNCHANGED <<slock, stuck>>
    /\ UNCHANGED <<folder, journal, saved, pins, sbudget, last>>

CheckMoved(c) ==
    LET s == journal.req.target IN
    /\ scall[c].step = "moved"
    /\ IF Same(wit.displaced, scall[c].file)
       THEN Step(c, "relink") /\ UNCHANGED <<live, wit, slock, stuck>>
       ELSE /\ IF live[s] = NoFile
               THEN live' = [live EXCEPT ![s] = wit.displaced] /\ wit' = [wit EXCEPT !.displaced = NoFile]
               ELSE UNCHANGED <<live, wit>>
            /\ Manual(c)
    /\ UNCHANGED <<folder, journal, saved, pins, sbudget, last>>

\* The original is linked back where nothing is.
RelinkOriginal(c) ==
    LET s == journal.req.target IN
    /\ scall[c].step = "relink"
    /\ IF live[s] = NoFile
       THEN live' = [live EXCEPT ![s] = wit.guard] /\ Step(c, "drop") /\ UNCHANGED <<slock, stuck>>
       ELSE Manual(c) /\ UNCHANGED live
    /\ UNCHANGED <<wit, folder, journal, saved, pins, sbudget, last>>

DropDisplaced(c) ==
    /\ scall[c].step = "drop"
    /\ wit' = [wit EXCEPT !.displaced = NoFile]
    /\ Step(c, "clean")
    /\ UNCHANGED <<live, folder, journal, saved, slock, pins, sbudget, last, stuck>>

\* Witnesses with a text of their own stop the rollback.
CleanWitnesses(c) ==
    LET req == journal.req IN
    /\ scall[c].step = "clean"
    /\ IF Clean("guard", req.cat[req.skill]) /\ Clean("temp", req.text)
       THEN wit' = NoWitness /\ Step(c, "forget") /\ UNCHANGED <<slock, stuck>>
       ELSE Manual(c) /\ UNCHANGED wit
    /\ UNCHANGED <<live, folder, journal, saved, pins, sbudget, last>>

\* _cleanup_fork_marker without a commit: only a directory with the marker,
\* and in it only the file this transaction made, is removed.
UndoFork(c) ==
    LET s == journal.req.target
        ours == live[s] = NoFile \/ (journal.ino # 0 /\ live[s].ino = journal.ino /\ live[s].text = journal.req.text)
    IN
    /\ scall[c].step \in {"unfork", "restore"} /\ journal.req.op = "fork"
    /\ CASE folder[s] = "none" -> Step(c, "forget") /\ UNCHANGED <<live, folder, slock, stuck>>
         [] folder[s] = "marked" /\ ours ->
              /\ live' = [live EXCEPT ![s] = NoFile]
              /\ folder' = [folder EXCEPT ![s] = "bare"]
              /\ Step(c, "rmdir") /\ UNCHANGED <<slock, stuck>>
         [] OTHER -> Manual(c) /\ UNCHANGED <<live, folder>>
    /\ UNCHANGED <<wit, journal, saved, pins, sbudget, last>>

\* The empty directory goes last.
RemoveFolder(c) ==
    LET s == journal.req.target IN
    /\ scall[c].step = "rmdir"
    /\ IF live[s] = NoFile
       THEN folder' = [folder EXCEPT ![s] = "none"] /\ Step(c, "forget") /\ UNCHANGED <<slock, stuck>>
       ELSE Manual(c) /\ UNCHANGED folder
    /\ UNCHANGED <<live, wit, journal, saved, pins, sbudget, last>>

-----------------------------------------------------------------------------
\* A person puts a file of their own in the place of a SKILL.md.
OwnEdit(s, t) ==
    /\ sbudget.edits < MaxOwnEdits /\ sbudget.calls + sbudget.edits < MaxSaves
    /\ live' = [live EXCEPT ![s] = NextFile(t)]
    /\ folder' = [folder EXCEPT ![s] = IF @ = "none" THEN "bare" ELSE @]
    /\ sbudget' = [sbudget EXCEPT !.edits = @ + 1, !.ino = @ + 1]
    /\ last' = [last EXCEPT ![s] = t]
    /\ UNCHANGED <<wit, journal, saved, slock, scall, pins, stuck>>

\* A package with a pinned skill becomes active, between store transactions.
PinSkills ==
    /\ \A c \in Callers : scall[c].step \in {"idle", "lock", "share", "pending", "reading", "recover"}
    /\ pins = {} /\ pins' = Local
    /\ UNCHANGED <<live, wit, folder, journal, saved, slock, scall, sbudget, last, stuck>>

\* The process dies: the lock is released, the transaction is rolled back and
\* the disk stays; the first intent may be half written.
AuthorDies(c) ==
    /\ scall[c] # SkillIdle
    /\ sbudget.deaths < MaxDeaths
    /\ sbudget' = [sbudget EXCEPT !.deaths = @ + 1]
    /\ End(c)
    /\ journal' \in IF scall[c].step = "intent" THEN {NoIntent, Torn} ELSE {journal}
    /\ UNCHANGED <<live, wit, folder, saved, pins, last, stuck>>

SkillNext ==
    \/ \E c \in Callers :
         \/ Author(c) \/ RecoverPending(c) \/ ReadCatalog(c)
         \/ LockExclusive(c) \/ LockShared(c) \/ LookPending(c) \/ LeaveReading(c)
         \/ Recover(c) \/ Decide(c) \/ WriteIntent(c)
         \/ OpenTemp(c) \/ FillTemp(c) \/ LinkGuard(c) \/ Displace(c) \/ CompareDisplaced(c)
         \/ Install(c) \/ WitnessInstalled(c) \/ UnlinkTemp(c)
         \/ MakeFolder(c) \/ MarkFolder(c) \/ CreateSkill(c) \/ RecordFork(c)
         \/ LoadUpdated(c) \/ CommitChange(c) \/ Finalize(c) \/ Forget(c)
         \/ RestoreDisplaced(c) \/ Judge(c) \/ RemoveProposed(c) \/ CheckMoved(c)
         \/ RelinkOriginal(c) \/ DropDisplaced(c) \/ CleanWitnesses(c) \/ UndoFork(c) \/ RemoveFolder(c)
         \/ AuthorDies(c)
    \/ PinSkills
    \/ \E s \in Skills, t \in EditTexts : OwnEdit(s, t)

-----------------------------------------------------------------------------
\* Whoever reads the catalog inside catalog_read_guard sees, for every skill,
\* the text that was last committed or put there by hand: never a proposed
\* text without its receipt, never a committed one taken back, never an edit
\* overwritten by a save, a rollback or a recovery.
GuardedReads ==
    \A c \in Callers : scall[c].step = "reading" => \A s \in Skills : live[s].text = last[s]

-----------------------------------------------------------------------------
(* The inductive invariant behind GuardedReads                              *)

\* Locks: whoever is past the exclusive lock is alone, whoever reads shares it.
Sharing == {"pending", "reading"}
Alone == SkillSteps \ {"lock", "share", "pending", "reading"}
LocksHeld ==
    /\ slock.exclusive = {} \/ slock.shared = {}
    /\ \A c \in Callers : /\ scall[c].step \in Sharing => c \in slock.shared
                          /\ scall[c].step \in Alone => slock.exclusive = {c}

\* A file of this transaction: the proposed one, by the inode of the open
\* witness or of the intent.
Ours(f, w, n) == f.ino # 0 /\ f.ino \in {w.temp.ino, n}

\* Inodes name files, up to the last one given out.
InodesName(f, w, m) ==
    LET fs == {f, w.temp, w.guard, w.displaced, NoFile} IN
    \A g, h \in fs : g.ino <= m /\ (g.ino = h.ino => g = h)

\* An open save of target f with history t: what is in place is the last text,
\* unless it is ours; the last text is then the original, which the guard keeps.
SaveStands(f, w, req, n, t) ==
    /\ f # NoFile /\ ~Ours(f, w, n) => f.text = t
    /\ Ours(f, w, n) => f.text = req.text /\ t = req.cat[req.target]
    /\ f = NoFile => IF w.displaced = NoFile \/ Ours(w.displaced, w, n) THEN t = req.cat[req.target]
                     ELSE w.displaced.text = t
    /\ Ours(w.displaced, w, n) => w.displaced.text = req.text
    /\ w.guard # NoFile => w.guard.text = req.cat[req.target] /\ ~Ours(w.guard, w, n)

\* An open fork: nothing was there, and nothing but ours is removed.
ForkStands(f, w, req, n, t) ==
    /\ w = NoWitness
    /\ req.cat[req.target] = NoText
    /\ f = NoFile \/ Ours(f, w, n) => t = NoText

\* The files, between two steps of whoever is at work.
FilesStand(lv, w, fo, j, sv, la, m) ==
    /\ \A s \in Skills : /\ fo[s] = "none" => lv[s] = NoFile
                         /\ lv[s].ino <= m /\ (lv[s].ino = 0 => lv[s] = NoFile)
    /\ j = NoIntent => w = NoWitness /\ \A s \in Skills : lv[s].text = la[s]
    /\ j \in SkillIntents =>
         LET t == j.req.target IN
         /\ j.ino <= m /\ (j.req.op = "save" => fo[t] # "none")
         /\ \A s \in Skills \ {t} : lv[s].text = la[s]
         /\ InodesName(lv[t], w, m)
         /\ j.req \in sv => lv[t].text = la[t]
         /\ j.req \notin sv /\ j.req.op = "save" => SaveStands(lv[t], w, j.req, j.ino, la[t])
         /\ j.req \notin sv /\ j.req.op = "fork" => ForkStands(lv[t], w, j.req, j.ino, la[t])

SavingSteps == {"temp", "fill", "guard", "displace", "compare", "install", "witness", "untemp"}
ForkingSteps == {"mkdir", "mark", "create", "record"}
UnsavingSteps == {"judge", "remove", "moved", "relink", "drop", "clean"}

\* What the steps of a transaction know of the target f and the witnesses.
StepStands(k, f, w, n, req, t, m) ==
    /\ k.step = "temp" => w = NoWitness /\ f # NoFile
    /\ k.step \in {"fill", "guard"} =>
         /\ w.guard = NoFile /\ w.displaced = NoFile /\ f # NoFile
         /\ k.file.text = req.cat[req.target] /\ k.file.ino <= m
         /\ f.ino = k.file.ino => f = k.file
    /\ k.step \in {"fill", "guard", "displace", "compare", "install"} => w.temp # NoFile /\ ~Ours(f, w, n)
    /\ k.step \in {"guard", "displace", "compare", "install", "witness"} => w.temp.text = req.text
    /\ k.step \in {"witness", "untemp", "load", "commit", "record"} => f # NoFile
    /\ k.step = "witness" => w.temp # NoFile
    /\ k.step = "untemp" => n = w.temp.ino
    /\ k.step \in ForkingSteps \cup (SavingSteps \ {"untemp"}) => n = 0
    /\ k.step \in {"mkdir", "mark", "create"} => f.text = t
    /\ k.step = "record" => /\ k.file.ino # 0 /\ k.file.ino <= m
                            /\ IF f.ino = k.file.ino THEN f.text = req.text /\ t = NoText ELSE f.text = t
    /\ k.step \in {"load", "commit"} => IF Ours(f, w, n) THEN f.text = req.text ELSE f.text = t
    /\ k.step \in {"install", "judge", "remove"} => w.displaced = NoFile
    /\ k.step \in {"remove", "moved", "relink"} => w.guard # NoFile
    /\ k.step \in {"remove", "moved"} => Ours(k.file, w, n)
    /\ k.step = "relink" => w.displaced = NoFile \/ Ours(w.displaced, w, n)
    /\ k.step \in {"drop", "clean"} => f # NoFile /\ ~Ours(f, w, n)
    /\ k.step = "forget" => w = NoWitness /\ f.text = t

\* What a call under the lock knows of the intent.
SkillCallStands(k, lv, w, fo, j, sv, la, m) ==
    /\ k.step = "reading" => j = NoIntent
    /\ k.step \in {"decide", "intent"} => j = NoIntent /\ k.req \in SkillRequests
    /\ k.step = "intent" => /\ k.req \notin sv
                            /\ k.req.op = "save" => lv[k.req.target] # NoFile
                            /\ k.req.op = "fork" => k.req.cat[k.req.target] = NoText
    /\ k.step \in Alone \ {"recover", "decide", "intent"} =>
         /\ j \in SkillIntents
         /\ StepStands(k, lv[j.req.target], w, j.ino, j.req, la[j.req.target], m)
         /\ k.step \in SavingSteps \cup ForkingSteps \cup {"load", "commit"} => k.req = j.req
         /\ k.step \in SavingSteps \cup UnsavingSteps => j.req.op = "save"
         /\ k.step \in ForkingSteps \cup {"unfork", "rmdir"} => j.req.op = "fork"
         /\ k.step \notin {"finish", "forget"} => j.req \notin sv
         /\ k.step = "finish" => j.req \in sv
         /\ k.step = "create" => fo[j.req.target] # "none"

SkillInv ==
    /\ SkillTypeOK
    /\ LocksHeld
    /\ FilesStand(live, wit, folder, journal, saved, last, sbudget.ino)
    /\ \A c \in Callers : SkillCallStands(scall[c], live, wit, folder, journal, saved, last, sbudget.ino)
=============================================================================
