------------------------------ MODULE Migrations ------------------------------
(* Schema migrations (migrations.py): a confirmed plan and a recorded       *)
(* backup move the configuration file to the next version; journal, record  *)
(* and report follow in one transaction, and an error puts the file back.   *)
EXTENDS Backups

CONSTANTS MaxApplies    \* bound of a behaviour

VARIABLES config,    \* the version in config/raytsystem.toml
          mjournal,  \* the row of the step in migration_journal
          mrecord,   \* the migration record of the step
          mgcall,    \* the apply call of each caller
          mgbudget   \* bounds: calls, troubles

mgvars == <<config, mjournal, mrecord, mgcall, mgbudget>>

MgIdle == [step |-> "idle"]

Versioned == {"old", "new"}
ApplyCalls == [step : {"pending", "gate", "read"}] \cup [step : {"bump", "head", "undo", "failed"}, before : Versioned]
              \cup [step : {"commit", "undo", "failed"}, before : Versioned, rev : Nat]

MigrationTypeOK ==
    /\ config \in Versioned
    /\ mjournal \in {"none", "applied", "failed"}
    /\ mrecord \in [rev : Nat]
    /\ mgcall \in [Callers -> ApplyCalls \cup {MgIdle}]
    /\ mgbudget \in [calls : Nat, troubles : Nat]

MigrationInit ==
    /\ config = "old" /\ mjournal = "none" /\ mrecord = [rev |-> 0]
    /\ mgcall = [c \in Callers |-> MgIdle]
    /\ mgbudget = [calls |-> 0, troubles |-> 0]

\* A write or a transaction fails, or a process dies.
Trouble == mgbudget.troubles < MaxDeaths /\ mgbudget' = [mgbudget EXCEPT !.troubles = @ + 1]

MgGo(c, step) == mgcall' = [mgcall EXCEPT ![c].step = step]
MgEnd(c) == mgcall' = [mgcall EXCEPT ![c] = MgIdle]

\* apply with a plan that was made at the old version.
StartApply(c) ==
    /\ mgcall[c] = MgIdle
    /\ mgbudget.calls < MaxApplies
    /\ mgbudget' = [mgbudget EXCEPT !.calls = @ + 1]
    /\ mgcall' = [mgcall EXCEPT ![c] = [step |-> "pending"]]
    /\ UNCHANGED <<config, mjournal, mrecord>>

\* A journalled step is not pending any more.
Pending == mjournal # "applied"

LookAtJournal(c) ==
    /\ mgcall[c].step = "pending"
    /\ IF Pending THEN MgGo(c, "gate") ELSE MgEnd(c)
    /\ UNCHANGED <<config, mjournal, mrecord, mgbudget>>

\* The plan must not be stale, and the backup named must be on record.
GateApply(c) ==
    /\ mgcall[c].step = "gate"
    /\ IF config = "old" /\ recorded # {} THEN MgGo(c, "read") ELSE MgEnd(c)
    /\ UNCHANGED <<config, mjournal, mrecord, mgbudget>>

\* _apply_step: the bytes before, the new version, the head of the record.
ReadConfig(c) ==
    /\ mgcall[c].step = "read"
    /\ mgcall' = [mgcall EXCEPT ![c] = [step |-> "bump", before |-> config]]
    /\ UNCHANGED <<config, mjournal, mrecord, mgbudget>>

\* The new version is written, or the write fails.
BumpConfig(c) ==
    /\ mgcall[c].step = "bump"
    /\ \/ config' = "new" /\ MgGo(c, "head") /\ UNCHANGED mgbudget
       \/ Trouble /\ MgGo(c, "undo") /\ UNCHANGED config
    /\ UNCHANGED <<mjournal, mrecord>>

ReadRecord(c) ==
    /\ mgcall[c].step = "head"
    /\ mgcall' = [mgcall EXCEPT ![c] = [step |-> "commit", before |-> @.before, rev |-> mrecord.rev]]
    /\ UNCHANGED <<config, mjournal, mrecord, mgbudget>>

\* Journal, record, report and event in one transaction, unless somebody
\* else's record came first or the transaction fails.
CommitMigration(c) ==
    /\ mgcall[c].step = "commit"
    /\ \/ /\ HeadUnmoved(mrecord, mgcall[c].rev)
          /\ mjournal' = "applied" /\ mrecord' = Appended(mrecord, mrecord)
          /\ MgEnd(c) /\ UNCHANGED mgbudget
       \/ /\ (~HeadUnmoved(mrecord, mgcall[c].rev) /\ UNCHANGED mgbudget) \/ Trouble
          /\ MgGo(c, "undo") /\ UNCHANGED <<mjournal, mrecord>>
    /\ UNCHANGED config

\* The bytes before go back ...
UndoConfig(c) ==
    /\ mgcall[c].step = "undo"
    /\ config' = mgcall[c].before
    /\ MgGo(c, "failed")
    /\ UNCHANGED <<mjournal, mrecord, mgbudget>>

\* ... and the journal says so, unless that fails too, which is not told.
RecordFailure(c) ==
    /\ mgcall[c].step = "failed"
    /\ mjournal' = "failed"
    /\ MgEnd(c)
    /\ UNCHANGED <<config, mrecord, mgbudget>>

\* A process dies, or a write of the way back fails.
MigratorDies(c) ==
    /\ mgcall[c] # MgIdle
    /\ Trouble
    /\ MgEnd(c)
    /\ UNCHANGED <<config, mjournal, mrecord>>

MigrationNext ==
    \E c \in Callers :
        \/ StartApply(c) \/ LookAtJournal(c) \/ GateApply(c) \/ ReadConfig(c) \/ BumpConfig(c)
        \/ ReadRecord(c) \/ CommitMigration(c) \/ UndoConfig(c) \/ RecordFailure(c) \/ MigratorDies(c)

-----------------------------------------------------------------------------
\* A step that failed can be tried again, and one that broke off resumed: while
\* the configuration is at the old version the journal does not call the step
\* applied, which apply would answer with an error for ever (apply and
\* _apply_step; "journaled, resumable migrations" of the tests).
MigrationRetryable ==
    (\A c \in Callers : mgcall[c] = MgIdle) => ~(config = "old" /\ mjournal = "applied")
=============================================================================
