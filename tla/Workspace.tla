------------------------------ MODULE Workspace ------------------------------
(* What people and services keep in the files of one workspace: managed     *)
(* documents, skills, task workspaces, drafts, Git checkpoints, the code    *)
(* graph, the evidence of the ledger, and the installation with its         *)
(* backups and migrations.  The parts share no state, save the backup a     *)
(* migration needs; a behaviour exercises one of them.                      *)
EXTENDS Documents, SkillAuthoring, TaskWorkspaces, Checkpoints, Drafts, Installation, BrandMigration,
        Backups, Migrations, CodeGraph, Evidence

CONSTANT Areas     \* the parts of the workspace a behaviour may exercise

VARIABLE area      \* the part at work

vars == <<dvars, svars, mvars, cvars, tvars, ivars, rvars, bvars, mgvars, qvars, kvars, area>>

\* Every part keeps its type.
TypeOK ==
    /\ DocumentTypeOK /\ SkillTypeOK /\ SpaceTypeOK /\ CheckpointTypeOK /\ DraftTypeOK
    /\ InstallTypeOK /\ BrandTypeOK /\ BackupTypeOK /\ MigrationTypeOK /\ GraphTypeOK
    /\ EvidenceTypeOK
    /\ area \in Areas

\* A part that is not at work starts in one of its initial states only.
Init ==
    /\ DocumentInit /\ SkillInit /\ SpaceInit /\ CheckpointInit /\ DraftInit 
    /\ InstallInit /\ BrandInit /\ BackupInit /\ MigrationInit /\ GraphInit
    /\ EvidenceInit
    /\ area \in Areas
    /\ area # "documents" => shared
    /\ area # "installation" => theirs = [f \in TemplateFiles |-> NotTheirs] /\ ledgerAt = "none"
    /\ area # "branding" => place["state"]["legacy"].meta = "legacy"
    /\ area # "backups" => content = CHOOSE w \in Beginnings : TRUE
    /\ area # "evidence" => captures = CHOOSE m \in Captures : TRUE

\* The one backup that precedes a migration; nobody touches its files.
BackupFirst == BackupNext /\ bbudget'.calls <= 1 /\ bbudget'.touches = 0

Next ==
    /\ UNCHANGED area
    /\ \/ area = "documents" /\ DocumentNext /\ UNCHANGED <<svars, mvars, cvars, tvars, ivars, rvars, bvars, mgvars, qvars, kvars>>
       \/ area = "skills" /\ SkillNext /\ UNCHANGED <<dvars, mvars, cvars, tvars, ivars, rvars, bvars, mgvars, qvars, kvars>>
       \/ area = "spaces" /\ SpaceNext /\ UNCHANGED <<dvars, svars, cvars, tvars, ivars, rvars, bvars, mgvars, qvars, kvars>>
       \/ area = "checkpoints" /\ CheckpointNext /\ UNCHANGED <<dvars, svars, mvars, tvars, ivars, rvars, bvars, mgvars, qvars, kvars>>
       \/ area = "drafts" /\ DraftNext /\ UNCHANGED <<dvars, svars, mvars, cvars, ivars, rvars, bvars, mgvars, qvars, kvars>>
       \/ area = "installation" /\ InstallNext /\ UNCHANGED <<dvars, svars, mvars, cvars, tvars, rvars, bvars, mgvars, qvars, kvars>>
       \/ area = "branding" /\ BrandNext /\ UNCHANGED <<dvars, svars, mvars, cvars, tvars, ivars, bvars, mgvars, qvars, kvars>>
       \/ area = "backups" /\ BackupNext /\ UNCHANGED <<dvars, svars, mvars, cvars, tvars, ivars, rvars, mgvars, qvars, kvars>>
       \/ area = "migrations" /\ BackupFirst /\ UNCHANGED <<dvars, svars, mvars, cvars, tvars, ivars, rvars, mgvars, qvars, kvars>>
       \/ area = "migrations" /\ MigrationNext /\ UNCHANGED <<dvars, svars, mvars, cvars, tvars, ivars, rvars, bvars, qvars, kvars>>
       \/ area = "codegraph" /\ GraphNext /\ UNCHANGED <<dvars, svars, mvars, cvars, tvars, ivars, rvars, bvars, mgvars, kvars>>
       \/ area = "evidence" /\ EvidenceNext /\ UNCHANGED <<dvars, svars, mvars, cvars, tvars, ivars, rvars, bvars, mgvars, qvars>>

Spec == Init /\ [][Next]_vars
=============================================================================
