----------------------------- MODULE MCWorkspace -----------------------------
(* Small instances of the parts of a workspace, one at a time.              *)
EXTENDS Workspace, TLC

MCAreas == {"documents", "skills", "spaces", "checkpoints", "drafts", "installation", "branding",
            "backups", "migrations", "codegraph", "evidence"}
MCSources == <<"tasks", "catalog", "head", "graph">>
\* Two ingests of one source, of the same bytes or of two revisions.
MCCaptures == {[o \in Ingests |-> "ra"], [o \in Ingests |-> IF o = "a" THEN "ra" ELSE "rb"]}
MCFileOf == [r \in {"ra", "rb"} |-> "f"]
MCToolOf == [o \in Ingests |-> 1]
MCStatementOf == [r \in {"ra", "rb"} |-> "x"]
\* A secret and a local path, in what is published and in what is diagnosed.
MCBeginnings == {[f \in BackupFiles |-> CASE f = p[1] -> "secret" [] f = p[2] -> "local" [] OTHER -> "plain"] :
                 p \in {<<"docs", "events">>, <<"events", "docs">>}}
MCSymmetry == Permutations(Callers) \cup Permutations(DocKeys)
=============================================================================
