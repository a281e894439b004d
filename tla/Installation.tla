---------------------------- MODULE Installation ----------------------------
(* Installation into a directory of the user's (bootstrap/service.py) and   *)
(* workspace templates (templates/service.py): a confirmed plan is applied  *)
(* by sorting the template's files into new, merged, skipped and            *)
(* conflicting ones; apply writes them one by one, seeds the ledger and     *)
(* records what it made; uninstall goes by that record.  The user edits     *)
(* files all the time.                                                      *)
EXTENDS PlatformStore, Sequences

CONSTANTS UserTexts,                    \* what the user writes into files
          MaxInstalls, MaxUserEdits    \* bounds of a behaviour

ASSUME InstallAssumption == UserTexts # {} /\ UserTexts \cap {"none", "template", "blank"} = {}

VARIABLES target,    \* the files of the template in the target directory
          ledgerAt,  \* ledger/, a managed zone: none, ours or the user's
          installed, \* .raytsystem/installation.json
          icall,     \* the call of each caller
          ibudget,   \* bounds: calls, edits, deaths
          theirs     \* history: what the user last wrote into each file that is theirs

ivars == <<target, ledgerAt, installed, icall, ibudget, theirs>>

\* AGENTS.md (merged), README.md (skipped), and two files raytsystem owns, in
\* the order they are written.
FileOrder == <<"agents", "readme", "config", "pack">>
TemplateFiles == {FileOrder[i] : i \in 1 .. Len(FileOrder)}
MergeIfExists == {"agents"}
SkipIfExists == {"readme"}

NotInstalled == [state |-> "none"]
InIdle == [step |-> "idle"]

\* A file: whose text it holds, and whether the managed block is in it.
InstallFiles == [own : UserTexts \cup {"none", "template", "blank"}, block : BOOLEAN]
NothingThere == [own |-> "none", block |-> FALSE]
OurFile == [own |-> "template", block |-> FALSE]
UsersFile(text) == [own |-> text, block |-> FALSE]

\* What the user wrote, and whether no call was at work then.
NotTheirs == [text |-> "none", quiet |-> FALSE]
TheirTexts == {NotTheirs} \cup [text : UserTexts, quiet : BOOLEAN]

\* create, merge and skip are how the files were sorted, got is the file that was read.
InstallSteps == {"classify", "write", "merging", "record", "init", "initwrite", "remove", "stripping"}
InstallCalls == [step : InstallSteps, create : SUBSET TemplateFiles, merge : SUBSET TemplateFiles,
                 skip : SUBSET TemplateFiles, todo : Seq(TemplateFiles), got : InstallFiles]
NewCall(step, create, merge, todo) == [step |-> step, create |-> create, merge |-> merge,
                                       skip |-> TemplateFiles \ (create \cup merge), todo |-> todo, got |-> NothingThere]
Installations == [state : {"installed"}, created : SUBSET TemplateFiles, merged : SUBSET TemplateFiles]

InstallTypeOK ==
    /\ target \in [TemplateFiles -> InstallFiles]
    /\ ledgerAt \in {"none", "ours", "users"}
    /\ installed \in {NotInstalled} \cup Installations
    /\ icall \in [Callers -> {InIdle} \cup InstallCalls]
    /\ theirs \in [TemplateFiles -> TheirTexts]

InstallInit ==
    /\ \E fs \in SUBSET {"agents", "readme"} : LET t == CHOOSE u \in UserTexts : TRUE IN
         /\ target = [f \in TemplateFiles |-> IF f \in fs THEN UsersFile(t) ELSE NothingThere]
         /\ theirs = [f \in TemplateFiles |-> IF f \in fs THEN [text |-> t, quiet |-> TRUE] ELSE NotTheirs]
    /\ ledgerAt \in {"none", "users"}
    /\ installed = NotInstalled
    /\ icall = [c \in Callers |-> InIdle]
    /\ ibudget = [calls |-> 0, edits |-> 0, deaths |-> 0]

-----------------------------------------------------------------------------
InGo(c, step) == icall' = [icall EXCEPT ![c].step = step]
InEnd(c) == icall' = [icall EXCEPT ![c] = InIdle]

\* Those of the files, in the order they are written.
Only(f, fs) == IF f \in fs THEN <<f>> ELSE <<>>
InOrder(fs) == Only(FileOrder[1], fs) \o Only(FileOrder[2], fs) \o Only(FileOrder[3], fs) \o Only(FileOrder[4], fs)

Missing == {f \in TemplateFiles : target[f] = NothingThere}
Differs == {f \in TemplateFiles : target[f] \notin {NothingThere, OurFile}}

\* TemplateService.plan: what it would create, and what is in its way.
Fingerprint == <<Missing, Differs>>

InstallCall(c, call) ==
    /\ icall[c] = InIdle
    /\ ibudget.calls < MaxInstalls
    /\ ibudget' = [ibudget EXCEPT !.calls = @ + 1]
    /\ icall' = [icall EXCEPT ![c] = call]
    /\ UNCHANGED <<target, ledgerAt, installed, theirs>>

\* preflight: nothing is installed here.
PreflightOK == target["config"] = NothingThere

\* preflight, the managed zones, and a confirmation that carries the
\* fingerprint of the plan as it is now: any other is refused.
StartInstall(c, confirm) ==
    /\ PreflightOK
    /\ confirm = Fingerprint
    /\ ledgerAt = "none"
    /\ InstallCall(c, NewCall("classify", {}, {}, <<>>))

\* _classify_files: the files are read again and a conflict ends the call.
Classify(c) ==
    LET merge == Differs \cap MergeIfExists
        conflicts == Differs \ (MergeIfExists \cup SkipIfExists)
    IN
    /\ icall[c].step = "classify"
    /\ IF conflicts # {} THEN InEnd(c)
       ELSE icall' = [icall EXCEPT ![c] = NewCall("write", Missing, merge, InOrder(Missing) \o InOrder(merge))]
    /\ UNCHANGED <<target, ledgerAt, installed, ibudget, theirs>>

\* _write_files: a new file is written over whatever is there by now; a file to
\* merge is read (_merge_managed_block),
WriteFile(c) ==
    LET call == icall[c]  f == Head(call.todo) IN
    /\ call.step = "write" /\ call.todo # <<>>
    /\ IF f \in call.create
       THEN target' = [target EXCEPT ![f] = OurFile] /\ icall' = [icall EXCEPT ![c].todo = Tail(@)]
       ELSE icall' = [icall EXCEPT ![c].step = "merging", ![c].got = target[f]] /\ UNCHANGED target
    /\ UNCHANGED <<ledgerAt, installed, ibudget, theirs>>

Merged(file) == IF file.own = "none" THEN [own |-> "blank", block |-> TRUE] ELSE [file EXCEPT !.block = TRUE]

\* and what was read is written back with the managed block.
MergeFile(c) ==
    /\ icall[c].step = "merging"
    /\ target' = [target EXCEPT ![Head(icall[c].todo)] = Merged(icall[c].got)]
    /\ icall' = [icall EXCEPT ![c].step = "write", ![c].todo = Tail(@)]
    /\ UNCHANGED <<ledgerAt, installed, ibudget, theirs>>

SeedGenesis(c) ==
    /\ icall[c].step = "write" /\ icall[c].todo = <<>>
    /\ ledgerAt' = "ours"
    /\ InGo(c, "record")
    /\ UNCHANGED <<target, installed, ibudget, theirs>>

\* A record that takes skipped files for its own.
CreatedWithSkipped(call) == call.create \cup call.skip

\* created_files: what apply made itself.
Created(call) == call.create

\* _write_installation; the index is rebuilt afterwards.
WriteInstallation(c) ==
    /\ icall[c].step = "record"
    /\ installed' = [state |-> "installed", created |-> Created(icall[c]), merged |-> icall[c].merge]
    /\ InEnd(c)
    /\ UNCHANGED <<target, ledgerAt, ibudget, theirs>>

-----------------------------------------------------------------------------
\* TemplateService.initialize: no conflict, and each file is looked at once
\* more before it is written.
StartInit(c) ==
    /\ Differs = {}
    /\ InstallCall(c, NewCall("init", Missing, {}, InOrder(Missing)))

InitFile(c) ==
    LET call == icall[c] IN
    /\ call.step = "init"
    /\ IF call.todo # <<>> /\ target[Head(call.todo)] = NothingThere THEN InGo(c, "initwrite") ELSE InEnd(c)
    /\ UNCHANGED <<target, ledgerAt, installed, ibudget, theirs>>

InitWrite(c) ==
    LET f == Head(icall[c].todo) IN
    /\ icall[c].step = "initwrite"
    /\ target' = [target EXCEPT ![f] = OurFile]
    /\ icall' = [icall EXCEPT ![c].step = "init", ![c].todo = Tail(@)]
    /\ UNCHANGED <<ledgerAt, installed, ibudget, theirs>>

-----------------------------------------------------------------------------
\* uninstall: what the record calls created is removed, blocks are taken out.
StartUninstall(c) ==
    /\ installed # NotInstalled
    /\ InstallCall(c, NewCall("remove", installed.created, installed.merged,
                              InOrder(installed.created) \o InOrder(installed.merged)))

\* A created file is removed; a merged one that is still there is read (_strip_managed_block),
RemoveFile(c) ==
    LET call == icall[c]  f == Head(call.todo) IN
    /\ call.step = "remove" /\ call.todo # <<>>
    /\ CASE f \in call.create -> target' = [target EXCEPT ![f] = NothingThere] /\ icall' = [icall EXCEPT ![c].todo = Tail(@)]
         [] f \notin call.create /\ target[f] = NothingThere -> UNCHANGED target /\ icall' = [icall EXCEPT ![c].todo = Tail(@)]
         [] OTHER -> icall' = [icall EXCEPT ![c].step = "stripping", ![c].got = target[f]] /\ UNCHANGED target
    /\ UNCHANGED <<ledgerAt, installed, ibudget, theirs>>

\* and written back without the block.
StripFile(c) ==
    /\ icall[c].step = "stripping"
    /\ target' = [target EXCEPT ![Head(icall[c].todo)] = [icall[c].got EXCEPT !.block = FALSE]]
    /\ icall' = [icall EXCEPT ![c].step = "remove", ![c].todo = Tail(@)]
    /\ UNCHANGED <<ledgerAt, installed, ibudget, theirs>>

\* The ledger is among the created files; the record goes last.
Uninstalled(c) ==
    /\ icall[c].step = "remove" /\ icall[c].todo = <<>>
    /\ ledgerAt' = "none" /\ installed' = NotInstalled
    /\ InEnd(c)
    /\ UNCHANGED <<target, ibudget, theirs>>

-----------------------------------------------------------------------------
\* The user writes or deletes a file at any time.  What is written is theirs,
\* unless the record has the file for one that raytsystem made.
Recorded(f) == installed # NotInstalled /\ f \in installed.created
Quiet == \A c \in Callers : icall[c] = InIdle

UserEdits(f, text) ==
    /\ ibudget.edits < MaxUserEdits
    /\ ibudget' = [ibudget EXCEPT !.edits = @ + 1]
    /\ target' = [target EXCEPT ![f] = IF text = "none" THEN NothingThere ELSE UsersFile(text)]
    /\ theirs' = [theirs EXCEPT ![f] = IF text = "none" \/ Recorded(f) THEN NotTheirs ELSE [text |-> text, quiet |-> Quiet]]
    /\ UNCHANGED <<ledgerAt, installed, icall>>

InstallDies(c) ==
    /\ icall[c] # InIdle
    /\ ibudget.deaths < MaxDeaths
    /\ ibudget' = [ibudget EXCEPT !.deaths = @ + 1]
    /\ InEnd(c)
    /\ UNCHANGED <<target, ledgerAt, installed, theirs>>

InstallNext ==
    \/ \E c \in Callers :
         \/ \E confirm \in {Fingerprint, <<TemplateFiles, {}>>} : StartInstall(c, confirm)
         \/ Classify(c) \/ WriteFile(c) \/ MergeFile(c) \/ SeedGenesis(c) \/ WriteInstallation(c)
         \/ StartInit(c) \/ InitFile(c) \/ InitWrite(c)
         \/ StartUninstall(c) \/ RemoveFile(c) \/ StripFile(c) \/ Uninstalled(c) \/ InstallDies(c)
    \/ \E f \in TemplateFiles, text \in UserTexts \cup {"none"} : UserEdits(f, text)

-----------------------------------------------------------------------------
\* What the user wrote while no call was at work is there, as it was or with the
\* managed block, through overlapping and interrupted installations, after
\* uninstall, and whatever the user does to other files meanwhile (apply,
\* initialize and uninstall).
UsersFilesKept == \A f \in TemplateFiles : theirs[f].quiet => target[f].own = theirs[f].text

\* So is what the user writes while a call is at work ("Never overwrites user
\* data", "never touch user or source data", bootstrap/service.py).
UsersTextsKept == \A f \in TemplateFiles : theirs[f] # NotTheirs => target[f].own = theirs[f].text

-----------------------------------------------------------------------------
\* What is true of a call between two of its steps: it holds for its own no file
\* that the user wrote in a quiet moment, and of such a file it read the text.
InstallCallStands(call, texts) ==
    /\ \A f \in call.create : ~texts[f].quiet
    /\ call.step \in {"init", "initwrite"} => call.todo \in Seq(call.create)
    /\ call.step \in {"merging", "initwrite", "stripping"} => call.todo # <<>>
    /\ call.step \in {"merging", "stripping"} =>
         LET f == Head(call.todo) IN texts[f].quiet => call.got.own = texts[f].text

InstallInv ==
    /\ InstallTypeOK
    /\ UsersFilesKept
    /\ \A f \in TemplateFiles : theirs[f].quiet => ~Recorded(f)
    /\ \A c \in Callers : icall[c] # InIdle => InstallCallStands(icall[c], theirs)
=============================================================================
