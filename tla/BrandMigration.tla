--------------------------- MODULE BrandMigration ---------------------------
(* Brand migration (brand_migration.py): the legacy configuration file and  *)
(* state directory are copied to a backup, compared with it and renamed to  *)
(* the current names, each without replacing anything; metadata files in    *)
(* the state are rewritten, and an error takes the renames back.  Nothing   *)
(* is locked: people and other processes use the same names.                *)
EXTENDS PlatformStore, Sequences

CONSTANTS MaxRebrands, MaxArrivals    \* bounds of a behaviour

VARIABLES place,    \* what is at the legacy and the current name of config and state
          zips,     \* backups, complete ones
          rcall,    \* the call of each caller
          rbudget   \* bounds: calls, arrivals and edits, deaths; the last inode

rvars == <<place, zips, rcall, rbudget>>

Items == {"config", "state"}
Sides == {"legacy", "current"}
Nothing == [ino |-> 0]
RbIdle == [step |-> "idle"]
NoSeen == [x \in Items |-> Nothing]

\* A file or directory: its inode, its text, and the brand its metadata
\* names ("broken": the metadata is not JSON).  The first two are the legacy
\* configuration and state; nothing but its metadata is in a state just made.
Object(ino, text, meta) == [ino |-> ino, text |-> text, meta |-> meta]
Metas == {"none", "legacy", "current", "broken"}
Objects == [ino : Nat \ {0}, text : {"first", "own", "made"}, meta : Metas]
First == [config |-> 1, state |-> 2]
Found == [Items -> Objects \cup {Nothing}]
RebrandCalls == [step : {"backup", "verify", "check", "move", "moved", "rewrite", "write", "reread",
                         "rollback", "back", "putback"},
                 item : Items, side : Sides, seen : Found, moved : Seq(Items), meta : Metas]

BrandTypeOK ==
    /\ place \in [Items -> [Sides -> Objects \cup {Nothing}]]
    /\ zips \subseteq Found
    /\ rcall \in [Callers -> RebrandCalls \cup {RbIdle}]
    /\ rbudget \in [calls : Nat, arrivals : Nat, deaths : Nat, ino : Nat]

\* A legacy workspace.
BrandInit ==
    /\ \E meta \in {"legacy", "broken"} :
         place = [x \in Items |-> [side \in Sides |->
                    IF side = "current" THEN Nothing
                    ELSE Object(First[x], "first", IF x = "config" THEN "none" ELSE meta)]]
    /\ zips = {}
    /\ rcall = [c \in Callers |-> RbIdle]
    /\ rbudget = [calls |-> 0, arrivals |-> 0, deaths |-> 0, ino |-> 2]

-----------------------------------------------------------------------------
RbGo(c, step) == rcall' = [rcall EXCEPT ![c].step = step]
RbEnd(c) == rcall' = [rcall EXCEPT ![c] = RbIdle]
Legacy == [x \in Items |-> place[x]["legacy"]]

\* Mixed workspaces are refused item by item; without legacy names there is
\* nothing to do.
StartRebrand(c) ==
    /\ rcall[c] = RbIdle
    /\ rbudget.calls < MaxRebrands
    /\ Legacy # NoSeen
    /\ \A x \in Items : place[x]["legacy"] = Nothing \/ place[x]["current"] = Nothing
    /\ rbudget' = [rbudget EXCEPT !.calls = @ + 1]
    /\ rcall' = [rcall EXCEPT ![c] = [step |-> "backup", item |-> "config", side |-> "legacy", seen |-> Legacy,
                                      moved |-> <<>>, meta |-> "none"]]
    /\ UNCHANGED <<place, zips>>

\* _create_backup: every file as it was first seen.
Backup(c) ==
    /\ rcall[c].step = "backup"
    /\ IF Legacy = rcall[c].seen THEN zips' = zips \cup {Legacy} /\ RbGo(c, "verify")
       ELSE RbEnd(c) /\ UNCHANGED zips
    /\ UNCHANGED <<place, rbudget>>

\* Every source still has the bytes and the topology of the backup.
VerifySources(c) ==
    /\ rcall[c].step = "verify"
    /\ IF Legacy = rcall[c].seen THEN RbGo(c, "check") ELSE RbEnd(c)
    /\ UNCHANGED <<place, zips, rbudget>>

\* A file must be the one that was seen, a directory only the same inode.
Unmoved(x, now, seen) == IF x = "config" THEN now = seen ELSE now.ino = seen.ino

\* A rename that replaces what it finds.
MayTakeAny(x, side) == TRUE

\* _rename_no_replace_at.
MayTake(x, side) == place[x][side] = Nothing

Renamed(x, from, to) == [place EXCEPT ![x][to] = place[x][from], ![x][from] = Nothing]

\* The configuration, then the state, then what is in it.
NextItem(c) ==
    rcall' = [rcall EXCEPT ![c] = IF @.item = "config" THEN [@ EXCEPT !.step = "check", !.item = "state"]
                                  ELSE [@ EXCEPT !.step = "rewrite"]]

\* _move_verified: the item is looked at, if it was there, ...
CheckItem(c) ==
    LET call == rcall[c]  x == call.item IN
    /\ call.step = "check"
    /\ CASE call.seen[x] = Nothing -> NextItem(c)
         [] call.seen[x] # Nothing /\ Unmoved(x, place[x]["legacy"], call.seen[x]) -> RbGo(c, "move")
         [] OTHER -> RbGo(c, "rollback")
    /\ UNCHANGED <<place, zips, rbudget>>

\* ... whatever has its name then is renamed, ...
TakeItem(c) ==
    LET call == rcall[c]  x == call.item IN
    /\ call.step = "move"
    /\ IF place[x]["legacy"] # Nothing /\ MayTake(x, "current")
       THEN /\ place' = Renamed(x, "legacy", "current")
            /\ rcall' = [rcall EXCEPT ![c] = [call EXCEPT !.step = "moved", !.moved = <<x>> \o @]]
       ELSE RbGo(c, "rollback") /\ UNCHANGED place
    /\ UNCHANGED <<zips, rbudget>>

\* ... and is looked at again.
CheckTaken(c) ==
    LET call == rcall[c]  x == call.item IN
    /\ call.step = "moved"
    /\ IF Unmoved(x, place[x]["current"], call.seen[x]) THEN NextItem(c) ELSE RbGo(c, "rollback")
    /\ UNCHANGED <<place, zips, rbudget>>

\* The metadata of a state that was moved is read; it must be JSON to be
\* rewritten.
ReadMeta(c) ==
    LET call == rcall[c]  now == place["state"]["current"] IN
    /\ call.step = "rewrite"
    /\ CASE call.seen["state"] = Nothing -> RbEnd(c)
         [] call.seen["state"] # Nothing /\ (now = Nothing \/ now.meta = "broken") -> RbGo(c, "rollback")
         [] call.seen["state"] # Nothing /\ now # Nothing /\ now.meta = "current" -> RbEnd(c)
         [] OTHER -> rcall' = [rcall EXCEPT ![c] = [call EXCEPT !.step = "write", !.meta = now.meta]]
    /\ UNCHANGED <<place, zips, rbudget>>

\* write_bytes_atomic: a directory that is not there any more is made anew.
PutMeta(side, meta) ==
    LET now == place["state"][side] IN
    /\ place' = [place EXCEPT !["state"][side] = IF now = Nothing THEN Object(rbudget.ino + 1, "made", meta)
                                                 ELSE [now EXCEPT !.meta = meta]]
    /\ rbudget' = [rbudget EXCEPT !.ino = IF now = Nothing THEN @ + 1 ELSE @]

WriteMeta(c) ==
    /\ rcall[c].step = "write"
    /\ PutMeta("current", "current")
    /\ RbGo(c, "reread")
    /\ UNCHANGED zips

\* The rewritten file is read once more.
Reread(c) ==
    /\ rcall[c].step = "reread"
    /\ IF place["state"]["current"] # Nothing THEN RbEnd(c) ELSE RbGo(c, "rollback")
    /\ UNCHANGED <<place, zips, rbudget>>

\* _rollback_namespace, the last rename first: an item that is not the one is
\* left; ...
Rollback(c) ==
    LET call == rcall[c]  x == Head(call.moved) IN
    /\ call.step = "rollback" /\ call.moved # <<>>
    /\ IF Unmoved(x, place[x]["current"], call.seen[x]) THEN RbGo(c, "back")
       ELSE rcall' = [rcall EXCEPT ![c].moved = Tail(@)]
    /\ UNCHANGED <<place, zips, rbudget>>

\* ... what has its name then goes back where nothing is.
MoveBack(c) ==
    LET call == rcall[c]  x == Head(call.moved) IN
    /\ call.step = "back"
    /\ place' = IF place[x]["current"] # Nothing /\ MayTake(x, "legacy") THEN Renamed(x, "current", "legacy") ELSE place
    /\ rcall' = [rcall EXCEPT ![c] = [call EXCEPT !.step = "rollback", !.moved = Tail(@)]]
    /\ UNCHANGED <<zips, rbudget>>

\* _restore_metadata, where the state is now ...
Restore(c) ==
    LET call == rcall[c]  side == IF place["state"]["legacy"] # Nothing THEN "legacy" ELSE "current" IN
    /\ call.step = "rollback" /\ call.moved = <<>>
    /\ IF call.meta = "none" \/ place["state"][side] = Nothing THEN RbEnd(c)
       ELSE rcall' = [rcall EXCEPT ![c] = [call EXCEPT !.step = "putback", !.side = side]]
    /\ UNCHANGED <<place, zips, rbudget>>

\* ... or was.
PutBack(c) ==
    /\ rcall[c].step = "putback"
    /\ PutMeta(rcall[c].side, rcall[c].meta)
    /\ RbEnd(c)
    /\ UNCHANGED zips

-----------------------------------------------------------------------------
\* Somebody writes to what is there, or a process makes a file or directory
\* where nothing is.
Arrive(x, side) ==
    /\ rbudget.arrivals < MaxArrivals
    /\ rbudget' = [rbudget EXCEPT !.arrivals = @ + 1, !.ino = IF place[x][side] = Nothing THEN @ + 1 ELSE @]
    /\ place' = [place EXCEPT ![x][side] =
                   IF @ = Nothing THEN Object(rbudget.ino + 1, "own", IF x = "config" THEN "none" ELSE "current")
                   ELSE [@ EXCEPT !.text = "own"]]
    /\ UNCHANGED <<zips, rcall>>

RebrandDies(c) ==
    /\ rcall[c] # RbIdle
    /\ rbudget.deaths < MaxDeaths
    /\ rbudget' = [rbudget EXCEPT !.deaths = @ + 1]
    /\ RbEnd(c)
    /\ UNCHANGED <<place, zips>>

BrandNext ==
    \/ \E c \in Callers :
         \/ StartRebrand(c) \/ Backup(c) \/ VerifySources(c) \/ CheckItem(c) \/ TakeItem(c) \/ CheckTaken(c)
         \/ ReadMeta(c) \/ WriteMeta(c) \/ Reread(c)
         \/ Rollback(c) \/ MoveBack(c) \/ Restore(c) \/ PutBack(c) \/ RebrandDies(c)
    \/ \E x \in Items, side \in Sides : Arrive(x, side)

-----------------------------------------------------------------------------
\* Nothing is lost: the configuration and the state that were there first, and
\* whatever anybody put at one of the names meanwhile, are still at one of
\* them; and what stands moved was in a backup first.  This holds however
\* calls overlap, fail half way, die and are made again
\* (migrate_legacy_workspace).
NothingLost ==
    /\ \A ino \in 1 .. rbudget.ino : \E x \in Items, side \in Sides : place[x][side].ino = ino
    /\ \A x \in Items : place[x]["current"].ino \in {1, 2} => \E z \in zips : z[x].ino = place[x]["current"].ino

-----------------------------------------------------------------------------
\* What a call has behind it: it saw the first of each item that it saw, has
\* the backup of what it may rename, and takes back what it renamed.
RebrandStands(call, backed) ==
    /\ call.step \notin {"idle", "backup"} => call.seen \in backed
    /\ call.step # "idle" => \A x \in Items : call.seen[x] # Nothing => call.seen[x].ino = First[x]
    /\ call.step \in {"move", "moved"} => call.seen[call.item] # Nothing
    /\ call.step = "back" => call.moved # <<>>

\* The inductive invariant of brand migrations: inodes beyond the first two
\* are other people's, or of a state made anew.
BrandInv ==
    /\ BrandTypeOK
    /\ NothingLost
    /\ rbudget.ino >= 2
    /\ \A x \in Items, side \in Sides : place[x][side].ino \in {1, 2} => place[x][side].ino = First[x]
    /\ \A c \in Callers : RebrandStands(rcall[c], zips)
=============================================================================
