------------------------------ MODULE Install ------------------------------
(***************************************************************************)
(* Installing and uninstalling one adapter, effect by effect on the disk,  *)
(* while the user edits the file, the harness fires hooks, the CLI moves   *)
(* and the process may die.  HarnessConfig says what becomes of a content; *)
(* this module says in which order the files change.                       *)
(***************************************************************************)
EXTENDS HarnessConfig, SequencesExt

CONSTANTS
    MaxUpsets   \* bound: edits of the user, moves of the CLI and crashes, together

ASSUME InstallAssumption == MaxUpsets \in Nat

VARIABLES
    harness,    \* the adapter's harness
    cfg,        \* its configuration file
    backup,     \* the copy of the original
    dated,      \* what Codex's dated copies hold of the user
    seen,       \* the marker that a hook reached us (codex.seen, opencode.seen)
    migrated,   \* Codex's migration marker
    launcher,   \* the argv OpenCode's plugin spawns
    cli,        \* the launcher of the CLI that is installed
    op,         \* the running install or uninstall, or the last one
    armed,      \* managed commands the harness has been told to trust, or has loaded
    shot,       \* a hook in flight: the managed command that started it
    upsets,     \* edits, moves and crashes so far
    mine,       \* history: what the user put in
    saved,      \* history: what the file held when a backup was due
    tainted     \* history: what went wrong outside BirdyBeep

vars == <<harness, cfg, backup, dated, seen, migrated, launcher, cli, op, armed, shot,
          upsets, mine, saved, tainted>>

files == <<cfg, backup, dated, seen, migrated, launcher>>
world == <<harness, cli, armed, shot, upsets>>

\* A managed command as the harness knows it: Codex trusts its hash.
Hash(e) == [step |-> e.step, ours |-> e.ours, time |-> e.time]
Hashes == [step: Steps, ours: Launchers, time: Timeouts]

ASSUME HashAssumption == None \notin Hashes

Effects == {"recordMigration", "clearSeen", "clearMigration", "setLauncher", "clearLauncher",
            "backup", "date", "truncate", "write", "restore", "dropBackup", "remove"}
Results == {"none", "error", "unchanged", "installed", "removed"}

\* raced: the user wrote during an operation.  blind: an install took a truncated file
\* for an empty one.  torn: a crash left half a backup, which counts as one.  doubt: the
\* marker may outlive what it proved.
Taints == {"raced", "blind", "torn", "doubt"}

Rest(result) == [todo |-> <<>>, draft |-> Absent, result |-> result]
Busy == op.todo # <<>>

Plan(result, todo, draft) == [todo |-> todo, draft |-> draft, result |-> result]

-----------------------------------------------------------------------------
(* The files an install may find: none, the user's, an older release's.    *)

Own(step) == [step |-> step, ours |-> None, time |-> "managed", mates |-> Mates]

UserFiles == {Absent, [Blankness EXCEPT !.keys = Keys],
              [Blankness EXCEPT !.entries = {Own("start")}]}

OldEntry(step, mates) == [step |-> step, ours |-> Bare, time |-> "legacy", mates |-> mates]

\* A CLI that moved may have left a second command of a step, and one on a step that is
\* not registered, which no step of Codex has ever ceased to be.
LeftSteps(h) == IF h = "codex" THEN {"start"} ELSE {"start", "retired"}
Leftovers(h) ==
    {{}} \cup IF h \in {"copilot", "opencode"} THEN {}
             ELSE {{Managed(s, l) : s \in LeftSteps(h)} : l \in Launchers \ {Bare}}

OldFiles(h, left) ==
    CASE h = "claude"   -> {[Blankness EXCEPT !.entries = {OldEntry("start", Mates)} \cup left]}
      [] h = "cursor"   -> {[Blankness EXCEPT !.entries = {OldEntry("start", {}), OldEntry("retired", {}),
                                                           Own("retired")} \cup left,
                                              !.keys = {"version"}]}
      [] h = "codex"    -> {[Blankness EXCEPT !.entries = {OldEntry("start", Mates)} \cup left,
                                              !.notify = "birdybeep"]}
      [] h = "copilot"  -> {[generatedCopilotHooks(Bare) EXCEPT
                               !.entries = {OldEntry(s, {}) : s \in Registered("copilot")}]}
      [] h = "opencode" -> {[Blankness EXCEPT !.entries = {Managed("plugin", Bare)}]}

\* An older Codex release displaced the user's notify and saved the file.
OldBackups(h) ==
    {Absent} \cup (IF h = "codex" THEN {[Blankness EXCEPT !.notify = "tool"]} ELSE {})

Init ==
    /\ harness \in Harnesses
    /\ \/ cfg \in UserFiles /\ backup = Absent /\ seen = FALSE /\ upsets = 0
       \/ \E left \in Leftovers(harness) :
             /\ cfg \in OldFiles(harness, left) /\ backup \in OldBackups(harness)
             /\ seen = (harness \in {"codex", "opencode"})
             /\ upsets = IF left = {} THEN 0 ELSE 1
    /\ armed = IF seen THEN {Hash(e) : e \in Ours(cfg)} ELSE {}
    /\ dated = {} /\ migrated = FALSE /\ launcher = None
    /\ cli \in Launchers
    /\ op = Rest("none") /\ shot = None
    /\ mine = Items(cfg) \cup (IF backup = Absent THEN {} ELSE Items(backup))
    /\ saved = {} /\ tainted = {}

-----------------------------------------------------------------------------
(* What an install will do, decided on one reading of the files.           *)

\* Mutated form: the copy is made of the file just truncated.
BackupTooLate == <<"truncate", "backup", "write">>

\* The original is copied once; writing truncates first.
Overwrite == IF cfg # Absent /\ backup = Absent THEN <<"backup", "truncate", "write">>
             ELSE <<"truncate", "write">>

installClaudeCode(firsts) ==
    LET merged == mergeClaude(Parsed(cfg), firsts, cli) IN
    IF cfg = Garbled THEN Rest("error")
    ELSE IF merged = Parsed(cfg) THEN Rest("installed")
    ELSE Plan("installed", Overwrite, merged)

installCursor(firsts) ==
    LET merged == mergeCursor(Parsed(cfg), firsts, cli) IN
    IF cfg = Garbled THEN Rest("error")
    ELSE IF merged = Parsed(cfg) THEN Rest("installed")
    ELSE Plan("installed", Overwrite, merged)

\* Mutated form: the marker of the former hooks is left.
KeepMarker == <<"recordMigration">>

\* Rewritten hooks are untrusted: what the marker proved is void before they are written.
Migration == <<"recordMigration", "clearSeen">>

\* Every overwrite has its copy: the first as the backup, later ones dated.
CodexOverwrite ==
    IF cfg # Absent /\ backup \notin {Absent, cfg} THEN <<"date", "truncate", "write">>
    ELSE Overwrite

installCodex(firsts) ==
    LET merged == mergeCodexConfig(Parsed(cfg), backup, firsts, cli)
        migrating == previouslyConfigured(Parsed(cfg))
    IN  IF cfg = Garbled THEN Rest("error")
        ELSE IF merged = Parsed(cfg) THEN Rest("installed")
        ELSE Plan("installed", (IF migrating THEN Migration ELSE <<>>) \o CodexOverwrite, merged)

\* Mutated form: an unchanged configuration needs no new launcher.
installOpenCodeOnce ==
    LET merged == mergeOpenCodeConfig(Parsed(cfg)) IN
    IF cfg = Garbled THEN Rest("error")
    ELSE IF merged = Parsed(cfg) THEN Rest("installed")
    ELSE Plan("installed", <<"setLauncher">> \o Overwrite, merged)

\* The launcher is recorded anew even where the configuration does not change.
installOpenCode ==
    LET merged == mergeOpenCodeConfig(Parsed(cfg)) IN
    IF cfg = Garbled THEN Rest("error")
    ELSE Plan("installed",
              <<"setLauncher">> \o (IF merged = Parsed(cfg) THEN <<>> ELSE Overwrite), merged)

\* A file of ours is migrated in place; anything else is overwritten, readable or not.
installCopilot ==
    LET expected == generatedCopilotHooks(cli) IN
    IF cfg = expected THEN Rest("installed")
    ELSE Plan("installed",
              IF isManagedCopilotHooks(cfg) THEN <<"truncate", "write">> ELSE Overwrite, expected)

-----------------------------------------------------------------------------
(* What an uninstall will do.                                              *)

DropBackup == IF backup # Absent THEN <<"dropBackup">> ELSE <<>>

NothingInstalled == Plan("unchanged", DropBackup, Absent)

\* Removed if we made the file and nothing else is in it, written back otherwise.
Cleaned(cleaned, ownFile, clears) ==
    IF ownFile /\ backup = Absent THEN Plan("removed", <<"remove">> \o clears, Absent)
    ELSE Plan("removed", <<"truncate", "write">> \o DropBackup \o clears, cleaned)

uninstallClaudeCode ==
    LET cleaned == removeBirdyBeepHooks(cfg) IN
    IF cfg = Absent THEN NothingInstalled
    ELSE IF cfg \in Damaged THEN Rest("error")
    ELSE IF cleaned = cfg THEN Rest("unchanged")
    ELSE Cleaned(cleaned, cleaned = Blankness, <<>>)

uninstallCursor ==
    LET cleaned == removeCursorHooks(cfg) IN
    IF cfg = Absent THEN NothingInstalled
    ELSE IF cfg \in Damaged THEN Rest("error")
    ELSE IF cleaned = cfg THEN Rest("unchanged")
    ELSE Cleaned(cleaned, onlyScaffoldingRemains(cleaned), <<>>)

uninstallCodex ==
    LET cleaned == removeBirdyBeepConfig(Parsed(cfg), backup) IN
    IF cfg = Absent THEN NothingInstalled
    ELSE IF Garbled \in {cfg, backup} THEN Rest("error")
    ELSE IF cleaned = Parsed(cfg) THEN Rest("unchanged")
    ELSE Cleaned(IF backup # Absent /\ cleaned = Parsed(backup) THEN backup ELSE cleaned,
                 cleaned = Blankness, <<"clearSeen", "clearMigration">>)

uninstallOpenCode ==
    LET cleaned == removeBirdyBeepPlugin(Parsed(cfg)) IN
    IF cfg = Absent THEN NothingInstalled
    ELSE IF Garbled \in {cfg, backup} THEN Rest("error")
    ELSE IF cleaned = Parsed(cfg) THEN Rest("unchanged")
    ELSE Cleaned(IF backup # Absent /\ cleaned = Parsed(backup) THEN backup ELSE cleaned,
                 cleaned = Blankness, <<"clearSeen", "clearLauncher">>)

\* What was there before comes back, unless it was ours as well.
uninstallCopilot ==
    IF cfg = Absent /\ backup = Absent THEN Rest("unchanged")
    ELSE IF backup # Absent
         THEN IF isManagedCopilotHooks(backup)
              THEN Plan("removed", <<"dropBackup">> \o
                        (IF isManagedCopilotHooks(cfg) THEN <<"remove">> ELSE <<>>), Absent)
              ELSE Plan("removed", <<"truncate", "write", "dropBackup">>, backup)
    ELSE IF ~isManagedCopilotHooks(cfg) THEN Rest("unchanged")
    ELSE Plan("removed", <<"remove">>, Absent)

-----------------------------------------------------------------------------
(* Starting an operation.                                                  *)

\* What an operation owes a copy of: Codex's install whatever it overwrites, the others
\* what the first install overwrites; with a backup there, what the user wrote since has
\* none.  An uninstall makes no copy; Copilot's writes the backup back.
Due(plan) ==
    IF ~Contains(plan.todo, "truncate") THEN saved
    ELSE IF cfg = Absent THEN {}
    ELSE IF plan.result = "removed" THEN IF harness = "copilot" THEN saved ELSE {}
    ELSE IF (backup = Absent \/ harness = "codex")
            /\ ~(harness = "copilot" /\ isManagedCopilotHooks(cfg)) THEN Items(cfg)
    ELSE saved

StartOp(plan) ==
    /\ ~Busy
    /\ op' = plan
    /\ saved' = Due(plan)
    /\ tainted' = IF plan.result = "installed" /\ cfg = Empty THEN tainted \cup {"blind"} ELSE tainted
    /\ UNCHANGED <<files, world, mine>>

StartInstall ==
    \E firsts \in Firsts(harness, cfg) :
        StartOp(CASE harness = "claude"   -> installClaudeCode(firsts)
                  [] harness = "cursor"   -> installCursor(firsts)
                  [] harness = "codex"    -> installCodex(firsts)
                  [] harness = "copilot"  -> installCopilot
                  [] harness = "opencode" -> installOpenCode)

StartUninstall ==
    StartOp(CASE harness = "claude"   -> uninstallClaudeCode
              [] harness = "cursor"   -> uninstallCursor
              [] harness = "codex"    -> uninstallCodex
              [] harness = "copilot"  -> uninstallCopilot
              [] harness = "opencode" -> uninstallOpenCode)

-----------------------------------------------------------------------------
(* The effects, in order.                                                  *)

Upset == upsets < MaxUpsets /\ upsets' = upsets + 1

Effect(e) == Busy /\ Head(op.todo) = e
Done == op' = [op EXCEPT !.todo = Tail(@)]

CopyOriginal ==
    /\ Effect("backup") /\ backup' = cfg
    /\ Done
    /\ UNCHANGED <<cfg, dated, seen, migrated, launcher, world, mine, saved, tainted>>

CopyDated ==
    /\ Effect("date") /\ dated' = dated \cup Items(cfg)
    /\ Done
    /\ UNCHANGED <<cfg, backup, seen, migrated, launcher, world, mine, saved, tainted>>

WriteConfig ==
    /\ \/ Effect("truncate") /\ cfg' = Empty
       \/ Effect("write") /\ cfg' = op.draft
       \/ Effect("remove") /\ cfg' = Absent
    /\ Done
    /\ UNCHANGED <<backup, dated, seen, migrated, launcher, world, mine, saved, tainted>>

ConsumeBackup ==
    /\ Effect("dropBackup") /\ backup' = Absent
    /\ Done
    /\ UNCHANGED <<cfg, dated, seen, migrated, launcher, world, mine, saved, tainted>>

\* Cleared, the marker proves nothing and cannot be wrong.
clearSeen ==
    /\ Effect("clearSeen")
    /\ seen' = FALSE /\ tainted' = tainted \ {"doubt"}
    /\ Done
    /\ UNCHANGED <<cfg, backup, dated, migrated, launcher, world, mine, saved>>

MarkMigration ==
    /\ \/ Effect("recordMigration") /\ migrated' = TRUE
       \/ Effect("clearMigration") /\ migrated' = FALSE
    /\ Done
    /\ UNCHANGED <<cfg, backup, dated, seen, launcher, world, mine, saved, tainted>>

\* Mutated form: a bare launcher is recorded like any other.
RecordAnyLauncher ==
    /\ \/ Effect("setLauncher") /\ launcher' = cli
       \/ Effect("clearLauncher") /\ launcher' = None
    /\ Done
    /\ UNCHANGED <<cfg, backup, dated, seen, migrated, world, mine, saved, tainted>>

\* A bare launcher is what the plugin resolves without a record.
RecordLauncher ==
    /\ \/ Effect("setLauncher") /\ launcher' = IF cli = Bare THEN None ELSE cli
       \/ Effect("clearLauncher") /\ launcher' = None
    /\ Done
    /\ UNCHANGED <<cfg, backup, dated, seen, migrated, world, mine, saved, tainted>>

\* The process dies before its next effect, or in the middle of a copy or a write.
Crash ==
    /\ Busy /\ Upset
    /\ \/ UNCHANGED <<cfg, backup>>
       \/ Effect("write") /\ cfg' = Garbled /\ UNCHANGED backup
       \/ Effect("backup") /\ backup' = Empty /\ UNCHANGED cfg
    /\ op' = Rest("none")
    /\ tainted' = tainted \cup (IF Contains(op.todo, "clearSeen") THEN {"doubt"} ELSE {})
                           \cup (IF backup' # backup THEN {"torn"} ELSE {})
    /\ UNCHANGED <<dated, seen, migrated, launcher, harness, cli, armed, shot, mine, saved>>

-----------------------------------------------------------------------------
(* The harness.                                                            *)

\* `birdybeep' on the harness's PATH is taken to be found.
Resolves(cmd) == staleHookCommandPaths(cmd, cli) = {}

\* Codex skips a hook it was not told to trust; OpenCode calls the plugin it has
\* loaded, which spawns the recorded launcher or, if that is gone, the name on PATH.
Fires(step) ==
    IF harness = "opencode" THEN \E e \in armed : e.step = step
    ELSE \E e \in OursIn(cfg) :
            e.step = step /\ Resolves(e.ours) /\ (harness = "codex" => Hash(e) \in armed)

Fire ==
    /\ harness \in {"codex", "opencode"} /\ shot = None
    /\ \E step \in Registered(harness) : Fires(step)
    /\ shot' \in {e \in armed : Fires(e.step) /\
                     (harness = "codex" => \E d \in OursIn(cfg) : Hash(d) = e)}
    /\ UNCHANGED <<files, harness, cli, armed, upsets, op, mine, saved, tainted>>

\* A fire leaves the marker, unless its outcome is no proof.  It proves the hook that
\* fired: the marker is in doubt when others do not run, are gone or being rewritten.
RunHook ==
    /\ shot # None
    /\ \/ /\ seen' = TRUE
          /\ tainted' = IF seen \/ (~Busy /\ \A step \in Registered(harness) :
                                          Fires(step) /\ \E e \in OursIn(cfg) : e.step = step)
                        THEN tainted ELSE tainted \cup {"doubt"}
       \/ UNCHANGED <<seen, tainted>>
    /\ shot' = None
    /\ UNCHANGED <<cfg, backup, dated, migrated, launcher, harness, cli, armed, upsets, op,
                    mine, saved>>

\* The user approves our hooks in Codex, or OpenCode starts anew.
Arm ==
    /\ harness \in {"codex", "opencode"} /\ cfg \notin Damaged
    /\ armed' = {Hash(e) : e \in OursIn(cfg)}
    /\ armed' # armed
    /\ UNCHANGED <<files, harness, cli, shot, upsets, op, mine, saved, tainted>>

-----------------------------------------------------------------------------
(* The user.                                                               *)

\* Node or the CLI is installed elsewhere.
MoveCli ==
    /\ ~Busy /\ Upset
    /\ cli' \in Launchers \ {cli}
    /\ op' = Rest("none")
    /\ UNCHANGED <<files, harness, armed, shot, mine, saved, tainted>>

\* What an editor may make of a file: add or remove a command of the user's, beside
\* ours where an entry holds several, or a key; set our timeout; delete our entries, or
\* bring some along from elsewhere; give the notify slot to another tool.
Edited(f) ==
    LET c == Parsed(f)
        flat == harness \in {"cursor", "opencode"}
        Swap(e, d) == [c EXCEPT !.entries = (@ \ {e}) \cup {d}]
    IN  {Swap(e, [e EXCEPT !.mates = Mates]) : e \in {d \in c.entries : ~flat \/ ~isBirdyBeepEntry(d)}}
        \cup {Swap(e, [e EXCEPT !.mates = {}]) : e \in Ours(c)}
        \cup {Swap(e, [e EXCEPT !.time = "own"]) : e \in {d \in Ours(c) : harness # "opencode"}}
        \cup {[c EXCEPT !.entries = @ \ {e}] : e \in c.entries}
        \cup {[c EXCEPT !.entries = @ \cup left] : left \in Leftovers(harness)}
        \cup {[c EXCEPT !.entries = @ \cup {Own("stop")}], [c EXCEPT !.keys = @ \cup Keys],
              [c EXCEPT !.keys = @ \ Keys]}
        \cup (IF harness = "codex" THEN {[c EXCEPT !.notify = "tool"]} ELSE {})

\* A change of our own entries, or of the whole file, the marker knows nothing of.
UserWrites(f) ==
    /\ f # cfg
    /\ cfg' = f
    /\ tainted' = tainted \cup (IF Busy THEN {"raced"} ELSE {})
                  \cup (IF OursIn(f) = OursIn(cfg) THEN {} ELSE {"doubt"})
    /\ op' = IF Busy THEN op ELSE Rest("none")
    /\ mine' = IF f = Absent THEN {}
               ELSE (mine \ (Items(cfg) \ Items(f))) \cup (Items(f) \ Items(cfg))
    /\ saved' = saved \ (Items(cfg) \ Items(f))
    /\ UNCHANGED <<backup, dated, seen, migrated, launcher, harness, cli, armed, shot>>

UserEdits ==
    /\ Upset /\ cfg \notin Damaged
    /\ \E f \in Edited(cfg) \cup {Absent} : UserWrites(f)

\* Doctor's remedy for a file that does not parse; it costs no edit.
RestoreBackup ==
    /\ ~Busy /\ cfg = Garbled /\ backup # Absent
    /\ cfg' = backup
    /\ mine' = Items(backup)
    /\ tainted' = tainted \cup {"doubt"}
    /\ op' = Rest("none")
    /\ UNCHANGED <<backup, dated, seen, migrated, launcher, world, saved>>

-----------------------------------------------------------------------------
Step == \/ CopyOriginal \/ CopyDated \/ WriteConfig \/ ConsumeBackup
        \/ clearSeen \/ MarkMigration \/ RecordLauncher

Next ==
    \/ StartInstall \/ StartUninstall \/ Step \/ Crash
    \/ Fire \/ RunHook \/ Arm
    \/ MoveCli \/ UserEdits \/ RestoreBackup

Spec == Init /\ [][Next]_vars

-----------------------------------------------------------------------------
(* What status and doctor make of it.                                      *)

Inspection == inspectConfig(harness, cfg, cli)

Status ==
    CASE harness = "claude"   -> claudeCodeStatus(Inspection)
      [] harness = "cursor"   -> cursorStatus(Inspection)
      [] harness = "codex"    -> codexStatus(Inspection, seen)
      [] harness = "copilot"  -> copilotStatus(cfg, Inspection)
      [] harness = "opencode" -> opencodeStatus(Inspection, seen)

Doctor ==
    CASE harness = "claude"   -> claudeCodeDoctor(Inspection)
      [] harness = "cursor"   -> cursorDoctor(Inspection)
      [] harness = "codex"    -> codexDoctor(Inspection, seen)
      [] harness = "copilot"  -> copilotDoctor(cfg, Inspection)
      [] harness = "opencode" -> opencodeDoctor(Inspection, launcher, cli, seen)

\* Turn-complete is dark since a migration: derived from two markers.
codexTurnCompleteIsDark == migrated /\ ~seen

-----------------------------------------------------------------------------
(* Properties.                                                             *)

\* Every file, marker and record has one of the forms the code writes.
TypeOK ==
    /\ harness \in Harnesses
    /\ {cfg, backup} \subseteq File
    /\ {seen, migrated} \subseteq BOOLEAN
    /\ launcher \in (Launchers \ {Bare}) \cup {None} /\ cli \in Launchers
    /\ op.draft \in File /\ op.result \in Results /\ Range(op.todo) \subseteq Effects
    /\ tainted \subseteq Taints

\* Installs and uninstalls in any order, over files of the user or of older releases
\* and through repairs of moved launchers, leave every command, key and notify program
\* of the user in the file, those that share an entry with ours included, and bring
\* back the notify program an older release displaced (install.ts and uninstall.ts of
\* the adapters).  Copilot's file is written whole and is the next property's.
UserContentKept ==
    ~Busy /\ cfg \notin Damaged /\ harness # "copilot" /\ {"raced", "blind"} \cap tainted = {}
    => Items(cfg) = mine \ (IF Parsed(cfg).notify = "birdybeep" THEN {<<"notify", "tool">>} ELSE {})

\* Copies are made before what they copy is overwritten, and stay until an uninstall
\* consumes them: whenever the file is truncated or half written, by an install,
\* an uninstall or a crash, the backup has what of the user's the file held when an
\* install first overwrote it and the user has not removed since.  Codex's dated copies
\* also have what it held at each later overwrite; for the other harnesses what the user
\* wrote after the backup was made has no copy.  Copilot's backup moreover has what its
\* own file never holds (installClaudeCode, installCodex, installCopilot).
LastCopyKept ==
    (cfg \in Damaged \/ (harness = "copilot" /\ isManagedCopilotHooks(cfg)))
    /\ {"raced", "blind", "torn"} \cap tainted = {}
    => saved \subseteq Items(backup) \cup dated

\* After an uninstall that reports a removal nothing of ours is left: no managed command
\* of any form ever written, no backup, marker or launcher record, unless a hook in
\* flight wrote its marker late (uninstall.ts of the adapters).  Of Copilot's file only
\* what is wholly ours is claimed: a managed file the user edited stays.  So do Codex's
\* dated copies, which are the user's to delete.
UninstallClean ==
    ~Busy /\ op.result = "removed" /\ "raced" \notin tainted
    => /\ IF harness = "copilot" THEN ~isManagedCopilotHooks(cfg)
          ELSE cfg # Garbled /\ Parsed(cfg).notify # "birdybeep"
               /\ \A e \in Parsed(cfg).entries : e.ours = None
       /\ backup = Absent /\ ~migrated /\ launcher = None
       /\ seen => "doubt" \in tainted

\* Where doctor has nothing to say, each hook the adapter registers starts the CLI: it
\* is there, resolves, and is trusted or loaded.  In particular no install that rewrites
\* hooks leaves a marker that vouches for the former ones (codexDoctor, recordCodexMigration,
\* clearCodexTrust).  Excepted is a marker outdated by the user's own edits of our hooks,
\* by a crash before it was cleared or by a hook in flight, and one left by a hook while
\* others were not trusted: it proves the one that fired.
DoctorHonest ==
    Doctor = {} /\ "doubt" \notin tainted =>
        /\ Status = "installed" /\ ~codexTurnCompleteIsDark
        /\ \A step \in Registered(harness) : Fires(step)

\* The harness would start one of these beside the commands an install answers for.
Crowded(f) ==
    \E d, e \in OursIn(f) : d # e /\ (d.step = e.step \/ e.step \notin Registered(harness))

\* An install heals what doctor sends the user to install for: whatever state an older
\* release, a moved CLI, the user or a crash left, each hook the adapter registers then
\* starts the CLI that is there, and doctor wants only trust or a restart (the remedies
\* of the doctors).  Two things an install cannot heal: a command beside the first of its
\* step, or on a step that is not registered, keeps a path that is gone
\* (`findIndex' in mergeBirdyBeepHooks and mergeCodexConfig); and for OpenCode a CLI that
\* cannot name its own path has nothing to record.
InstallHeals ==
    ~Busy /\ op.result = "installed" /\ "raced" \notin tainted =>
        /\ Doctor \subseteq {"trusted", "loaded"}
                            \cup (IF Crowded(cfg) \/ (harness = "opencode" /\ cli = Bare)
                                  THEN {"resolves"} ELSE {})
        /\ harness # "opencode" =>
             \A step \in Registered(harness) : \E e \in OursIn(cfg) : e.step = step /\ e.ours = cli

=============================================================================
