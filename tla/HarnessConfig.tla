--------------------------- MODULE HarnessConfig ---------------------------
(***************************************************************************)
(* What install, uninstall, status and doctor of the five adapters make of *)
(* a harness's configuration file, as functions of its content.            *)
(*                                                                         *)
(* A content is a set of matcher entries, the user's other keys, and       *)
(* Codex's single notify slot.  An entry registers at most one managed     *)
(* command for a step of the harness and may carry commands of the user    *)
(* beside it; the managed command is the launcher it was written with.  A  *)
(* step may have several managed entries, and a step that is not           *)
(* registered may have some: which of them comes first is left open.       *)
(* OpenCode's plugin array and Copilot's own hook file are contents of the *)
(* same form.  A config is read as written: quoting and tokenizing are     *)
(* left out.                                                               *)
(***************************************************************************)
EXTENDS Naturals, Sequences, FiniteSets

CONSTANTS
    Launchers,  \* command prefixes: paths of a CLI, or the bare name
    Bare,       \* the bare name, resolved on PATH
    Mates,      \* commands of the user
    Keys,       \* other keys of the user
    None,       \* nothing
    Absent,     \* no file
    Empty,      \* a file of no bytes
    Garbled     \* a file that does not parse

ASSUME ConfigAssumption ==
    /\ Bare \in Launchers /\ None \notin Launchers
    /\ "version" \notin Keys
    /\ Absent # Empty /\ Absent # Garbled /\ Empty # Garbled

Harnesses == {"claude", "codex", "cursor", "copilot", "opencode"}

\* Two events stand for those an adapter registers, "retired" for one it does not, or
\* no longer; OpenCode loads a plugin instead.
Registered(h) == IF h = "opencode" THEN {"plugin"} ELSE {"start", "stop"}
Steps == {"start", "stop", "retired", "plugin"}

\* The timeout of a managed command: of an old release, of this one, the user's own.
Timeouts == {"legacy", "managed", "own"}

Entry == [step: Steps, ours: Launchers \cup {None}, time: Timeouts, mates: SUBSET Mates]
Content == [entries: SUBSET Entry, keys: SUBSET (Keys \cup {"version"}),
            notify: {"none", "birdybeep", "tool"}]
File == Content \cup {Absent, Empty, Garbled}
Damaged == {Empty, Garbled}

ASSUME FormsAssumption == {Absent, Empty, Garbled} \cap Content = {}

Blankness == [entries |-> {}, keys |-> {}, notify |-> "none"]

\* `raw.trim().length > 0 ? parse(raw) : {}'
Parsed(f) == IF f \in {Absent, Empty} THEN Blankness ELSE f

Managed(step, cmd) == [step |-> step, ours |-> cmd, time |-> "managed", mates |-> {}]

\* Mutated form: only a command with a path is recognized.
AbsoluteOnly(cmd) == cmd # None /\ cmd # Bare

\* Any form that was ever written: bare, absolute, or absolute and moved.
isBirdyBeepHookCommand(cmd) == cmd # None

isBirdyBeepEntry(e) == isBirdyBeepHookCommand(e.ours)

Ours(c) == {e \in c.entries : isBirdyBeepEntry(e)}
OursIn(f) == IF f = Garbled THEN {} ELSE Ours(Parsed(f))
Missing(h, c) == {s \in Registered(h) : ~\E e \in Ours(c) : e.step = s}

-----------------------------------------------------------------------------
(* Install.                                                                *)

\* Mutated form: the entry is replaced, with what the user put beside the command.
ReplaceEntry(e, cmd) == Managed(e.step, cmd)

\* The command and the former timeout are rewritten in place, nothing else.
repairEntryCommand(e, cmd) ==
    [e EXCEPT !.ours = cmd, !.time = IF @ = "legacy" THEN "managed" ELSE @]

\* `findIndex(isBirdyBeepEntry)': one managed entry of each registered step that has any.
Firsts(h, f) ==
    LET repairable == {e \in OursIn(f) : e.step \in Registered(h)} IN
    {D \in SUBSET repairable :
        /\ \A d, e \in D : d.step = e.step => d = e
        /\ \A e \in repairable : \E d \in D : d.step = e.step}

\* Only the first managed entry of a step is repaired.
RepairedOrAdded(h, c, firsts, cmd, Repair(_, _)) ==
    {IF e \in firsts THEN Repair(e, cmd) ELSE e : e \in c.entries}
    \cup {Managed(s, cmd) : s \in Missing(h, c)}

mergeClaude(c, firsts, cmd) ==
    [c EXCEPT !.entries = RepairedOrAdded("claude", c, firsts, cmd, repairEntryCommand)]

\* An older release's notify goes back to the program it displaced, or goes.
restoredNotify(c, backup) ==
    IF c.notify # "birdybeep" THEN c.notify
    ELSE IF backup # Garbled /\ Parsed(backup).notify # "birdybeep"
         THEN Parsed(backup).notify
    ELSE "none"

mergeCodexConfig(c, backup, firsts, cmd) ==
    [c EXCEPT !.entries = RepairedOrAdded("codex", c, firsts, cmd, repairEntryCommand),
              !.notify = restoredNotify(c, backup)]

previouslyConfigured(c) == c.notify = "birdybeep" \/ Ours(c) # {}

\* A flat entry: its command is repaired, and all on a retired step go.
mergeCursor(c, firsts, cmd) ==
    LET CommandOnly(e, cm) == [e EXCEPT !.ours = cm]
        merged == RepairedOrAdded("cursor", c, firsts, cmd, CommandOnly)
    IN  [c EXCEPT !.entries = {e \in merged : ~(e.step = "retired" /\ isBirdyBeepEntry(e))},
                  !.keys = @ \cup {"version"}]

mergeOpenCodeConfig(c) ==
    IF Missing("opencode", c) = {} THEN c
    ELSE [c EXCEPT !.entries = @ \cup {Managed("plugin", Bare)}]

\* Copilot has a file of its own, written whole.
generatedCopilotHooks(cmd) ==
    [Blankness EXCEPT !.entries = {Managed(s, cmd) : s \in Registered("copilot")},
                      !.keys = {"version"}]

\* It is ours only if nothing in it is not.
isCopilotHooksWithTimeout(f, time) ==
    /\ f \notin {Absent, Empty, Garbled}
    /\ f.keys = {"version"} /\ f.notify = "none"
    /\ {e.step : e \in f.entries} = Registered("copilot")
    /\ Cardinality(f.entries) = Cardinality(Registered("copilot"))
    /\ \A e \in f.entries : isBirdyBeepEntry(e) /\ e.mates = {} /\ e.time = time

isManagedCopilotHooks(f) ==
    isCopilotHooksWithTimeout(f, "managed") \/ isCopilotHooksWithTimeout(f, "legacy")

-----------------------------------------------------------------------------
(* Uninstall.                                                              *)

\* Our command goes out of its entry; an entry that held nothing else goes with it.
stripBirdyBeepFromEntry(e) ==
    IF ~isBirdyBeepEntry(e) THEN {e}
    ELSE IF e.mates = {} THEN {}
    ELSE {[e EXCEPT !.ours = None, !.time = "managed"]}

removeBirdyBeepHooks(c) ==
    [c EXCEPT !.entries = UNION {stripBirdyBeepFromEntry(e) : e \in @}]

\* Cursor's entries are flat.
removeCursorHooks(c) == [c EXCEPT !.entries = @ \ Ours(c)]

removeBirdyBeepPlugin(c) == [c EXCEPT !.entries = @ \ {Managed("plugin", Bare)}]

removeBirdyBeepConfig(c, backup) ==
    [removeBirdyBeepHooks(c) EXCEPT !.notify = restoredNotify(c, backup)]

\* Cursor's version is scaffolding of ours when we created the file.
onlyScaffoldingRemains(c) == c = [Blankness EXCEPT !.keys = c.keys \cap {"version"}]

-----------------------------------------------------------------------------
(* Status and doctor.  A state is what an adapter reads off its file.      *)

\* Absolute paths that are gone: at any time one CLI is installed.
staleHookCommandPaths(cmd, cli) == IF cmd \in {Bare, cli} THEN {} ELSE {cmd}

installedBirdyBeepCommands(c) == {e.ours : e \in Ours(c)}

\* An empty file is valid TOML but not valid JSON.
inspectConfig(h, f, cli) ==
    IF f = Garbled \/ (f = Empty /\ h # "codex") THEN [parseable |-> FALSE]
    ELSE LET c == Parsed(f) IN
         [parseable |-> TRUE, present |-> Registered(h) \ Missing(h, c),
          stale |-> UNION {staleHookCommandPaths(cmd, cli) : cmd \in installedBirdyBeepCommands(c)},
          legacyNotify |-> c.notify = "birdybeep"]

claudeCodeStatus(s) ==
    IF ~s.parseable THEN "error"
    ELSE IF s.present = Registered("claude") THEN "installed"
    ELSE IF s.present # {} THEN "error"
    ELSE "unknown"

cursorStatus(s) ==
    IF ~s.parseable THEN "error"
    ELSE IF s.present = Registered("cursor") THEN "installed"
    ELSE IF s.present # {} THEN "error"
    ELSE "unknown"

copilotStatus(f, s) ==
    IF ~s.parseable THEN "error"
    ELSE IF isCopilotHooksWithTimeout(f, "managed") THEN "installed"
    ELSE IF f # Absent THEN "error"
    ELSE "unknown"

\* Installed only once an event has proved the hooks trusted.
codexStatus(s, seen) ==
    IF ~s.parseable THEN "error"
    ELSE IF s.present = Registered("codex") THEN IF seen THEN "installed" ELSE "needs_trust"
    ELSE IF s.legacyNotify \/ s.present # {} THEN "error"
    ELSE "unknown"

\* Installed only once an event has proved the plugin loaded.
opencodeStatus(s, seen) ==
    IF ~s.parseable THEN "error"
    ELSE IF s.present = Registered("opencode") THEN IF seen THEN "installed" ELSE "needs_restart"
    ELSE "unknown"

\* The failing checks of a doctor: what the file and the records of BirdyBeep decide.
\* Detection, permissions and the token are checks of their own and are left out.
Fails(check, cond) == IF cond THEN {check} ELSE {}

claudeCodeDoctor(s) ==
    IF ~s.parseable THEN {"valid"}
    ELSE Fails("installed", s.present # Registered("claude"))
         \cup Fails("resolves", s.present # {} /\ s.stale # {})

cursorDoctor(s) ==
    IF ~s.parseable THEN {"valid"}
    ELSE Fails("installed", s.present # Registered("cursor"))
         \cup Fails("resolves", s.present # {} /\ s.stale # {})

copilotDoctor(f, s) ==
    IF ~s.parseable THEN {"valid"}
    ELSE Fails("installed", ~isCopilotHooksWithTimeout(f, "managed"))
         \cup Fails("resolves", f # Absent /\ s.stale # {})

codexDoctor(s, seen) ==
    IF ~s.parseable THEN {"valid"}
    ELSE Fails("installed", s.present # Registered("codex"))
         \cup Fails("resolves", s.present # {} /\ s.stale # {})
         \cup Fails("notify", s.legacyNotify)
         \cup Fails("trusted", s.present = Registered("codex") /\ ~seen)

\* The launcher is the recorded one; without a record, one that has delivered will do.
opencodeDoctor(s, launcher, cli, seen) ==
    IF ~s.parseable THEN {"valid"}
    ELSE IF s.present = {} THEN {"installed"}
    ELSE Fails("resolves", IF launcher = None THEN ~seen
                           ELSE staleHookCommandPaths(launcher, cli) # {})
         \cup Fails("loaded", ~seen)

-----------------------------------------------------------------------------
\* What in a file is the user's.
Items(f) ==
    IF f = Garbled THEN {}
    ELSE LET c == Parsed(f) IN
         {<<"key", k>> : k \in c.keys \cap Keys}
         \cup (UNION {{<<e.step, m>> : m \in e.mates} : e \in c.entries})
         \cup (IF c.notify = "tool" THEN {<<"notify", "tool">>} ELSE {})

=============================================================================
