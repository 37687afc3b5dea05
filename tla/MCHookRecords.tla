--------------------------- MODULE MCHookRecords ----------------------------
(* A small instance of HookRecords for TLC: machines with two builds of one  *)
(* harness, Cursor with and without Claude Code beside it, and the rest.     *)
EXTENDS HookRecords, TLC

Install(kind, place, version, readable) ==
    [kind |-> kind, place |-> place, version |-> version, readable |-> readable]
Terminal == Install("terminal", 1, "v1", TRUE)
Second == Install("terminal", 2, "v2", TRUE)
Desktop(v) == Install("desktop", 1, v, TRUE)
\* What is configured runs commands that are there, unless the scene says else.
Has(status, installs) ==
    [dir |-> TRUE, status |-> status, installs |-> installs, writable |-> TRUE,
     commands |-> IF status \in CONFIGURED_STATUSES THEN "resolve" ELSE "none",
     legacyNotify |-> FALSE]
Gone == [Has("not_detected", {}) EXCEPT !.dir = FALSE]
Machine(present) ==
    [h \in Harnesses |-> IF h \in DOMAIN present THEN present[h] ELSE Gone]
On(h, w) == [x \in {h} |-> w]

Scene(machine, moments, most, salted, isPaired, kills, pairings, upgrades, builds) ==
    [world |-> machine, moments |-> moments, most |-> most, salted |-> salted,
     paired |-> isPaired, kills |-> kills, pairings |-> pairings, upgrades |-> upgrades,
     builds |-> builds]

TwoCodex == Machine(On("codex", Has("needs_trust", {Terminal, Desktop("v3")})))
ThreeClaude == Machine(On("claude", Has("installed", {Terminal, Second, Desktop("v1")})))
OneClaude == Machine(On("claude", Has("installed", {Terminal})))
Bridge == Machine(On("cursor", Has("unknown", {Terminal}))
                  @@ On("claude", Has("installed", {Terminal})))
BothInCursor == Machine(On("cursor", Has("installed", {Terminal, Desktop("v1")}))
                        @@ On("claude", Has("installed", {Terminal})))
OpenCode == Machine(On("opencode", Has("needs_restart", {Terminal})))
Copilots == Machine(On("copilot", Has("installed", {Terminal})))
Everything == Machine([h \in Harnesses |-> Has("installed", {Terminal})])
\* What only doctor sees: commands that are gone, files that cannot be written, an
\* old notify slot, a plugin without a launcher.
Worn == Machine(On("claude", [Has("installed", {Terminal}) EXCEPT !.commands = "stale"])
                @@ On("cursor", [Has("installed", {Terminal}) EXCEPT !.writable = FALSE]))
Legacy == Machine(On("codex", [Has("installed", {Terminal}) EXCEPT !.legacyNotify = TRUE])
                  @@ On("copilot", Has("installed", {Terminal})))
Bare == Machine(On("opencode", [Has("needs_restart", {Terminal}) EXCEPT !.commands = "none"]))
Nothing == Machine(On("claude", Gone))
Broken == Machine(On("copilot", Has("error", {Terminal})) @@ On("codex", Has("throws", {})))

\* Every moment of every harness, once.
Surveyed == {Scene(w, Moments, 1, TRUE, TRUE, 0, 0, 0, 1) :
                w \in {TwoCodex, ThreeClaude, Bridge, BothInCursor, OpenCode, Copilots,
                      Everything, Broken, Worn, Legacy, Bare, Nothing}}
Named(by, hooks) ==
    {m \in Moments : m.by = by /\ \E f \in m.fires : f.payload.name \in hooks}
MCScenes ==
    Surveyed \cup
    {\* the session names under sweeps, lookups and ends
     Scene(OneClaude, Named("claude", {"SessionStart", "SessionEnd", "Stop"}), 2, TRUE, TRUE, 0, 0, 0, 1),
     \* the first fires of a machine that is being paired, one of which dies
     Scene(TwoCodex, Named("codex", {"agent-turn-complete"}), 1, FALSE, FALSE, 1, 1, 0, 1),
     \* events lost between a logout and a pairing, some of them local
     Scene(Copilots, {m \in CopilotMoments : m.kind \in {"tool", "turnEnd"}}, 2, TRUE, TRUE, 0, 1, 0, 1),
     \* builds that fire in turn and evict one another, or are upgraded between
     Scene(TwoCodex, Named("codex", {"SubagentStart"}), 3, TRUE, TRUE, 0, 0, 0, 2),
     Scene(TwoCodex, Named("codex", {"SubagentStart"}), 2, TRUE, TRUE, 0, 0, 1, 1),
     Scene(TwoCodex, Named("codex", {"SubagentStart"}), 2, TRUE, TRUE, 0, 0, 1, 3),
     \* two builds of one version that do not name themselves
     Scene(BothInCursor, Named("cursor", {"stop"}), 2, TRUE, TRUE, 0, 0, 1, 1)}
Answer(active, stale, quota) ==
    [up |-> TRUE, answers |-> TRUE,
     data |-> [active |-> active, stale |-> stale, checkIn |-> None, quota |-> quota]]
Silent(up) == [up |-> up, answers |-> FALSE, data |-> NoAnswer]
\* The probe and the account's question are two requests.
MCBackends ==
    {Answer(1, 0, None), Answer(1, 1, None), Answer(0, 0, None), Answer(1, 0, "exhausted"),
     [Answer(1, 0, None) EXCEPT !.up = FALSE], Silent(TRUE), Silent(FALSE)}
Symmetric == Permutations(Procs) \cup Permutations(Sessions)
=============================================================================
