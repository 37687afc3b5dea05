----------------------------- MODULE Diagnosis ------------------------------
(* What status, doctor and setup conclude from what they read: the surfaces  *)
(* (builds) of every harness, the observations the hooks recorded, the token *)
(* lookup and the backend's answer. Pure: each operator is a verdict.        *)
EXTENDS Naturals, FiniteSets

None == "none"

(* An install of a harness: where it is, the version that can be read off    *)
(* the disk (None when it cannot), and its place on PATH. The first build on *)
(* PATH is also asked for its version; those behind it never run.            *)
Shadowed(i) == i.kind = "terminal" /\ i.place > 1
\* The ChatGPT bundle says nothing of its version on disk.
Readable(h, i) == i.readable /\ ~(h = "codex" /\ i.kind = "desktop")
surfaceOf(h, i) ==
    [kind |-> i.kind, place |-> i.place, shadowed |-> Shadowed(i),
     version |-> IF Readable(h, i) \/ (i.kind = "terminal" /\ ~Shadowed(i))
                 THEN i.version ELSE None]
surfacesOf(h, installs) == {surfaceOf(h, i) : i \in installs}
\* A harness is there with its configuration directory or a command on PATH; a
\* desktop app alone does not count.
detected(w) == w.dir \/ \E i \in w.installs : i.kind = "terminal"

\* What a fire tells of the build it came from; Cursor and Copilot never name
\* the surface, OpenCode names nothing, and a notify program has no rollout.
\* Codex learns both from the rollout when it can be read, the version alone when
\* it does not know the originator named there.
identitiesOf(h, i, fire) ==
    CASE h = "opencode" -> {[surface |-> "unknown", version |-> None]}
      [] h \in {"cursor", "copilot"} -> {[surface |-> "unknown", version |-> i.version]}
      [] h = "codex" -> {[surface |-> "unknown", version |-> None]} \cup
            (IF fire.arg = "notify" THEN {}
             ELSE {[surface |-> x, version |-> i.version] : x \in {i.kind, "unknown"}})
      [] h = "claude" -> {[surface |-> i.kind, version |-> i.version]}

HARNESS_SURFACE_KINDS == {"terminal", "desktop"}
INTEGRATION_STATUSES ==
    {"installed", "not_detected", "needs_restart", "needs_trust", "error", "revoked", "unknown"}
CONFIGURED_STATUSES == {"installed", "needs_trust", "needs_restart"}
PENDING_STATUSES == {"needs_trust", "needs_restart"}

(* gradeSurfaces: which observations speak for a surface. obs maps an        *)
(* identity to the number of events counted for it, which is never zero.     *)
Claimed(ss, kind) == {s.version : s \in {x \in ss : x.kind = kind}} \ {None}
\* Mutated form: a version alone tells a build.
exactVersion(s, obs) == {b \in DOMAIN obs : s.version # None /\ b.version = s.version}
exact(s, obs) ==
    {b \in DOMAIN obs : s.version # None /\ b.surface = s.kind /\ b.version = s.version}
soleOfKind(s, ss, obs) ==
    LET unclaimed == {b \in DOMAIN obs : b.surface = s.kind /\ b.version \notin Claimed(ss, s.kind)}
        versionless == {x \in ss : x.version = None /\ x.kind = s.kind}
    IN  IF s.version = None /\ Cardinality(unclaimed) = 1 /\ Cardinality(versionless) = 1
        THEN unclaimed ELSE {}
unattributed(s, obs) ==
    {b \in DOMAIN obs : s.version # None /\ b.surface = "unknown" /\ b.version = s.version}
ambiguous(s, ss, obs) ==
    unattributed(s, obs) # {} /\ \E x \in ss \ {s} : x.version = s.version
matched(s, ss, obs) ==
    exact(s, obs) \cup soleOfKind(s, ss, obs)
    \cup (IF ambiguous(s, ss, obs) THEN {} ELSE unattributed(s, obs))
anyActive(ss, obs) == \E s \in ss : ~s.shadowed /\ matched(s, ss, obs) # {}

coverage(s, ss, status, obs) ==
    IF status \notin CONFIGURED_STATUSES THEN "uncovered"
    ELSE IF matched(s, ss, obs) # {} THEN "active"
    ELSE IF anyActive(ss, obs) /\ ~s.shadowed /\ ~ambiguous(s, ss, obs) THEN "uncovered"
    ELSE "wired"

(* The account as the backend reports it, or why it was not asked. A backend *)
(* that is up may still refuse the question or answer what no client knows.  *)
NoAnswer == [active |-> 0, stale |-> 0, checkIn |-> None, quota |-> None]
fetchPushReachability(lookup, backend) ==
    CASE lookup = "absent" -> [state |-> "unpaired", data |-> NoAnswer]
      [] lookup = "unavailable" -> [state |-> "unavailable", data |-> NoAnswer]
      [] lookup = "present" /\ ~backend.answers -> [state |-> "unavailable", data |-> NoAnswer]
      [] lookup = "present" /\ backend.answers -> [state |-> "ok", data |-> backend.data]

\* A row of a report, named by a tuple; the empty set is a row that is left out.
Row(name, good) == {[name |-> name, ok |-> good]}
Global(name, good) == Row(<<name>>, good)

describeReachability(r) ==
    CASE r.state = "unpaired" -> {}
      [] r.state = "unavailable" -> Global("Push reachability", TRUE)
      [] r.state = "ok" -> Global("Push reachability", r.data.active > 0 /\ r.data.stale = 0)

\* Old or missing check-ins are said, never failed: the server may not have them.
describeCheckIn(r) ==
    IF r.state # "ok" \/ r.data.active = 0 THEN {} ELSE Global("Device check-in", TRUE)

\* Only an exhausted quota fails: one that is unreported, unlimited, near its end
\* or whose window should have ended still lets beeps through.
describeQuota(r) ==
    IF r.state # "ok" THEN {} ELSE Global("Beep quota", r.data.quota # "exhausted")

describePairing(lookup) == Global("Machine token", lookup = "present")

\* Claude Code's hooks run inside Cursor while Cursor's own are not installed.
cursorBridgeOnly(world) ==
    /\ detected(world["cursor"])
    /\ world["claude"].status \in CONFIGURED_STATUSES
    /\ world["cursor"].status \notin CONFIGURED_STATUSES

surfaceRows(h, w, obs) ==
    LET ss == surfacesOf(h, w.installs) IN
    UNION {Row(<<h, s.kind, s.place, s.version>>, coverage(s, ss, w.status, obs) # "uncovered") : s \in ss}
\* Whether what the configuration runs is still there. OpenCode's plugin without a
\* recorded launcher looks on PATH, which works once events arrived.
commandRows(h, w) ==
    IF h = "opencode"
    THEN IF w.status \notin CONFIGURED_STATUSES THEN {}
         ELSE Row(<<h, "resolves">>, w.commands = "resolve"
                                     \/ (w.commands = "none" /\ w.status = "installed"))
    ELSE IF w.commands = "none" THEN {} ELSE Row(<<h, "resolves">>, w.commands = "resolve")
\* An older install left Codex's only notify slot to us.
notifyRows(h, w) == IF h = "codex" /\ w.legacyNotify THEN Row(<<h, "notify">>, FALSE) ELSE {}
\* Two adapters look for the token themselves.
tokenRows(h, lookup) ==
    IF h \in {"codex", "opencode"} THEN Row(<<h, "token">>, lookup = "present") ELSE {}
\* The hooks are there, and the user has trusted them or restarted the harness.
hookRows(h, w) == Row(<<h, "hooks">>, w.status = "installed")
adapterRows(h, w, obs, lookup) ==
    IF ~detected(w) THEN Row(<<h, "availability">>, TRUE)
    ELSE hookRows(h, w) \cup commandRows(h, w) \cup notifyRows(h, w)
         \cup Row(<<h, "writable">>, w.writable) \cup tokenRows(h, lookup)
         \cup surfaceRows(h, w, obs)

\* Everything doctor looks at, as it was read, and its list of checks.
doctorChecks(view) ==
    LET r == fetchPushReachability(view.lookup, view.backend) IN
    describePairing(view.lookup)
    \cup describeReachability(r) \cup describeCheckIn(r) \cup describeQuota(r)
    \cup (IF view.missed = 0 THEN {} ELSE Global("Events lost while unpaired", FALSE))
    \cup (IF cursorBridgeOnly(view.world) THEN Global("Approval beeps from Cursor", FALSE) ELSE {})
    \cup (IF view.filtered = 0 THEN {} ELSE Global("Local-only events", TRUE))
    \cup (UNION {adapterRows(h, view.world[h], view.obs[h], view.lookup) : h \in DOMAIN view.world})
    \cup (IF \A h \in DOMAIN view.world : ~detected(view.world[h])
          THEN Global("Coding agents", FALSE) ELSE {})
    \cup Global("Backend reachable", view.backend.up)
doctorOk(view) == \A c \in doctorChecks(view) : c.ok

(* setup: install every detected harness, then one row for each build.       *)
\* What an install that succeeds says of its harness, however often it is run.
installResult(h) ==
    IF h = "codex" THEN "needs_trust" ELSE IF h = "opencode" THEN "needs_restart" ELSE "installed"
\* What grading makes of a build; by itself it would call a harness that awaits
\* its user ready (the mutated form of rowState).
buildState(s, ss, result, status, obs) ==
    IF status = "error" THEN "failed"
    ELSE IF coverage(s, ss, status, obs) = "active" THEN "beeping"
    ELSE IF coverage(s, ss, status, obs) = "wired" THEN "ready" ELSE "not covered"
rowState(s, ss, result, status, obs) ==
    IF status # "error" /\ result \in PENDING_STATUSES THEN "needs you"
    ELSE buildState(s, ss, result, status, obs)
\* Without a build there is one row, and nothing to grade: the status is not read.
bareState(result) == IF result \in PENDING_STATUSES THEN "needs you" ELSE "ready"
\* An install that throws is a failed row of its own and stops no other.
harnessRows(h, w, obs) ==
    LET ss == surfacesOf(h, w.installs)
        result == installResult(h)
    IN  IF ~detected(w) THEN {"not installed"}
        ELSE IF w.status = "throws" THEN {"failed"}
        ELSE IF ss = {} THEN {bareState(result)}
        ELSE {rowState(s, ss, result, w.status, obs) : s \in ss}
\* How the run ends: with what is broken, with what is left to do, or with the
\* invitation to try a turn, where there is a harness to take one in.
setupReport(view, beepOk) ==
    LET rows == UNION {{<<h, r>> : r \in harnessRows(h, view.world[h], view.obs[h])} :
                          h \in DOMAIN view.world}
        states == {r[2] : r \in rows}
        installed == {h \in DOMAIN view.world :
                        detected(view.world[h]) /\ view.world[h].status # "throws"}
    IN  [rows |-> rows,
         end |-> IF "failed" \in states \/ ~beepOk THEN "attention"
                 ELSE IF states \cap {"needs you", "not covered"} # {} THEN "pending"
                 ELSE IF installed # {} THEN "invitation" ELSE "nothing"]
=============================================================================
