----------------------------- MODULE HookRecords ----------------------------
(* The fires of the harnesses' hooks and the small files they share: the     *)
(* observed builds, the two counters, the install salt and the session names *)
(* of Claude Code, with a pairing beside them. Each fire is a process; the   *)
(* files have no lock, so every read, write and rename is a step.            *)
EXTENDS HookEvents, Diagnosis, FiniteSetsExt, Sequences

CONSTANTS Procs,       \* slots for processes
          Scenes,      \* the machines to begin with and what may happen on each:
                       \* its harnesses (world), whether it has a salt and a pairing,
                       \* the moments, and the bounds on their number, on the
                       \* processes that die, on pairings, on vendors' upgrades and
                       \* on the builds of a harness the tally keeps
          Backends,    \* what the backend may answer doctor
          Sessions     \* Claude Code sessions

\* The vendor updates a build in place. What matters of a version is whether it
\* is another's.
Newer == [v \in {"v1", "v3"} |-> IF v = "v1" THEN "v2" ELSE "v4"]
Versions == {"v1", "v2", "v3", "v4"}
Builds == [kind : HARNESS_SURFACE_KINDS, place : Nat, version : Versions, readable : BOOLEAN]

\* What is there of a harness: its directory, its adapter's status, its builds; what
\* became of the commands its configuration runs, whether that file can be written,
\* and whether an older install still holds Codex's notify slot.
Worlds ==
    [dir : BOOLEAN, status : INTEGRATION_STATUSES \cup {"throws"}, installs : SUBSET Builds,
     commands : {"none", "resolve", "stale"}, writable : BOOLEAN, legacyNotify : BOOLEAN]

\* A place holds one build, a desktop app that hides its version has no second, and
\* a harness awaits its user only in the way its install does. What is configured
\* runs commands; OpenCode's plugin may have none of its own.
Sited(h, w) ==
    /\ \A i, j \in w.installs :
         /\ i.kind = j.kind
         /\ i.place = j.place \/ (i.kind = "desktop" /\ ~Readable(h, i))
         => i = j
    /\ w.status \in PENDING_STATUSES => w.status = installResult(h)
    /\ w.status \in CONFIGURED_STATUSES /\ w.commands = "none" => h = "opencode"

ASSUME RecordsAssumption ==
    /\ \A c \in Scenes :
         /\ c.world \in [Harnesses -> Worlds] /\ \A h \in Harnesses : Sited(h, c.world[h])
         /\ c.moments \subseteq Moments
         /\ {c.most, c.kills, c.pairings, c.upgrades, c.builds} \subseteq Nat
    /\ \A b \in Backends : b.up \in BOOLEAN /\ b.answers \in BOOLEAN
    /\ {"absent", "blank", "former"} \cap Procs = {}

VARIABLES fires,      \* the running processes
          files,      \* tally -> [now, tmp]
          salt,       \* "absent", "blank" (created, not written) or whose it is
          names,      \* session -> "none", "old" (expired) or "new"
          world,      \* harness -> detected, status, installs
          paired,
          happened,   \* what became of each moment, in order
          past        \* the scene and what really took place, for the properties
vars == <<fires, files, salt, names, world, paired, happened, past>>

Tallies == {"builds", "filtered", "missed"}
\* A tally maps keys to counts, with the time of the last one; an absent file
\* and a torn one both read as empty.
Empty == [k \in {} |-> 0]
Content(map) == [ok |-> TRUE, map |-> map]
Absent == Content(Empty)
Torn == [ok |-> FALSE, map |-> Empty]
NoTmp == [ok |-> FALSE, map |-> Empty, gone |-> TRUE]
Tmp(c) == [ok |-> c.ok, map |-> c.map, gone |-> FALSE]
ReadTally(f) == IF files[f].now.ok THEN files[f].now.map ELSE Empty
\* The count of the same events that no file can lose.
Tallied(counts, k) == [x \in DOMAIN counts \cup {k} |->
    (IF x \in DOMAIN counts THEN counts[x] ELSE 0) + (IF x = k THEN 1 ELSE 0)]
CountIn(map, k) == IF k \in DOMAIN map THEN map[k].count ELSE 0
Last(map) == Max({map[y].last : y \in DOMAIN map} \cup {0})
\* Mutated form: the first event of a key does not count.
AddedLate(map, k) ==
    [x \in DOMAIN map \cup {k} |->
        IF x = k THEN [count |-> CountIn(map, k), last |-> 1 + Last(map)] ELSE map[x]]
\* Mutated form: the other keys are not written back.
AddedAlone(map, k) == [x \in {k} |-> [count |-> CountIn(map, k) + 1, last |-> 1 + Last(map)]]
Added(map, k) ==
    [x \in DOMAIN map \cup {k} |->
        IF x = k THEN [count |-> CountIn(map, k) + 1, last |-> 1 + Last(map)] ELSE map[x]]

\* A key of the builds' tally is <<harness, identity>>; of one harness only the
\* most recently observed stay. Observations without a version are not capped.
BuildsOf(map, h) == {k \in DOMAIN map : k[1] = h /\ k[2].version # None}
capBuilds(map, h, most) ==
    LET mine == BuildsOf(map, h)
        kept == {k \in mine : Cardinality({x \in mine : map[x].last > map[k].last}) < most}
    IN  [k \in (DOMAIN map \ mine) \cup kept |-> map[k]]

\* A process: its moment, the command and payload, the build and the session it
\* comes from, then the harness and event it works for, the tally it is at and
\* what it read of it, and the session names it has yet to judge and to remove.
Process(n, fire, i, id, s, titled) ==
    [at |-> IF fire.arg = "notify" THEN "detach" ELSE "recv", n |-> n, fire |-> fire,
     install |-> i, id |-> id, session |-> s, titled |-> titled,
     h |-> None, ev |-> Unmapped, file |-> "builds", copy |-> Empty, todo |-> {},
     expired |-> None]
Idle == [at |-> "idle", h |-> None]
At(p, label) == fires[p].at = label
Goto(p, label) == fires' = [fires EXCEPT ![p].at = label]
Inside(p, f) == fires[p].at \in {"write", "rename"} /\ fires[p].file = f
Others(p, f) == {q \in Procs \ {p} : Inside(q, f)}

\* A finished process is forgotten; a moment remembers its beeps.
Ends(p) == fires' = [fires EXCEPT ![p] = Idle]
MomentLeft(n, h) == [h EXCEPT ![n].left = @ - 1]
EndsWell(p) ==
    /\ Ends(p)
    /\ happened' = MomentLeft(fires[p].n, happened)
EndsBadly(p) ==
    /\ Ends(p)
    /\ happened' = [MomentLeft(fires[p].n, happened) EXCEPT ![fires[p].n].clean = FALSE]

\* The salt of a machine that has one already.
Former == "former"
Init ==
    \E c \in Scenes :
        /\ fires = [p \in Procs |-> Idle]
        /\ files = [f \in Tallies |-> [now |-> Absent, tmp |-> NoTmp]]
        /\ salt = IF c.salted THEN Former ELSE "absent"
        /\ names \in [Sessions -> {"none"} \cup (IF c.world["claude"].dir THEN {"old"} ELSE {})]
        /\ world = c.world
        /\ paired = c.paired
        /\ happened = <<>>
        /\ past = [scene |-> c, ran |-> {}, fired |-> {}, counted |-> [f \in Tallies |-> Empty],
                   disturbed |-> {}, evicted |-> FALSE, salts |-> {}, live |-> {}, crossed |-> {},
                   kills |-> 0, pairings |-> 0, upgrades |-> 0]
Pending == {h \in Harnesses : past.scene.world[h].status \in PENDING_STATUSES}
Resting == \A p \in Procs : At(p, "idle")

(* The harness runs every command its configuration holds for the moment; one *)
(* that names a program which is gone fails there and never reaches ours.     *)
Live(w) == detected(w) /\ w.status \in CONFIGURED_STATUSES /\ w.commands # "stale"
ConfiguredFires(m) == {f \in m.fires : Live(world[f.cmd])}
BeepsDue(m, runs) ==
    IF ~WantsUser(m) \/ runs = {} THEN 0
    ELSE IF m.by = "opencode" /\ m.kind = "waits" THEN 2 ELSE 1
Happens(m, i, s, titled) ==
    LET runs == ConfiguredFires(m)
        n == Len(happened) + 1
        idle == {p \in Procs : At(p, "idle")}
    IN  /\ n <= past.scene.most /\ runs # {}
        /\ i \in world[m.by].installs /\ ~Shadowed(i)
        /\ Cardinality(idle) >= Cardinality(runs)
        /\ \E slot \in [runs -> idle] :
             /\ \A f, g \in runs : f # g => slot[f] # slot[g]
             /\ \E ids \in [runs -> UNION {identitiesOf(m.by, i, f) : f \in runs}] :
                  /\ \A f \in runs : ids[f] \in identitiesOf(m.by, i, f)
                  /\ fires' = [p \in Procs |->
                        IF \E f \in runs : slot[f] = p
                        THEN LET f == CHOOSE f \in runs : slot[f] = p
                             IN  Process(n, f, i, ids[f], s, titled)
                        ELSE fires[p]]
        /\ happened' = Append(happened,
              [due |-> BeepsDue(m, runs), beeps |-> 0, clean |-> TRUE,
               left |-> Cardinality(runs), marks |-> {}])
        /\ UNCHANGED <<files, salt, names, world, paired, past>>

(* A notify program must not keep Codex waiting: a detached worker takes the *)
(* payload over, unless it cannot be started, and nobody hears if it fails.  *)
DetachNotify(p) ==
    /\ At(p, "detach")
    /\ \/ Goto(p, "recv") /\ UNCHANGED happened
       \/ EndsBadly(p)
    /\ UNCHANGED <<files, salt, names, world, paired, past>>

\* Stdin did not arrive in time, or what arrived is empty or not JSON.
DropPayload(p) ==
    /\ At(p, "recv")
    /\ EndsBadly(p)
    /\ UNCHANGED <<files, salt, names, world, paired, past>>

Handler(p) == resolveHookHarness(fires[p].fire.cmd, fires[p].fire.payload)
BadArgument(p) == fires[p].fire.cmd = "copilot" /\ fires[p].fire.arg \notin COPILOT_HOOK_EVENTS
Mapped(p) == mapEvent(Handler(p), fires[p].fire.arg, fires[p].fire.payload)
\* A foreign payload is an error, an unmapped one a quiet skip.
Refused(p) == BadArgument(p) \/ ~recognizesPayload(Handler(p), fires[p].fire.payload)
\* A fire that ran to its end proves that Codex trusts the hook or that OpenCode
\* loaded the plugin. Codex runs the notify program without asking, and a beep
\* another fire had sent already proves nothing either.
isCodexLifecycleHookPayload(x) == HookNamed(x, CODEX_HOOK_EVENTS)
\* Mutated form: the notify program counts as a hook.
ProvedByAny(p, outcome) == outcome \in {"delivered", "unpaired", "filtered"}
ProvesTrust(p, outcome) ==
    LET x == fires[p].fire.payload IN
    /\ isCodexLifecycleHookPayload(x)
    /\ outcome \in {"delivered", "unpaired", "filtered"}
       \/ isCodexInternalResultPayload(x.name, x.detail)
Proves(p, h, outcome) ==
    \/ h = "codex" /\ ProvesTrust(p, outcome)
    \/ h = "opencode" /\ outcome # "skipped"
Seen(p, h, outcome) ==
    world' = IF Proves(p, h, outcome) /\ world[h].status \in PENDING_STATUSES
             THEN [world EXCEPT ![h].status = "installed"] ELSE world

Receive(p) ==
    /\ At(p, "recv")
    /\ IF Refused(p) THEN EndsWell(p) /\ UNCHANGED <<world, past>>
       ELSE /\ past' = [past EXCEPT !.ran = @ \cup {<<Handler(p), fires[p].fire.arg>>}]
            /\ IF Mapped(p) = Unmapped THEN EndsWell(p) /\ Seen(p, Handler(p), "skipped")
               ELSE /\ fires' = [fires EXCEPT ![p].h = Handler(p), ![p].ev = Mapped(p),
                            ![p].at = IF Handler(p) = "claude" THEN "name" ELSE "salt"]
                    /\ UNCHANGED <<happened, world>>
    /\ UNCHANGED <<files, salt, names, paired>>

(* Claude Code's session names: a title comes with SessionStart only, later  *)
(* fires look it up. titled says whether this start has one.                 *)
Event(p) == fires[p].fire.payload.name
SessionStarts(p) == At(p, "name") /\ Event(p) = "SessionStart"
Untitled(p) ==
    /\ SessionStarts(p) /\ ~fires[p].titled
    /\ Goto(p, "salt")
    /\ UNCHANGED <<files, salt, names, world, paired, happened, past>>
\* A removal already decided by a lookup or a sweep may still hit the file that is
\* written now.
Crossing(p, s) ==
    \E q \in Procs \ {p} :
        \/ At(q, "drop") /\ s = fires[q].session
        \/ At(q, "sweep") /\ s = fires[q].expired
remember(p) ==
    LET s == fires[p].session IN
    /\ SessionStarts(p) /\ fires[p].titled
    /\ names' = [names EXCEPT ![s] = "new"]
    /\ past' = [past EXCEPT !.live = @ \cup {s},
                            !.crossed = IF Crossing(p, s) THEN @ \cup {s} ELSE @ \ {s}]
    /\ Goto(p, "list")
    /\ UNCHANGED <<files, salt, world, paired, happened>>
ListNames(p) ==
    /\ At(p, "list")
    /\ fires' = [fires EXCEPT ![p].at = "judge", ![p].todo = {s \in Sessions : names[s] # "none"}]
    /\ UNCHANGED <<files, salt, names, world, paired, happened, past>>
\* A file that expired, or vanished since the listing, is removed next.
\* Mutated form: every name listed is removed, whatever its file says.
JudgeHasty(p, s) ==
    /\ At(p, "judge") /\ s \in fires[p].todo
    /\ fires' = [fires EXCEPT ![p].todo = @ \ {s}, ![p].expired = s, ![p].at = "sweep"]
    /\ UNCHANGED <<files, salt, names, world, paired, happened, past>>
JudgeName(p, s) ==
    /\ At(p, "judge") /\ s \in fires[p].todo
    /\ fires' = [fires EXCEPT ![p].todo = @ \ {s}, ![p].expired = s,
                    ![p].at = IF names[s] = "new" THEN "judge" ELSE "sweep"]
    /\ UNCHANGED <<files, salt, names, world, paired, happened, past>>
RemoveName(p) ==
    /\ At(p, "sweep")
    /\ names' = [names EXCEPT ![fires[p].expired] = "none"]
    /\ fires' = [fires EXCEPT ![p].at = "judge", ![p].expired = None]
    /\ UNCHANGED <<files, salt, world, paired, happened, past>>
EndSweep(p) ==
    /\ At(p, "judge") /\ fires[p].todo = {}
    /\ Goto(p, "salt")
    /\ UNCHANGED <<files, salt, names, world, paired, happened, past>>
forget(p) ==
    LET s == fires[p].session IN
    /\ At(p, "name") /\ Event(p) = "SessionEnd"
    /\ names' = [names EXCEPT ![s] = "none"]
    /\ past' = [past EXCEPT !.live = @ \ {s}]
    /\ Goto(p, "salt")
    /\ UNCHANGED <<files, salt, world, paired, happened>>
\* An expired name is removed by the lookup that finds it.
lookup(p) ==
    /\ At(p, "name") /\ Event(p) \notin {"SessionStart", "SessionEnd"}
    /\ Goto(p, IF names[fires[p].session] = "old" THEN "drop" ELSE "salt")
    /\ UNCHANGED <<files, salt, names, world, paired, happened, past>>
DropExpired(p) ==
    /\ At(p, "drop")
    /\ names' = [names EXCEPT ![fires[p].session] = "none"]
    /\ Goto(p, "salt")
    /\ UNCHANGED <<files, salt, world, paired, happened, past>>

(* The install salt, behind every hashed path and the machine's fingerprint: *)
(* read it, else create it exclusively and write it, else read the winner's; *)
(* what is left is a salt of the process's own that nobody else will see.    *)
Written(x) == x \notin {"absent", "blank"}
Salted(p, whose, kept) ==
    /\ Goto(p, IF fires[p].h # "pair" THEN "read" ELSE IF kept THEN "persist" ELSE "fail")
    /\ past' = [past EXCEPT !.salts = IF kept THEN @ \cup {whose} ELSE @]
readSalt(p) ==
    /\ At(p, "salt")
    /\ IF Written(salt) THEN Salted(p, salt, TRUE)
       ELSE Goto(p, "create") /\ UNCHANGED past
    /\ UNCHANGED <<files, salt, names, world, paired, happened>>
\* Mutated form: the create is not exclusive.
CreateOver(p) ==
    /\ At(p, "create")
    /\ salt' = "blank" /\ Goto(p, "fill")
    /\ UNCHANGED <<files, names, world, paired, happened, past>>
createSalt(p) ==
    /\ At(p, "create")
    /\ IF salt = "absent" THEN salt' = "blank" /\ Goto(p, "fill")
       ELSE Goto(p, "reread") /\ UNCHANGED salt
    /\ UNCHANGED <<files, names, world, paired, happened, past>>
fillSalt(p) ==
    /\ At(p, "fill")
    /\ salt' = p
    /\ Salted(p, p, TRUE)
    /\ UNCHANGED <<files, names, world, paired, happened>>
rereadSalt(p) ==
    /\ At(p, "reread")
    /\ Salted(p, salt, Written(salt))
    /\ UNCHANGED <<files, salt, names, world, paired, happened>>

(* A tally is read, counted up and written back through one .tmp for all.    *)
KeyFor(p) ==
    CASE fires[p].file = "builds"   -> <<fires[p].h, fires[p].id>>
      [] fires[p].file = "filtered" -> fires[p].ev.type
      [] fires[p].file = "missed"   -> fires[p].h
Capped(p, map) == IF fires[p].file = "builds" THEN capBuilds(map, fires[p].h, past.scene.builds) ELSE map
ReadFile(p) ==
    LET f == fires[p].file
        k == KeyFor(p)
        map == Added(ReadTally(f), k)
    IN  /\ At(p, "read")
        /\ fires' = [fires EXCEPT ![p].copy = Capped(p, map), ![p].at = "write"]
        /\ past' = [past EXCEPT
              !.counted[f] = Tallied(@, k),
              !.fired = IF f = "builds" /\ fires[p].id.version # None
                        THEN @ \cup {[h |-> fires[p].h, install |-> fires[p].install,
                                      id |-> fires[p].id]} ELSE @,
              !.disturbed = IF Others(p, f) # {} THEN @ \cup {f} ELSE @,
              !.evicted = @ \/ Capped(p, map) # map]
        /\ UNCHANGED <<files, salt, names, world, paired, happened>>
WriteFile(p) ==
    /\ At(p, "write")
    /\ files' = [files EXCEPT ![fires[p].file].tmp = Tmp(Content(fires[p].copy))]
    /\ Goto(p, "rename")
    /\ UNCHANGED <<salt, names, world, paired, happened, past>>
\* What a fire does after its tally: every mapped event has its build recorded,
\* then a local-only one is counted and goes no further.
AfterTally(p) ==
    IF fires[p].file = "builds"
    THEN /\ fires' = [fires EXCEPT
               ![p].copy = Empty,
               ![p].at = IF shouldSendEventType(fires[p].ev.type) THEN "dedup" ELSE "read",
               ![p].file = IF shouldSendEventType(fires[p].ev.type) THEN @ ELSE "filtered"]
         /\ UNCHANGED <<happened, world>>
    ELSE /\ EndsWell(p)
         /\ Seen(p, fires[p].h, IF fires[p].file = "filtered" THEN "filtered" ELSE "unpaired")
\* Another process may have renamed the .tmp away, or be writing it just now.
RenameFile(p) ==
    LET f == fires[p].file IN
    /\ At(p, "rename")
    /\ \/ /\ files[f].tmp.gone
          /\ UNCHANGED files
       \/ /\ ~files[f].tmp.gone
          /\ \E c \in {Content(files[f].tmp.map)} \cup (IF Others(p, f) # {} THEN {Torn} ELSE {}) :
                files' = [files EXCEPT ![f] = [now |-> c, tmp |-> NoTmp]]
    /\ AfterTally(p)
    /\ UNCHANGED <<salt, names, paired, past>>

(* The ledger suppresses a beep with the content of another of this moment,  *)
(* and any second approval; fires at the ledger together may both win or     *)
(* both lose (HookDedup takes that apart).                                   *)
Twins(p) == {q \in Procs \ {p} : At(q, "dedup") /\ fires[q].n = fires[p].n}
Duplicate(p) ==
    LET e == fires[p].ev
        marks == happened[fires[p].n].marks
    IN  \/ e \in marks
        \/ e.type = "approval_required" /\ \E x \in marks : x.type = "approval_required"
Dedup(p) ==
    LET n == fires[p].n IN
    /\ At(p, "dedup")
    /\ \E dup \in IF Twins(p) = {} THEN {Duplicate(p)} ELSE BOOLEAN :
         IF dup
         THEN /\ Ends(p)
              /\ happened' = [MomentLeft(n, happened) EXCEPT ![n].clean = @ /\ Twins(p) = {}]
              /\ Seen(p, fires[p].h, "deduped")
         ELSE /\ Goto(p, "send")
              /\ UNCHANGED world
              /\ happened' = [happened EXCEPT ![n].marks = @ \cup {fires[p].ev},
                                              ![n].clean = @ /\ Twins(p) = {}]
    /\ UNCHANGED <<files, salt, names, paired, past>>

\* From here the sender delivers or queues; on an unpaired machine the event is
\* gone and only counted.
Send(p) ==
    LET n == fires[p].n IN
    /\ At(p, "send")
    /\ IF paired
       THEN /\ Ends(p)
            /\ happened' = [MomentLeft(n, happened) EXCEPT
                    ![n].beeps = IF isNotifiableEventType(fires[p].ev.type) THEN @ + 1 ELSE @]
            /\ Seen(p, fires[p].h, "delivered")
       ELSE /\ fires' = [fires EXCEPT ![p].at = "read", ![p].file = "missed"]
            /\ happened' = [happened EXCEPT ![n].clean = FALSE]
            /\ UNCHANGED world
    /\ UNCHANGED <<files, salt, names, paired, past>>

(* A pairing needs the persisted salt, and clears the count of missed events. *)
StartPair(p) ==
    /\ At(p, "idle") /\ ~paired /\ past.pairings < past.scene.pairings
    /\ \A q \in Procs : fires[q].h # "pair"
    /\ fires' = [fires EXCEPT ![p] =
          [Process(0, Own("claude", "pair"), None, None, None, FALSE)
               EXCEPT !.h = "pair", !.at = "salt"]]
    /\ past' = [past EXCEPT !.pairings = @ + 1]
    /\ UNCHANGED <<files, salt, names, world, paired, happened>>
FailPair(p) ==
    /\ At(p, "fail")
    /\ Ends(p)
    /\ UNCHANGED <<files, salt, names, world, paired, happened, past>>
PersistToken(p) ==
    /\ At(p, "persist")
    /\ paired' = TRUE
    /\ Goto(p, "clear")
    /\ UNCHANGED <<files, salt, names, world, happened, past>>
ClearMissed(p) ==
    /\ At(p, "clear")
    /\ files' = [files EXCEPT !["missed"].now = Absent]
    /\ past' = [past EXCEPT !.counted["missed"] = Empty,
                            !.disturbed = IF Others(p, "missed") # {} THEN @ \cup {"missed"} ELSE @]
    /\ Ends(p)
    /\ UNCHANGED <<salt, names, world, paired, happened>>
Logout ==
    /\ paired /\ past.pairings < past.scene.pairings /\ Resting
    /\ paired' = FALSE
    /\ UNCHANGED <<fires, files, salt, names, world, happened, past>>

Kill(p) ==
    /\ ~At(p, "idle") /\ past.kills < past.scene.kills
    /\ past' = [past EXCEPT !.kills = @ + 1,
          !.disturbed = @ \cup {f \in Tallies : Inside(p, f)}]
    /\ IF fires[p].h = "pair" THEN Ends(p) /\ UNCHANGED happened ELSE EndsBadly(p)
    /\ UNCHANGED <<files, salt, names, world, paired>>

Upgrade(h, i) ==
    /\ Resting /\ past.upgrades < past.scene.upgrades
    /\ i \in world[h].installs /\ i.version \in DOMAIN Newer
    /\ world' = [world EXCEPT ![h].installs = (@ \ {i}) \cup {[i EXCEPT !.version = Newer[@]]}]
    /\ past' = [past EXCEPT !.upgrades = @ + 1]
    /\ UNCHANGED <<fires, files, salt, names, paired, happened>>

Step(p) ==
    \/ DetachNotify(p) \/ DropPayload(p) \/ Receive(p)
    \/ Untitled(p) \/ remember(p) \/ ListNames(p) \/ (\E s \in Sessions : JudgeName(p, s))
    \/ RemoveName(p) \/ EndSweep(p) \/ forget(p) \/ lookup(p) \/ DropExpired(p)
    \/ readSalt(p) \/ createSalt(p) \/ fillSalt(p) \/ rereadSalt(p)
    \/ ReadFile(p) \/ WriteFile(p) \/ RenameFile(p) \/ Dedup(p) \/ Send(p)
    \/ StartPair(p) \/ FailPair(p) \/ PersistToken(p) \/ ClearMissed(p) \/ Kill(p)
Next ==
    \/ \E p \in Procs : Step(p)
    \/ \E m \in past.scene.moments : \E i \in world[m.by].installs :
         \E s \in IF m.by = "claude" THEN Sessions ELSE {None} :
           \E titled \in IF m.by = "claude" /\ m.kind = "start" THEN BOOLEAN ELSE {FALSE} :
             Happens(m, i, s, titled)
    \/ \E h \in DOMAIN world : \E i \in world[h].installs : Upgrade(h, i)
    \/ Logout
Spec == Init /\ [][Next]_vars

-----------------------------------------------------------------------------
Settled(f) == \A p \in Procs : ~Inside(p, f)
Sure(f) == Settled(f) /\ f \notin past.disturbed /\ (f = "builds" => ~past.evicted)
Counts(map) == [k \in DOMAIN map |-> map[k].count]

\* What doctor and setup read of the records.
ObservedOf(h) ==
    LET mine == {k \in DOMAIN ReadTally("builds") : k[1] = h /\ k[2].version # None}
    IN  [id \in {k[2] : k \in mine} |-> ReadTally("builds")[<<h, id>>].count]
View(backend) ==
    [lookup |-> IF paired THEN "present" ELSE "absent", backend |-> backend,
     missed |-> Cardinality(DOMAIN ReadTally("missed")),
     filtered |-> Cardinality(DOMAIN ReadTally("filtered")),
     world |-> world, obs |-> [h \in DOMAIN world |-> ObservedOf(h)]]

TypeOK ==
    /\ \A p \in Procs :
         /\ fires[p].h \in Harnesses \cup {None, "pair"}
         /\ fires[p].at \in {"idle", "detach", "recv", "name", "list", "judge", "sweep", "drop",
                             "salt", "create", "fill", "reread", "fail", "persist", "clear",
                             "read", "write", "rename", "dedup", "send"}
    /\ salt \in {"absent", "blank", Former} \cup Procs
    /\ names \in [Sessions -> {"none", "old", "new"}]
    /\ \A n \in DOMAIN happened : happened[n].left \in 0..2 /\ happened[n].beeps \in 0..2
    /\ \A f \in Tallies : \A k \in DOMAIN files[f].now.map : files[f].now.map[k].count > 0

\* A moment that wants the user beeps once, whichever commands fired for it and
\* whoever's payload they were handed, and no other moment beeps: fires of one
\* moment collapse and foreign payloads go nowhere (recognizesPayload,
\* resolveHookHarness, markAndCheck). OpenCode says that it waits twice.
OneBeepPerMoment ==
    \A n \in DOMAIN happened :
        happened[n].left = 0 /\ happened[n].clean => happened[n].beeps = happened[n].due

\* No tally ever counts an event twice or invents one, and one that no two
\* processes wrote together, nor one that died, has them all (recordObservedBuild).
TalliesExact ==
    \A f \in Tallies :
        LET now == ReadTally(f) IN
        /\ f \notin past.disturbed =>
              \A k \in DOMAIN now : k \in DOMAIN past.counted[f] /\ now[k].count <= past.counted[f][k]
        /\ Sure(f) => Counts(now) = past.counted[f]

\* Every process that keeps a salt keeps the same one, and it is the one on the
\* disk: no path hashes two ways and no machine gets two fingerprints
\* (loadOrCreate).
OneSalt == past.salts \subseteq {salt}

\* The name a session was given stays until it ends, whatever the sweeps and the
\* lookups of other sessions remove; only a removal decided before may hit it.
NamesKept == \A s \in past.live \ past.crossed : names[s] = "new"

\* "Covered" is said of a build only if it fired or cannot be told from one that
\* did, and "uncovered" of a configured build only if it never did, where the
\* tally kept everything, and the version could be read, or never changed and the
\* hook could say which kind of build it ran in (gradeSurfaces).
Alike(h, i, x) ==
    x.h = h /\ x.install.version = i.version /\ x.id.surface \in {"unknown", i.kind}
CoverageSound ==
    \A h \in DOMAIN world : \A i \in world[h].installs :
        LET s == surfaceOf(h, i)
            verdict == coverage(s, surfacesOf(h, world[h].installs), world[h].status, ObservedOf(h))
        IN  /\ verdict = "active" /\ (s.version # None \/ past.upgrades = 0)
               => \E x \in past.fired : Alike(h, i, x)
            /\ verdict = "uncovered" /\ Sure("builds") /\ world[h].status \in CONFIGURED_STATUSES
               => ~\E x \in past.fired :
                     /\ Alike(h, i, x) /\ x.install = i
                     /\ s.version # None \/ (past.upgrades = 0 /\ x.id.surface = i.kind)

\* A green doctor means that a beep can arrive: every moment that wants the user
\* has a command that runs and maps it to a beep, the backend is there, the account
\* can receive a beep as far as the backend says, and nothing was lost for want of a
\* pairing since the last one (doctorChecks). An account that could not be asked
\* after is no complaint.
Beeps(m) ==
    \E f \in ConfiguredFires(m) :
        LET h == resolveHookHarness(f.cmd, f.payload)
        IN  recognizesPayload(h, f.payload)
            /\ isNotifiableEventType(mapEvent(h, f.arg, f.payload).type)
GreenMeansBeeps ==
    LET seen == View(NoAnswer)
        lit == /\ paired
               /\ Sure("missed") => past.counted["missed"] = Empty
               /\ \A m \in past.scene.moments : WantsUser(m) /\ detected(world[m.by]) => Beeps(m)
    IN  \A b \in Backends :
            doctorOk([seen EXCEPT !.backend = b]) =>
                /\ b.up /\ lit
                /\ b.answers => b.data.active > 0 /\ b.data.quota # "exhausted"

\* setup and doctor agree: where doctor misses hooks, trust, a restart or the hooks'
\* word of a build, in a harness that has one, setup calls it neither ready nor
\* beeping; what setup complains of, doctor does, except that setup asks for trust
\* and restarts again and again; and setup invites to try a turn only where there is
\* a harness, and every moment that wants the user of one beeps unless its command
\* is gone (runHarnessSetup). What only doctor asks, whether the file can be written
\* and what became of the commands and of the notify slot, setup never reads.
SetupAgrees ==
    LET view == View(NoAnswer)
        report == setupReport(view, TRUE)
        present == {h \in DOMAIN world : detected(world[h])}
        built == {h \in present : world[h].installs # {}}
        faults(rows) == \E c \in rows : ~c.ok
        troubled == {h \in present : \E r \in report.rows :
                        r[1] = h /\ r[2] \notin {"ready", "beeping"}}
    IN  /\ \A h \in built :
              faults(hookRows(h, world[h]) \cup surfaceRows(h, world[h], view.obs[h]))
              => h \in troubled
        /\ \A h \in troubled :
              \/ faults(adapterRows(h, world[h], view.obs[h], view.lookup))
              \/ installResult(h) \in PENDING_STATUSES
        /\ report.end = "invitation" =>
              /\ present # {}
              /\ \A m \in past.scene.moments :
                    WantsUser(m) /\ m.by \in built => Beeps(m) \/ world[m.by].commands = "stale"

\* A harness that awaits trust or a restart is called installed only after a hook
\* of its own ran; Codex's notify program is none (runCodexHook).
TrustIsEarned ==
    \A h \in Pending : world[h].status = "installed" =>
        \E x \in past.ran : x[1] = h /\ (h = "codex" => x[2] # "notify")
=============================================================================
