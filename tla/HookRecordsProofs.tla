-------------------------- MODULE HookRecordsProofs --------------------------
(***************************************************************************)
(* Proofs about HookRecords, for any number of processes and sessions and  *)
(* any scenes: any machine, any moments of the five harnesses in any       *)
(* order, any number of kills, pairings and upgrades.                      *)
(***************************************************************************)
EXTENDS HookRecords, FiniteSetTheorems, SequenceTheorems, TLAPS

(* The inductive invariant IInv has one part for the processes and one for  *)
(* each of the things they share.  A step is first reduced to its effect on *)
(* each part (Effects); then each part has its own induction.  What doctor  *)
(* and setup conclude, and the beeps, rest on four more invariants, each    *)
(* inductive relative to IInv: Sites (the builds), MapsInv (what the        *)
(* tallies hold), EvidenceInv (where it comes from), LedgerInv (the marks). *)

\* r has the fields of a process.
Shape(r) ==
    r \in [at: {r.at}, n: {r.n}, fire: {r.fire}, install: {r.install}, id: {r.id},
           session: {r.session}, titled: {r.titled}, h: {r.h}, ev: {r.ev}, file: {r.file},
           copy: {r.copy}, todo: {r.todo}, expired: {r.expired}]

Received == {"detach", "recv"}
AtNames == {"name", "list", "judge", "sweep", "drop"}
AtSalt == {"salt", "create", "fill", "reread"}
Writing == {"write", "rename"}
Pairs == {"fail", "persist", "clear"}
Handles == AtNames \cup AtSalt \cup Writing \cup {"read", "dedup", "send"}

\* A fire of a moment; only Claude Code's have one of the sessions.
Origin(r) ==
    \E m \in Moments : r.fire \in m.fires /\ (m.by = "claude" => r.session \in Sessions)

WorkerOK(r) ==
    /\ Shape(r)
    /\ r.file \in Tallies
    /\ \/ r.h = "pair" /\ r.at \in AtSalt \cup Pairs
       \/ r.h = None /\ r.at \in Received /\ Origin(r)
       \/ r.h \in Harnesses /\ r.at \in Handles /\ Origin(r)
    /\ r.at \in AtNames => r.session \in Sessions

FiresOK ==
    /\ fires \in [Procs -> {fires[p] : p \in Procs}]
    /\ \A p \in Procs : fires[p] = Idle \/ WorkerOK(fires[p])

PastOK ==
    /\ past \in [scene: {past.scene}, ran: {past.ran}, fired: {past.fired},
                 counted: {past.counted}, disturbed: {past.disturbed},
                 evicted: {past.evicted}, salts: {past.salts}, live: {past.live},
                 crossed: {past.crossed}, kills: {past.kills}, pairings: {past.pairings},
                 upgrades: {past.upgrades}]
    /\ past.scene \in Scenes

\* At most one process is about to write the salt it created, and a salt that
\* somebody kept is the one on the disk.
SaltInv ==
    /\ salt \in {"absent", "blank", Former} \cup Procs
    /\ \A x \in past.salts : x = salt /\ Written(x)
    /\ \A p \in Procs : At(p, "fill") => salt = "blank"
    /\ \A p, q \in Procs : At(p, "fill") /\ At(q, "fill") => p = q

\* What is about to be removed is not the name of a session that must keep it.
NameInv ==
    /\ names \in [Sessions -> {"none", "old", "new"}] /\ past.live \subseteq Sessions
    /\ NamesKept
    /\ \A p \in Procs :
         /\ At(p, "sweep") => fires[p].expired \notin past.live \ past.crossed
         /\ At(p, "drop") => fires[p].session \notin past.live \ past.crossed

\* A fire at work for a harness has run for it.
TrustInv ==
    /\ world \in [Harnesses -> Worlds]
    /\ TrustIsEarned
    /\ \A p \in Procs :
         fires[p].h \in Harnesses => <<fires[p].h, fires[p].fire.arg>> \in past.ran

\* What a tally can hold: the counts of events that took place, all of them
\* when nothing was ever evicted.
Positive(map) == \A k \in DOMAIN map : map[k].count \in Nat \ {0}
Natural(counts) == \A k \in DOMAIN counts : counts[k] \in Nat
Bounded(map, counts) == \A k \in DOMAIN map : k \in DOMAIN counts /\ map[k].count <= counts[k]
Within(map, f) == Bounded(map, past.counted[f])
Whole(map, f) == (f = "builds" => ~past.evicted) => Counts(map) = past.counted[f]
\* In a tally without a disturbance at most one process is at work, and what it
\* holds is what the tally will be.
Undisturbed(f) ==
    /\ \A p, q \in Procs : Inside(p, f) /\ Inside(q, f) => p = q
    /\ Within(ReadTally(f), f)
    /\ Settled(f) => Whole(ReadTally(f), f)
    /\ \A p \in Procs : Inside(p, f) =>
         /\ Within(fires[p].copy, f) /\ Whole(fires[p].copy, f)
         /\ At(p, "rename") => files[f].tmp = Tmp(Content(fires[p].copy))
FilesOK ==
    /\ files \in [Tallies -> {files[f] : f \in Tallies}]
    /\ \A f \in Tallies : files[f] \in [now: {files[f].now}, tmp: {files[f].tmp}]
    /\ past.counted \in [Tallies -> {past.counted[f] : f \in Tallies}]
    /\ \A f \in Tallies :
         /\ Natural(past.counted[f])
         /\ Positive(files[f].now.map) /\ Positive(files[f].tmp.map)
    /\ \A p \in Procs : fires[p].at \in Writing => Positive(fires[p].copy)
TallyInv == FilesOK /\ \A f \in Tallies : f \notin past.disturbed => Undisturbed(f)

\* The fires of a moment that have not ended are those that are left.
Active(p) == ~At(p, "idle") /\ fires[p].h # "pair"
Running(n) == {p \in Procs : Active(p) /\ fires[p].n = n}
MomentRecord(r) ==
    r \in [due: {r.due}, beeps: Nat, clean: {r.clean}, left: Int, marks: {r.marks}]
HappenedOK ==
    /\ happened \in Seq({happened[n] : n \in DOMAIN happened})
    /\ \A n \in DOMAIN happened : MomentRecord(happened[n])
    /\ \A p \in Procs : Active(p) => fires[p].n \in DOMAIN happened
MomentInv ==
    \A n \in DOMAIN happened :
        /\ happened[n].left + happened[n].beeps <= 2
        /\ IsFiniteSet(Running(n)) /\ Cardinality(Running(n)) = happened[n].left

IInv ==
    /\ FiresOK /\ PastOK /\ HappenedOK
    /\ SaltInv /\ NameInv /\ TrustInv /\ TallyInv /\ MomentInv

-----------------------------------------------------------------------------
(* The moments of the harnesses.                                           *)

\* The fire f belongs to a moment of the harness by.
FireOK(by, f) ==
    /\ f.cmd \in Harnesses
    /\ f.arg = "notify" => f.payload.key = "type"
    /\ f.cmd = "claude" /\ by # "claude" =>
         isCursorHookPayload(f.payload) \/ ~HookNamed(f.payload, CLAUDE_CODE_HOOK_EVENTS)
MomentOK(m) ==
    /\ \A f \in m.fires : FireOK(m.by, f)
    /\ \E a, b : m.fires \subseteq {a, b}

LEMMA Keys ==
    /\ KeyOf("claude") = "hook_event_name" /\ KeyOf("codex") = "hook_event_name"
    /\ KeyOf("cursor") = "hook_event_name" /\ KeyOf("opencode") = "type"
    /\ KeyOf("copilot") = "none"
  BY Zenon DEF KeyOf

LEMMA FireIs ==
    \A cmd, arg, by, name, detail :
        /\ Fire(cmd, arg, by, name, detail).cmd = cmd
        /\ Fire(cmd, arg, by, name, detail).arg = arg
        /\ Fire(cmd, arg, by, name, detail).payload.by = by
        /\ Fire(cmd, arg, by, name, detail).payload.key = KeyOf(by)
        /\ Fire(cmd, arg, by, name, detail).payload.name = name
  BY DEF Fire

LEMMA OneFire == \A by, kind, f : FireOK(by, f) => MomentOK(Moment(by, kind, {f}))
  BY DEF Moment, MomentOK

LEMMA TwoFires ==
    \A by, kind, f, g : FireOK(by, f) /\ FireOK(by, g) => MomentOK(Moment(by, kind, {f, g}))
  BY DEF Moment, MomentOK

LEMMA ToldOK ==
    ASSUME NEW h \in Harnesses, NEW name, NEW detail
    PROVE  FireOK(h, Told(h, name, detail))
  <1>1. PICK f : f = Told(h, name, detail)
    OBVIOUS
  <1>2. f.cmd = h /\ f.arg = ""
    BY <1>1 DEF Told, Fire
  <1> QED  BY <1>1, <1>2 DEF FireOK

LEMMA NotifyOK ==
    ASSUME NEW name, NEW detail PROVE FireOK("codex", CodexNotify(name, detail))
  BY DEF FireOK, CodexNotify, Harnesses

LEMMA CopilotOK ==
    ASSUME NEW name, name # "notify" PROVE FireOK("copilot", Copilot(name))
  <1>1. Copilot(name).cmd = "copilot" /\ Copilot(name).arg = name
    BY DEF Copilot, Fire
  <1> QED  BY <1>1 DEF FireOK, Harnesses

LEMMA BridgedOK ==
    ASSUME NEW name, NEW detail PROVE FireOK("cursor", Bridged(name, detail))
  <1>1. PICK f : f = Bridged(name, detail)
    OBVIOUS
  <1>2. /\ f.cmd = "claude" /\ f.arg = "" /\ f.payload.by = "cursor"
        /\ f.payload.key = KeyOf("cursor")
    BY <1>1 DEF Bridged, Fire
  <1> QED
    BY <1>1, <1>2, Keys DEF FireOK, isCursorHookPayload, HasCursorVersion, Harnesses

LEMMA PlainOK ==
    ASSUME NEW h \in Harnesses, NEW kind, NEW name, NEW detail
    PROVE  MomentOK(Plain(h, kind, name, detail))
  BY ToldOK, OneFire DEF Plain

LEMMA OwnOK ==
    ASSUME NEW h \in Harnesses, NEW name PROVE FireOK(h, Own(h, name))
  <1>1. Own(h, name) = Told(h, name, "")
    BY DEF Own, Told
  <1> QED  BY <1>1, ToldOK

LEMMA ClaudeFires == \A m \in ClaudeMoments : MomentOK(m)
  <1>1. \A kind, name, detail : MomentOK(Plain("claude", kind, name, detail))
    BY PlainOK DEF Harnesses
  <1>2. MomentOK(Moment("claude", "approval", {Own("claude", "PermissionRequest"),
                        Told("claude", "Notification", "permission_prompt")}))
    BY ToldOK, OwnOK, TwoFires DEF Harnesses
  <1> QED  BY <1>1, <1>2, Zenon DEF ClaudeMoments

LEMMA CodexFires == \A m \in CodexMoments : MomentOK(m)
  <1>1. \A kind, name, detail : MomentOK(Plain("codex", kind, name, detail))
    BY PlainOK DEF Harnesses
  <1>2. MomentOK(Moment("codex", "turnEnd", {Own("codex", "Stop"),
                        CodexNotify("agent-turn-complete", "")}))
    BY OwnOK, NotifyOK, TwoFires DEF Harnesses
  <1>3. MomentOK(Moment("codex", "hidden", {Told("codex", "Stop", "internal"),
                        CodexNotify("agent-turn-complete", "internal")}))
    BY ToldOK, NotifyOK, TwoFires DEF Harnesses
  <1>4. MomentOK(Moment("codex", "foreign", {CodexNotify("another-tool", "")}))
    BY NotifyOK, OneFire
  <1> QED  BY <1>1, <1>2, <1>3, <1>4, Zenon DEF CodexMoments

LEMMA CursorFires == \A m \in CursorMoments : MomentOK(m)
  <1>1. \A kind, name, detail : MomentOK(Plain("cursor", kind, name, detail))
    BY PlainOK DEF Harnesses
  <1>2. \A kind, name, detail : MomentOK(Moment("cursor", kind, CursorBoth(name, detail)))
    BY ToldOK, BridgedOK, TwoFires DEF CursorBoth, Harnesses
  <1>3. /\ MomentOK(Moment("cursor", "tool", {Own("cursor", "preToolUse"),
                                              Own("cursor", "postToolUse")}))
        /\ MomentOK(Moment("cursor", "approval", {Own("cursor", "preToolUse"),
                                                  Own("cursor", "beforeShellExecution")}))
    BY OwnOK, TwoFires DEF Harnesses
  <1> QED  BY <1>1, <1>2, <1>3, Zenon DEF CursorMoments

LEMMA OpenCodeFires == \A m \in OpenCodeMoments : MomentOK(m)
  <1>1. \A name, detail : FireOK("opencode", Told("opencode", name, detail))
    BY ToldOK DEF Harnesses
  <1>2. MomentOK(Moment("opencode", "hidden", {Own("opencode", "permission.replied")}))
    BY OwnOK, OneFire DEF Harnesses
  <1>3. \A kind, name, detail : MomentOK(Moment("opencode", kind, Forwarded(name, detail)))
    BY <1>1 DEF MomentOK, Moment, Forwarded
  <1>4. \A kind, n1, d1, n2, d2 :
          MomentOK(Moment("opencode", kind, Forwarded(n1, d1) \cup Forwarded(n2, d2)))
    BY <1>1 DEF MomentOK, Moment, Forwarded
  <1>5. /\ MomentOK(Moment("opencode", "waits", Forwarded("session.status", "idle")
                                                \cup Forwarded("session.idle", "")))
        /\ MomentOK(Moment("opencode", "tool", Forwarded("tool.execute.before", "")
                                               \cup Forwarded("tool.execute.after", "")))
    BY <1>4
  <1>6. /\ MomentOK(Moment("opencode", "start", Forwarded("session.created", "")))
        /\ MomentOK(Moment("opencode", "other", Forwarded("session.updated", "")))
        /\ MomentOK(Moment("opencode", "other", Forwarded("session.status", "busy")))
        /\ MomentOK(Moment("opencode", "failure", Forwarded("session.error", "")))
        /\ MomentOK(Moment("opencode", "approval", Forwarded("permission.asked", "")))
        /\ MomentOK(Moment("opencode", "hidden", Forwarded("message.part.updated", "")))
    BY <1>3
  <1> QED  BY <1>2, <1>5, <1>6, Zenon DEF OpenCodeMoments

LEMMA CopilotFires == \A m \in CopilotMoments : MomentOK(m)
  BY CopilotOK, OneFire, TwoFires DEF CopilotMoments

LEMMA ForeignFires == \A m \in ForeignMoments : MomentOK(m)
  <1>1. ASSUME NEW h \in Harnesses \ {"claude", "cursor"}
        PROVE  MomentOK(Foreign(Fire(h, IF h = "copilot" THEN "agentStop" ELSE "",
                                     "cursor", "stop", "")))
    <2>1. PICK f : f = Fire(h, IF h = "copilot" THEN "agentStop" ELSE "", "cursor", "stop", "")
      OBVIOUS
    <2>2. f.cmd = h /\ f.arg # "notify"
      BY <2>1 DEF Fire
    <2> QED  BY <2>1, <2>2, OneFire DEF Foreign, FireOK
  <1>2. MomentOK(Foreign(Fire("claude", "", "codex", "SubagentStart", "")))
    <2>1. PICK f : f = Fire("claude", "", "codex", "SubagentStart", "")
      OBVIOUS
    <2>2. /\ f.cmd = "claude" /\ f.arg = "" /\ f.payload.name = "SubagentStart"
      BY <2>1 DEF Fire
    <2>3. ~HookNamed(f.payload, CLAUDE_CODE_HOOK_EVENTS)
      BY <2>2 DEF HookNamed, CLAUDE_CODE_HOOK_EVENTS
    <2> QED  BY <2>1, <2>2, <2>3, OneFire DEF Foreign, FireOK, Harnesses
  <1>3. MomentOK(Foreign(Fire("copilot", "bogus", "copilot", "", "")))
    <2>1. PICK f : f = Fire("copilot", "bogus", "copilot", "", "")
      OBVIOUS
    <2>2. f.cmd = "copilot" /\ f.arg = "bogus"
      BY <2>1 DEF Fire
    <2> QED  BY <2>1, <2>2, OneFire DEF Foreign, FireOK, Harnesses
  <1> QED  BY <1>1, <1>2, <1>3 DEF ForeignMoments

LEMMA AllFires == \A m \in Moments : MomentOK(m)
  BY ClaudeFires, CodexFires, CursorFires, OpenCodeFires, CopilotFires, ForeignFires DEF Moments

LEMMA Handled ==
    ASSUME NEW r, Origin(r)
    PROVE  /\ resolveHookHarness(r.fire.cmd, r.fire.payload) \in Harnesses
           /\ resolveHookHarness(r.fire.cmd, r.fire.payload) = "claude"
              /\ recognizesPayload("claude", r.fire.payload) => r.session \in Sessions
           /\ r.fire.arg = "notify" => r.fire.payload.key = "type"
  <1>1. PICK m \in Moments : r.fire \in m.fires /\ (m.by = "claude" => r.session \in Sessions)
    BY DEF Origin
  <1>2. FireOK(m.by, r.fire)
    BY <1>1, AllFires DEF MomentOK
  <1>3. resolveHookHarness(r.fire.cmd, r.fire.payload) \in Harnesses
    BY <1>2 DEF FireOK, resolveHookHarness, Harnesses
  <1>4. resolveHookHarness(r.fire.cmd, r.fire.payload) = "claude" =>
          r.fire.cmd = "claude" /\ ~isCursorHookPayload(r.fire.payload)
    BY DEF resolveHookHarness
  <1>5. recognizesPayload("claude", r.fire.payload) =>
          HookNamed(r.fire.payload, CLAUDE_CODE_HOOK_EVENTS)
    BY DEF recognizesPayload
  <1> QED  BY <1>1, <1>2, <1>3, <1>4, <1>5 DEF FireOK

-----------------------------------------------------------------------------
(* What a step of one process does to each part of the state.              *)

OthersStay(p) ==
    /\ fires' \in [Procs -> {fires'[q] : q \in Procs}]
    /\ \A q \in Procs \ {p} : fires'[q] = fires[q]

\* The process goes on as the same fire, at another label.
Continues(p) ==
    /\ fires[p] # Idle /\ WorkerOK(fires'[p])
    /\ fires'[p].n = fires[p].n /\ fires'[p].h = fires[p].h
    /\ fires'[p].fire = fires[p].fire /\ fires'[p].session = fires[p].session

SaltEffect(p) ==
    \/ salt' = salt /\ past'.salts = past.salts /\ fires'[p].at # "fill"
    \/ readSalt(p) \/ createSalt(p) \/ fillSalt(p) \/ rereadSalt(p)
NameEffect(p) ==
    \/ /\ names' = names /\ past'.live = past.live /\ past'.crossed = past.crossed
       /\ fires'[p].at \notin {"sweep", "drop"}
    \/ remember(p) \/ (\E s \in Sessions : JudgeName(p, s)) \/ RemoveName(p)
    \/ forget(p) \/ lookup(p) \/ DropExpired(p)
TrustEffect(p) ==
    /\ past'.ran = past.ran \/ Receive(p)
    /\ world' = world \/ Receive(p) \/ RenameFile(p) \/ Dedup(p) \/ Send(p)
    /\ fires'[p].h \in Harnesses => Continues(p) \/ Receive(p)
TallyEffect(p) ==
    \/ /\ files' = files /\ past'.counted = past.counted
       /\ past'.disturbed = past.disturbed /\ past'.evicted = past.evicted
       /\ fires[p].at \notin Writing /\ fires'[p].at \notin Writing
    \/ ReadFile(p) \/ WriteFile(p) \/ RenameFile(p) \/ ClearMissed(p) \/ Kill(p)
\* A fire keeps its moment, or ends and is one less of it, with a beep at most.
Stays(n) == happened'[n].left = happened[n].left /\ happened'[n].beeps = happened[n].beeps
MomentEffect(p) ==
    /\ HappenedOK' /\ DOMAIN happened' = DOMAIN happened
    /\ \/ /\ Active(p)' <=> Active(p)
          /\ Active(p) => fires'[p].n = fires[p].n
          /\ \A n \in DOMAIN happened : Stays(n)
       \/ /\ Active(p) /\ fires'[p] = Idle
          /\ \A n \in DOMAIN happened \ {fires[p].n} : Stays(n)
          /\ happened'[fires[p].n].left = happened[fires[p].n].left - 1
          /\ happened'[fires[p].n].beeps <= happened[fires[p].n].beeps + 1

Effects(p) ==
    /\ OthersStay(p) /\ (fires'[p] = Idle \/ WorkerOK(fires'[p]))
    /\ PastOK' /\ past'.scene = past.scene
    /\ SaltEffect(p) /\ NameEffect(p) /\ TrustEffect(p) /\ TallyEffect(p) /\ MomentEffect(p)

LEMMA Worker ==
    ASSUME FiresOK, NEW p \in Procs, fires[p].at # "idle"
    PROVE  WorkerOK(fires[p]) /\ Shape(fires[p])
  BY DEF FiresOK, Idle, WorkerOK

LEMMA Replaced ==
    ASSUME FiresOK, NEW p \in Procs, NEW r, fires' = [fires EXCEPT ![p] = r]
    PROVE  OthersStay(p) /\ fires'[p] = r
  BY DEF FiresOK, OthersStay

LEMMA GoesTo ==
    ASSUME FiresOK, NEW p \in Procs, fires[p].at # "idle", NEW l, Goto(p, l),
           fires[p].h = "pair" => l \in AtSalt \cup Pairs,
           fires[p].h = None => l \in Received,
           fires[p].h \in Harnesses => l \in Handles,
           l \in AtNames => fires[p].at \in AtNames
    PROVE  /\ OthersStay(p) /\ Continues(p)
           /\ fires'[p].at = l /\ fires'[p].file = fires[p].file
           /\ fires'[p].copy = fires[p].copy
  <1>1. PICK r : r = fires[p]
    OBVIOUS
  <1>2. PICK r2 : r2 = [r EXCEPT !.at = l]
    OBVIOUS
  <1>3. fires' = [fires EXCEPT ![p] = r2]
    BY <1>1, <1>2 DEF Goto, FiresOK
  <1>4. Shape(r) /\ WorkerOK(r)
    BY <1>1, Worker
  <1>5. /\ Shape(r2) /\ r2.at = l /\ r2.file = r.file /\ r2.copy = r.copy /\ r2.n = r.n
        /\ r2.h = r.h /\ r2.fire = r.fire /\ r2.session = r.session
    BY <1>2, <1>4 DEF Shape
  <1>6. WorkerOK(r2)
    BY <1>1, <1>4, <1>5 DEF WorkerOK, Origin
  <1>7. fires'[p] = r2 /\ OthersStay(p)
    BY <1>3, Replaced
  <1> QED  BY <1>1, <1>4, <1>5, <1>6, <1>7, Worker DEF Continues, Idle, WorkerOK

\* Nothing but the process's own label changes, or it ends.
LEMMA Quiet ==
    ASSUME FiresOK, PastOK, HappenedOK, NEW p \in Procs, OthersStay(p),
           UNCHANGED <<files, salt, names, world, past>>,
           Continues(p) \/ fires'[p] = Idle,
           fires[p].at \notin Writing,
           fires'[p].at \notin {"fill", "sweep", "drop"} \cup Writing,
           MomentEffect(p)
    PROVE  Effects(p)
  <1>1. fires'[p] = Idle \/ WorkerOK(fires'[p])
    BY DEF Continues
  <1>2. Continues(p) \/ fires'[p].h \notin Harnesses
    BY DEF Idle, Harnesses, None
  <1> QED
    BY <1>1, <1>2 DEF Effects, PastOK, SaltEffect, NameEffect, TrustEffect, TallyEffect

LEMMA MomentStays ==
    ASSUME HappenedOK, NEW p \in Procs, OthersStay(p), happened' = happened,
           Active(p)' <=> Active(p), Active(p) => fires'[p].n = fires[p].n
    PROVE  MomentEffect(p)
  <1>1. HappenedOK'
    <2>1. ASSUME NEW q \in Procs, Active(q)' PROVE fires'[q].n \in DOMAIN happened
      BY <2>1 DEF OthersStay, HappenedOK, Active, At
    <2> QED  BY <2>1 DEF HappenedOK
  <1> QED  BY <1>1 DEF MomentEffect, Stays

LEMMA SameMoment ==
    ASSUME HappenedOK, NEW p \in Procs, fires[p].at # "idle", OthersStay(p), Continues(p),
           happened' = happened
    PROVE  MomentEffect(p)
  <1>1. fires'[p].at # "idle"
    BY DEF Continues, WorkerOK, Received, Handles, AtSalt, AtNames, Pairs, Writing
  <1> QED  BY <1>1, MomentStays DEF Continues, Active, At

\* The record of the process's moment changes to r.
LEMMA MomentTo ==
    ASSUME HappenedOK, NEW p \in Procs, OthersStay(p), Active(p), NEW r,
           happened' = [happened EXCEPT ![fires[p].n] = r], MomentRecord(r),
           Active(p)' => fires'[p].n = fires[p].n
    PROVE  /\ HappenedOK' /\ DOMAIN happened' = DOMAIN happened
           /\ happened'[fires[p].n] = r
           /\ \A n \in DOMAIN happened \ {fires[p].n} : Stays(n)
  <1>1. fires[p].n \in DOMAIN happened
    BY DEF HappenedOK
  <1>2. /\ DOMAIN happened' = DOMAIN happened /\ happened'[fires[p].n] = r
        /\ \A n \in DOMAIN happened \ {fires[p].n} : happened'[n] = happened[n]
    BY <1>1
  <1>3. \A n \in DOMAIN happened : MomentRecord(happened'[n])
    BY <1>2 DEF HappenedOK
  <1>4. happened' \in Seq({happened'[n] : n \in DOMAIN happened'})
    <2>1. PICK k \in Nat : happened \in [1..k -> {happened[n] : n \in DOMAIN happened}]
      BY SeqDef DEF HappenedOK
    <2>2. PICK S : S = {happened'[n] : n \in DOMAIN happened'}
      OBVIOUS
    <2>3. happened' \in [1..k -> S]
      BY <1>1, <1>2, <2>1, <2>2
    <2>4. happened' \in UNION {[1..n -> S] : n \in Nat}
      BY <2>3
    <2>5. happened' \in Seq(S)
      BY <2>4, SeqDef
    <2> QED  BY <2>2, <2>5
  <1>5. ASSUME NEW q \in Procs, Active(q)' PROVE fires'[q].n \in DOMAIN happened
    BY <1>1, <1>5 DEF OthersStay, HappenedOK, Active, At
  <1> QED  BY <1>2, <1>3, <1>4, <1>5 DEF HappenedOK, MomentRecord, Stays

\* A fire ends, badly or well, with a beep or without.
LEMMA MomentEnds ==
    ASSUME HappenedOK, NEW p \in Procs, OthersStay(p), Active(p), fires'[p] = Idle,
           NEW r, MomentRecord(r), happened' = [happened EXCEPT ![fires[p].n] = r],
           r.left = happened[fires[p].n].left - 1,
           r.beeps <= happened[fires[p].n].beeps + 1
    PROVE  MomentEffect(p)
  <1>1. ~Active(p)'
    BY DEF Active, At, Idle
  <1>2. /\ HappenedOK' /\ DOMAIN happened' = DOMAIN happened
        /\ happened'[fires[p].n] = r
        /\ \A n \in DOMAIN happened \ {fires[p].n} : Stays(n)
    BY <1>1, MomentTo
  <1> QED  BY <1>2 DEF MomentEffect

LEMMA OneLess ==
    ASSUME NEW r, MomentRecord(r), NEW less, less = [r EXCEPT !.left = @ - 1]
    PROVE  MomentRecord(less) /\ less.left = r.left - 1 /\ less.beeps = r.beeps
  <1>1. PICK l \in Int : l = r.left - 1
    BY DEF MomentRecord
  <1>2. less = [r EXCEPT !.left = l]
    BY <1>1
  <1> QED  BY <1>1, <1>2 DEF MomentRecord

LEMMA Recleaned ==
    ASSUME NEW r, MomentRecord(r), NEW c, NEW quiet, quiet = [r EXCEPT !.clean = c]
    PROVE  MomentRecord(quiet) /\ quiet.left = r.left /\ quiet.beeps = r.beeps
  BY DEF MomentRecord

LEMMA EndsBadlyMoment ==
    ASSUME FiresOK, HappenedOK, NEW p \in Procs, Active(p), EndsBadly(p)
    PROVE  OthersStay(p) /\ fires'[p] = Idle /\ MomentEffect(p)
  <1>1. OthersStay(p) /\ fires'[p] = Idle
    BY Replaced DEF EndsBadly, Ends
  <1>2. MomentRecord(happened[fires[p].n]) /\ fires[p].n \in DOMAIN happened
    BY DEF HappenedOK
  <1>3. PICK r : r = happened[fires[p].n]
    OBVIOUS
  <1>4. PICK r2 : r2 = [[r EXCEPT !.left = @ - 1] EXCEPT !.clean = FALSE]
    OBVIOUS
  <1>5. happened' = [happened EXCEPT ![fires[p].n] = r2]
    BY <1>2, <1>3, <1>4 DEF EndsBadly, MomentLeft
  <1>6. MomentRecord(r2) /\ r2.left = r.left - 1 /\ r2.beeps = r.beeps
    <2>1. PICK less : less = [r EXCEPT !.left = @ - 1]
      OBVIOUS
    <2>2. MomentRecord(less) /\ less.left = r.left - 1 /\ less.beeps = r.beeps
      BY <1>2, <1>3, <2>1, OneLess
    <2>3. r2 = [less EXCEPT !.clean = FALSE]
      BY <1>4, <2>1
    <2> QED  BY <2>2, <2>3 DEF MomentRecord
  <1>7. r2.beeps <= r.beeps + 1
    BY <1>2, <1>3, <1>6 DEF MomentRecord
  <1> QED  BY <1>1, <1>3, <1>5, <1>6, <1>7, MomentEnds

LEMMA EndsWellMoment ==
    ASSUME FiresOK, HappenedOK, NEW p \in Procs, Active(p), EndsWell(p)
    PROVE  OthersStay(p) /\ fires'[p] = Idle /\ MomentEffect(p)
  <1>1. OthersStay(p) /\ fires'[p] = Idle
    BY Replaced DEF EndsWell, Ends
  <1>2. MomentRecord(happened[fires[p].n]) /\ fires[p].n \in DOMAIN happened
    BY DEF HappenedOK
  <1>3. PICK r : r = happened[fires[p].n]
    OBVIOUS
  <1>4. PICK r2 : r2 = [r EXCEPT !.left = @ - 1]
    OBVIOUS
  <1>5. happened' = [happened EXCEPT ![fires[p].n] = r2]
    BY <1>2, <1>3, <1>4 DEF EndsWell, MomentLeft
  <1>6. MomentRecord(r2) /\ r2.left = r.left - 1 /\ r2.beeps = r.beeps
    BY <1>2, <1>3, <1>4, OneLess
  <1>7. r2.beeps <= r.beeps + 1
    BY <1>2, <1>3, <1>6 DEF MomentRecord
  <1> QED  BY <1>1, <1>3, <1>5, <1>6, <1>7, MomentEnds

LEMMA DetachEffects ==
    ASSUME FiresOK, PastOK, HappenedOK, NEW p \in Procs, DetachNotify(p)
    PROVE  Effects(p)
  <1>1. fires[p].at = "detach" /\ WorkerOK(fires[p]) /\ fires[p].h = None
    BY Worker DEF DetachNotify, At, WorkerOK, AtSalt, Pairs, Handles, AtNames, Writing
  <1>2. CASE Goto(p, "recv") /\ UNCHANGED happened
    <2>1. OthersStay(p) /\ Continues(p) /\ fires'[p].at = "recv"
      BY <1>1, <1>2, GoesTo DEF Received, None, Harnesses, AtNames
    <2> QED  BY <1>1, <1>2, <2>1, SameMoment, Quiet DEF DetachNotify, Writing
  <1>3. CASE EndsBadly(p)
    <2>1. Active(p)
      BY <1>1 DEF Active, At, None
    <2>2. OthersStay(p) /\ fires'[p] = Idle /\ MomentEffect(p)
      BY <1>3, <2>1, EndsBadlyMoment
    <2> QED  BY <1>1, <2>2, Quiet DEF DetachNotify, Writing, Idle
  <1> QED  BY <1>2, <1>3 DEF DetachNotify

LEMMA DropEffects ==
    ASSUME FiresOK, PastOK, HappenedOK, NEW p \in Procs, DropPayload(p)
    PROVE  Effects(p)
  <1>1. fires[p].at = "recv" /\ WorkerOK(fires[p]) /\ fires[p].h = None
    BY Worker DEF DropPayload, At, WorkerOK, AtSalt, Pairs, Handles, AtNames, Writing
  <1>2. Active(p)
    BY <1>1 DEF Active, At, None
  <1>3. OthersStay(p) /\ fires'[p] = Idle /\ MomentEffect(p)
    BY <1>2, EndsBadlyMoment DEF DropPayload
  <1> QED  BY <1>1, <1>3, Quiet DEF DropPayload, Writing, Idle

\* The process has a label of a fire that names sessions, or sends.
LEMMA AtWork ==
    ASSUME FiresOK, NEW p \in Procs,
           fires[p].at \in AtNames \cup Writing \cup {"read", "dedup", "send"}
    PROVE  /\ fires[p].h \in Harnesses /\ WorkerOK(fires[p]) /\ fires[p].at # "idle"
           /\ Origin(fires[p]) /\ fires[p].h \notin {None, "pair"} /\ Active(p)
  <1>1. /\ fires[p].h \in Harnesses /\ WorkerOK(fires[p]) /\ fires[p].at # "idle"
        /\ Origin(fires[p])
    BY Worker DEF AtNames, Writing, WorkerOK, AtSalt, Pairs, Received, Handles
  <1> QED  BY <1>1 DEF Harnesses, None, Active, At

LEMMA NameGoesTo ==
    ASSUME FiresOK, NEW p \in Procs, fires[p].at \in AtNames, NEW l \in AtNames \cup {"salt"},
           Goto(p, l)
    PROVE  OthersStay(p) /\ Continues(p) /\ fires'[p].at = l
  <1>1. fires[p].h \in Harnesses /\ fires[p].at # "idle"
    BY AtWork
  <1>2. fires[p].h \notin {None, "pair"} /\ l \in Handles
    BY <1>1 DEF Harnesses, None, Handles, AtSalt
  <1> QED  BY <1>1, <1>2, GoesTo

LEMMA UntitledEffects ==
    ASSUME FiresOK, PastOK, HappenedOK, NEW p \in Procs, Untitled(p)
    PROVE  Effects(p)
  <1>1. fires[p].at = "name" /\ Goto(p, "salt")
    BY DEF Untitled, SessionStarts, At
  <1>2. OthersStay(p) /\ Continues(p) /\ fires'[p].at = "salt"
    BY <1>1, NameGoesTo DEF AtNames
  <1>3. MomentEffect(p)
    BY <1>1, <1>2, SameMoment DEF Untitled
  <1> QED  BY <1>1, <1>2, <1>3, Quiet DEF Untitled, Writing

LEMMA EndSweepEffects ==
    ASSUME FiresOK, PastOK, HappenedOK, NEW p \in Procs, EndSweep(p)
    PROVE  Effects(p)
  <1>1. fires[p].at = "judge" /\ Goto(p, "salt")
    BY DEF EndSweep, At
  <1>2. OthersStay(p) /\ Continues(p) /\ fires'[p].at = "salt"
    BY <1>1, NameGoesTo DEF AtNames
  <1>3. MomentEffect(p)
    BY <1>1, <1>2, SameMoment DEF EndSweep
  <1> QED  BY <1>1, <1>2, <1>3, Quiet DEF EndSweep, Writing

\* A step among the session names.
LEMMA NameStep ==
    ASSUME FiresOK, PastOK, HappenedOK, NEW p \in Procs, OthersStay(p), Continues(p),
           fires[p].at \in AtNames, fires'[p].at \in AtNames \cup {"salt"},
           UNCHANGED <<files, salt, world, happened>>,
           PastOK', past'.scene = past.scene, past'.salts = past.salts, past'.ran = past.ran,
           past'.counted = past.counted, past'.disturbed = past.disturbed,
           past'.evicted = past.evicted,
           NameEffect(p)
    PROVE  Effects(p)
  <1>1. fires[p].at \notin Writing \cup {"idle"} /\ fires'[p].at \notin Writing \cup {"fill"}
    BY DEF AtNames, Writing
  <1>2. MomentEffect(p)
    BY <1>1, SameMoment
  <1> QED  BY <1>1, <1>2 DEF Effects, Continues, SaltEffect, TrustEffect, TallyEffect

LEMMA RememberEffects ==
    ASSUME FiresOK, PastOK, HappenedOK, NEW p \in Procs, remember(p)
    PROVE  Effects(p)
  <1>1. fires[p].at = "name" /\ Goto(p, "list")
    BY DEF remember, SessionStarts, At
  <1>2. OthersStay(p) /\ Continues(p) /\ fires'[p].at = "list"
    BY <1>1, NameGoesTo DEF AtNames
  <1>3. PICK x, y : past' = [past EXCEPT !.live = x, !.crossed = y]
    BY DEF remember
  <1>4. /\ PastOK' /\ past'.scene = past.scene /\ past'.salts = past.salts
        /\ past'.ran = past.ran /\ past'.counted = past.counted
        /\ past'.disturbed = past.disturbed /\ past'.evicted = past.evicted
    BY <1>3 DEF PastOK
  <1> QED  BY <1>1, <1>2, <1>4, NameStep DEF remember, NameEffect, AtNames

LEMMA ForgetEffects ==
    ASSUME FiresOK, PastOK, HappenedOK, NEW p \in Procs, forget(p)
    PROVE  Effects(p)
  <1>1. fires[p].at = "name" /\ Goto(p, "salt")
    BY DEF forget, At
  <1>2. OthersStay(p) /\ Continues(p) /\ fires'[p].at = "salt"
    BY <1>1, NameGoesTo DEF AtNames
  <1>3. PICK x : past' = [past EXCEPT !.live = x]
    BY DEF forget
  <1>4. /\ PastOK' /\ past'.scene = past.scene /\ past'.salts = past.salts
        /\ past'.ran = past.ran /\ past'.counted = past.counted
        /\ past'.disturbed = past.disturbed /\ past'.evicted = past.evicted
    BY <1>3 DEF PastOK
  <1> QED  BY <1>1, <1>2, <1>4, NameStep DEF forget, NameEffect, AtNames

LEMMA LookupEffects ==
    ASSUME FiresOK, PastOK, HappenedOK, NEW p \in Procs, lookup(p)
    PROVE  Effects(p)
  <1>1. fires[p].at = "name" /\ \E l \in {"drop", "salt"} : Goto(p, l)
    BY DEF lookup, At
  <1>2. OthersStay(p) /\ Continues(p) /\ fires'[p].at \in {"drop", "salt"}
    BY <1>1, NameGoesTo DEF AtNames
  <1> QED  BY <1>1, <1>2, NameStep DEF lookup, NameEffect, AtNames, PastOK

LEMMA DropExpiredEffects ==
    ASSUME FiresOK, PastOK, HappenedOK, NEW p \in Procs, DropExpired(p)
    PROVE  Effects(p)
  <1>1. fires[p].at = "drop" /\ Goto(p, "salt")
    BY DEF DropExpired, At
  <1>2. OthersStay(p) /\ Continues(p) /\ fires'[p].at = "salt"
    BY <1>1, NameGoesTo DEF AtNames
  <1> QED  BY <1>1, <1>2, NameStep DEF DropExpired, NameEffect, AtNames, PastOK

\* A sweep changes what the process has yet to judge or remove.
LEMMA SweepGoesTo ==
    ASSUME FiresOK, NEW p \in Procs, fires[p].at \in AtNames, NEW l \in AtNames,
           NEW t, NEW x,
           fires' = [fires EXCEPT ![p].at = l, ![p].todo = t, ![p].expired = x]
    PROVE  /\ OthersStay(p) /\ Continues(p) /\ fires'[p].at = l
           /\ fires'[p].todo = t /\ fires'[p].expired = x
  <1>1. PICK r : r = fires[p]
    OBVIOUS
  <1>2. PICK r2 : r2 = [r EXCEPT !.at = l, !.todo = t, !.expired = x]
    OBVIOUS
  <1>3. fires' = [fires EXCEPT ![p] = r2]
    BY <1>1, <1>2 DEF FiresOK
  <1>4. WorkerOK(r) /\ Shape(r) /\ r.h \in Harnesses /\ r.at # "idle"
    BY <1>1, AtWork DEF WorkerOK
  <1>5. /\ Shape(r2) /\ r2.at = l /\ r2.todo = t /\ r2.expired = x
        /\ r2.file = r.file /\ r2.n = r.n /\ r2.h = r.h
        /\ r2.fire = r.fire /\ r2.session = r.session
    BY <1>2, <1>4 DEF Shape
  <1>6. WorkerOK(r2)
    <2>1. Origin(r) /\ r.session \in Sessions /\ r.file \in Tallies
      BY <1>1, <1>4 DEF WorkerOK, Harnesses, None
    <2> QED  BY <1>4, <1>5, <2>1 DEF WorkerOK, Origin, Handles
  <1>7. fires'[p] = r2 /\ OthersStay(p)
    BY <1>3, Replaced
  <1> QED  BY <1>1, <1>4, <1>5, <1>6, <1>7 DEF Continues, Idle

LEMMA ListEffects ==
    ASSUME FiresOK, PastOK, HappenedOK, NEW p \in Procs, ListNames(p)
    PROVE  Effects(p)
  <1>1. fires[p].at = "list" /\ fires[p].at # "idle"
    BY DEF ListNames, At
  <1>2. Shape(fires[p])
    BY <1>1, Worker
  <1>3. fires' = [fires EXCEPT ![p].at = "judge", ![p].todo = {s \in Sessions : names[s] # "none"},
                               ![p].expired = fires[p].expired]
    BY <1>2 DEF ListNames, FiresOK, Shape
  <1>4. OthersStay(p) /\ Continues(p) /\ fires'[p].at = "judge"
    BY <1>1, <1>3, SweepGoesTo DEF AtNames
  <1> QED  BY <1>1, <1>4, NameStep DEF ListNames, NameEffect, AtNames, PastOK

LEMMA JudgeGoesTo ==
    ASSUME FiresOK, NEW p \in Procs, NEW s, JudgeName(p, s)
    PROVE  /\ fires[p].at = "judge"
           /\ OthersStay(p) /\ Continues(p)
           /\ fires'[p].at = IF names[s] = "new" THEN "judge" ELSE "sweep"
           /\ fires'[p].expired = s
  <1>1. fires[p].at = "judge"
    BY DEF JudgeName, At
  <1>2. PICK t : t = fires[p].todo \ {s}
    OBVIOUS
  <1>3. PICK l \in {"judge", "sweep"} : l = IF names[s] = "new" THEN "judge" ELSE "sweep"
    OBVIOUS
  <1>4. Shape(fires[p])
    BY <1>1, Worker
  <1>5. fires' = [fires EXCEPT ![p].at = l, ![p].todo = t, ![p].expired = s]
    BY <1>2, <1>3, <1>4 DEF JudgeName, FiresOK, Shape
  <1>6. l \in AtNames /\ fires[p].at \in AtNames
    BY <1>1 DEF AtNames
  <1>7. OthersStay(p) /\ Continues(p) /\ fires'[p].at = l /\ fires'[p].expired = s
    BY <1>5, <1>6, SweepGoesTo, ZenonT(60)
  <1> QED  BY <1>1, <1>3, <1>7

LEMMA JudgeEffects ==
    ASSUME FiresOK, PastOK, HappenedOK, NEW p \in Procs, NEW s \in Sessions, JudgeName(p, s)
    PROVE  Effects(p)
  <1>1. /\ fires[p].at = "judge"
        /\ OthersStay(p) /\ Continues(p) /\ fires'[p].at \in {"judge", "sweep"}
    BY JudgeGoesTo
  <1> QED  BY <1>1, NameStep DEF JudgeName, NameEffect, AtNames, PastOK

LEMMA RemoveNameEffects ==
    ASSUME FiresOK, PastOK, HappenedOK, NEW p \in Procs, RemoveName(p)
    PROVE  Effects(p)
  <1>1. fires[p].at = "sweep"
    BY DEF RemoveName, At
  <1>2. Shape(fires[p])
    BY <1>1, Worker
  <1>3. fires' = [fires EXCEPT ![p].at = "judge", ![p].todo = fires[p].todo, ![p].expired = None]
    BY <1>2 DEF RemoveName, FiresOK, Shape
  <1>4. OthersStay(p) /\ Continues(p) /\ fires'[p].at = "judge"
    BY <1>1, <1>3, SweepGoesTo DEF AtNames
  <1> QED  BY <1>1, <1>4, NameStep DEF RemoveName, NameEffect, AtNames, PastOK

\* A step at the salt, of a fire or of a pairing.
LEMMA SaltStep ==
    ASSUME FiresOK, PastOK, HappenedOK, NEW p \in Procs, fires[p].at \in AtSalt,
           NEW l, Goto(p, l),
           fires[p].h = "pair" => l \in AtSalt \cup Pairs,
           fires[p].h # "pair" => l \in AtSalt \cup {"read"},
           UNCHANGED <<files, names, world, happened>>,
           past' = past \/ \E x : past' = [past EXCEPT !.salts = x],
           (salt' = salt /\ past' = past /\ l # "fill")
             \/ readSalt(p) \/ createSalt(p) \/ fillSalt(p) \/ rereadSalt(p)
    PROVE  /\ Effects(p) /\ fires'[p].at = l /\ fires[p].at # "idle"
  <1>1. fires[p].at # "idle" /\ fires[p].h \in Harnesses \cup {"pair"}
    BY Worker DEF AtSalt, WorkerOK, Received
  <1>2. l \in Handles \cup Pairs /\ l \notin AtNames \cup Writing \cup {"sweep", "drop"}
    BY DEF Handles, AtSalt, Pairs, AtNames, Writing
  <1>3. fires[p].h \in Harnesses => l \in Handles /\ fires[p].h \notin {None, "pair"}
    BY DEF Handles, Harnesses, AtSalt, None
  <1>4. OthersStay(p) /\ Continues(p) /\ fires'[p].at = l
    BY <1>1, <1>2, <1>3, GoesTo DEF None
  <1>5. /\ PastOK' /\ past'.scene = past.scene
        /\ past'.ran = past.ran /\ past'.counted = past.counted
        /\ past'.disturbed = past.disturbed /\ past'.evicted = past.evicted
        /\ past'.live = past.live /\ past'.crossed = past.crossed
    BY DEF PastOK
  <1>6. MomentEffect(p)
    BY <1>1, <1>4, SameMoment
  <1>7. SaltEffect(p)
    BY <1>4 DEF SaltEffect
  <1>8. fires[p].at \notin Writing
    BY DEF AtSalt, Writing
  <1> QED
    BY <1>1, <1>2, <1>4, <1>5, <1>6, <1>7, <1>8
       DEF Effects, Continues, NameEffect, TrustEffect, TallyEffect

SaltLabel(p, kept) == IF fires[p].h # "pair" THEN "read" ELSE IF kept THEN "persist" ELSE "fail"

LEMMA SaltedLabel ==
    ASSUME NEW p, NEW kept
    PROVE  /\ fires[p].h = "pair" => SaltLabel(p, kept) \in AtSalt \cup Pairs
           /\ fires[p].h # "pair" => SaltLabel(p, kept) \in AtSalt \cup {"read"}
           /\ SaltLabel(p, kept) # "fill"
  BY DEF SaltLabel, AtSalt, Pairs

LEMMA SaltedEffect ==
    ASSUME PastOK, NEW p, NEW whose, NEW kept, Salted(p, whose, kept)
    PROVE  /\ Goto(p, SaltLabel(p, kept))
           /\ past'.salts = IF kept THEN past.salts \cup {whose} ELSE past.salts
           /\ \E x : past' = [past EXCEPT !.salts = x]
  BY DEF Salted, SaltLabel, PastOK

LEMMA ReadSaltEffects ==
    ASSUME FiresOK, PastOK, HappenedOK, NEW p \in Procs, readSalt(p)
    PROVE  Effects(p)
  <1>1. fires[p].at \in AtSalt
    BY DEF readSalt, At, AtSalt
  <1>2. CASE Salted(p, salt, TRUE)
    BY <1>1, <1>2, SaltedEffect, SaltedLabel, SaltStep DEF readSalt
  <1>3. CASE Goto(p, "create") /\ UNCHANGED past
    <2>1. "create" \in AtSalt
      BY DEF AtSalt
    <2> QED  BY <1>1, <1>3, <2>1, SaltStep DEF readSalt
  <1> QED  BY <1>2, <1>3 DEF readSalt

LEMMA CreateSaltEffects ==
    ASSUME FiresOK, PastOK, HappenedOK, NEW p \in Procs, createSalt(p)
    PROVE  Effects(p)
  <1>1. fires[p].at \in AtSalt
    BY DEF createSalt, At, AtSalt
  <1>2. PICK l \in {"fill", "reread"} : Goto(p, l)
    BY DEF createSalt
  <1>3. l \in AtSalt
    BY DEF AtSalt
  <1> QED  BY <1>1, <1>2, <1>3, SaltStep DEF createSalt

LEMMA FillSaltEffects ==
    ASSUME FiresOK, PastOK, HappenedOK, NEW p \in Procs, fillSalt(p)
    PROVE  Effects(p)
  <1>1. fires[p].at \in AtSalt
    BY DEF fillSalt, At, AtSalt
  <1>2. Salted(p, p, TRUE)
    BY DEF fillSalt
  <1> QED  BY <1>1, <1>2, SaltedEffect, SaltedLabel, SaltStep DEF fillSalt

LEMMA RereadSaltEffects ==
    ASSUME FiresOK, PastOK, HappenedOK, NEW p \in Procs, rereadSalt(p)
    PROVE  Effects(p)
  <1>1. fires[p].at \in AtSalt
    BY DEF rereadSalt, At, AtSalt
  <1>2. PICK kept \in BOOLEAN : kept = Written(salt)
    BY DEF Written
  <1>3. Salted(p, salt, kept)
    BY <1>2 DEF rereadSalt
  <1> QED  BY <1>1, <1>3, SaltedEffect, SaltedLabel, SaltStep DEF rereadSalt

\* A fire at work takes up an event, a tally, or what it read of one.
LEMMA WorksAs ==
    ASSUME FiresOK, NEW p \in Procs, Origin(fires[p]),
           NEW r, fires' = [fires EXCEPT ![p] = r],
           Shape(r), r.at \in Handles, r.h \in Harnesses, r.file \in Tallies,
           r.at \in AtNames => r.session \in Sessions,
           r.fire = fires[p].fire, r.session = fires[p].session
    PROVE  OthersStay(p) /\ WorkerOK(r) /\ fires'[p] = r
  BY Replaced DEF WorkerOK, Origin

\* The same fire at another tally, or at another point of it.
LEMMA TallyGoesTo ==
    ASSUME FiresOK, NEW p \in Procs, fires[p].at \in Writing \cup {"read", "dedup", "send"},
           NEW l \in Writing \cup {"read", "dedup", "send"}, NEW f \in Tallies, NEW c,
           fires' = [fires EXCEPT ![p].at = l, ![p].file = f, ![p].copy = c]
    PROVE  /\ OthersStay(p) /\ Continues(p) /\ Active(p) /\ Active(p)'
           /\ fires'[p].at = l /\ fires'[p].file = f /\ fires'[p].copy = c
  <1>1. PICK r : r = fires[p]
    OBVIOUS
  <1>2. PICK r2 : r2 = [r EXCEPT !.at = l, !.file = f, !.copy = c]
    OBVIOUS
  <1>3. fires' = [fires EXCEPT ![p] = r2]
    BY <1>1, <1>2 DEF FiresOK
  <1>4. /\ r.h \in Harnesses /\ Shape(r) /\ Origin(r) /\ r.at # "idle"
        /\ r.h \notin {None, "pair"} /\ Active(p)
    BY <1>1, AtWork DEF WorkerOK
  <1>5. /\ Shape(r2) /\ r2.at = l /\ r2.file = f /\ r2.copy = c
        /\ r2.n = r.n /\ r2.h = r.h /\ r2.fire = r.fire /\ r2.session = r.session
    BY <1>2, <1>4 DEF Shape
  <1>6. l \in Handles /\ l \notin AtNames \cup {"idle"}
    BY DEF Handles, AtNames, Writing
  <1>7. OthersStay(p) /\ WorkerOK(r2) /\ fires'[p] = r2
    BY <1>1, <1>3, <1>4, <1>5, <1>6, WorksAs, ZenonT(60)
  <1> QED  BY <1>1, <1>4, <1>5, <1>6, <1>7 DEF Continues, Active, At, Idle

LEMMA ReadFileGoes ==
    ASSUME FiresOK, NEW p \in Procs, ReadFile(p)
    PROVE  /\ fires[p].at = "read"
           /\ OthersStay(p) /\ Continues(p) /\ Active(p) /\ Active(p)'
           /\ fires'[p].at = "write" /\ fires'[p].file = fires[p].file
           /\ fires'[p].copy = Capped(p, Added(ReadTally(fires[p].file), KeyFor(p)))
  <1>1. fires[p].at = "read"
    BY DEF ReadFile, At
  <1>2. WorkerOK(fires[p]) /\ fires[p].file \in Tallies /\ Shape(fires[p])
    BY <1>1, AtWork DEF WorkerOK
  <1>3. PICK c : c = Capped(p, Added(ReadTally(fires[p].file), KeyFor(p)))
    OBVIOUS
  <1>4. fires' = [fires EXCEPT ![p].copy = c, ![p].at = "write"]
    BY <1>3 DEF ReadFile
  <1>5. fires' = [fires EXCEPT ![p].at = "write", ![p].file = fires[p].file, ![p].copy = c]
    BY <1>2, <1>4 DEF FiresOK, Shape
  <1>6. PICK f \in Tallies : f = fires[p].file
    BY <1>2
  <1>7. fires' = [fires EXCEPT ![p].at = "write", ![p].file = f, ![p].copy = c]
    BY <1>5, <1>6
  <1>8. "write" \in Writing \cup {"read", "dedup", "send"}
    BY DEF Writing
  <1>9. /\ OthersStay(p) /\ Continues(p) /\ Active(p) /\ Active(p)'
        /\ fires'[p].at = "write" /\ fires'[p].file = f /\ fires'[p].copy = c
    BY <1>1, <1>7, <1>8, TallyGoesTo, ZenonT(60)
  <1> QED  BY <1>1, <1>3, <1>6, <1>9

LEMMA ReadFileEffects ==
    ASSUME FiresOK, PastOK, HappenedOK, NEW p \in Procs, ReadFile(p)
    PROVE  Effects(p)
  <1>1. /\ fires[p].at = "read"
        /\ OthersStay(p) /\ Continues(p) /\ Active(p) /\ Active(p)' /\ fires'[p].at = "write"
    BY ReadFileGoes
  <1>2. PICK a, b, c, d :
          past' = [past EXCEPT !.counted = a, !.fired = b, !.disturbed = c, !.evicted = d]
    <2>1. PICK k, b, c, d : past' = [past EXCEPT !.counted[fires[p].file] = k, !.fired = b,
                                                 !.disturbed = c, !.evicted = d]
      BY DEF ReadFile
    <2> QED  BY <2>1
  <1>3. /\ PastOK' /\ past'.scene = past.scene /\ past'.salts = past.salts
        /\ past'.ran = past.ran /\ past'.live = past.live /\ past'.crossed = past.crossed
    BY <1>2 DEF PastOK
  <1>4. MomentEffect(p)
    BY <1>1, SameMoment DEF ReadFile
  <1> QED
    BY <1>1, <1>3, <1>4 DEF ReadFile, Effects, Continues, SaltEffect, NameEffect, TrustEffect,
                            TallyEffect

LEMMA WriteFileEffects ==
    ASSUME FiresOK, PastOK, HappenedOK, NEW p \in Procs, WriteFile(p)
    PROVE  Effects(p) /\ Continues(p) /\ fires'[p].at = "rename"
           /\ fires'[p].file = fires[p].file /\ fires'[p].copy = fires[p].copy
  <1>1. fires[p].at = "write" /\ Goto(p, "rename")
    BY DEF WriteFile, At
  <1>2. fires[p].h \in Harnesses /\ fires[p].h \notin {None, "pair"} /\ fires[p].at # "idle"
    BY <1>1, AtWork DEF Writing
  <1>3. "rename" \in Handles \ AtNames
    BY DEF Handles, AtNames, Writing
  <1>4. /\ OthersStay(p) /\ Continues(p) /\ fires'[p].at = "rename"
        /\ fires'[p].file = fires[p].file /\ fires'[p].copy = fires[p].copy
    BY <1>1, <1>2, <1>3, GoesTo
  <1>5. MomentEffect(p)
    BY <1>2, <1>4, SameMoment DEF WriteFile
  <1> QED
    BY <1>4, <1>5 DEF WriteFile, Effects, Continues, SaltEffect, NameEffect, TrustEffect,
                      TallyEffect, PastOK

LEMMA RenameFileEffects ==
    ASSUME FiresOK, PastOK, HappenedOK, NEW p \in Procs, RenameFile(p)
    PROVE  /\ Effects(p) /\ fires[p].at = "rename" /\ fires'[p].at \notin Writing
           /\ fires'[p] = Idle \/ Continues(p)
  <1>1. fires[p].at = "rename"
    BY DEF RenameFile, At
  <1>2. /\ WorkerOK(fires[p]) /\ Active(p) /\ fires[p].file \in Tallies
    BY <1>1, AtWork DEF Writing, WorkerOK
  <1>3. CASE fires[p].file = "builds"
    <2>1. PICK l \in {"dedup", "read"} :
            l = IF shouldSendEventType(fires[p].ev.type) THEN "dedup" ELSE "read"
      OBVIOUS
    <2>2. PICK f \in Tallies :
            f = IF shouldSendEventType(fires[p].ev.type) THEN fires[p].file ELSE "filtered"
      BY <1>3 DEF Tallies
    <2>3. fires' = [fires EXCEPT ![p].copy = Empty, ![p].at = l, ![p].file = f]
      BY <1>2, <1>3, <2>1, <2>2 DEF RenameFile, AfterTally, FiresOK
    <2>4. fires' = [fires EXCEPT ![p].at = l, ![p].file = f, ![p].copy = Empty]
      BY <1>2, <2>3 DEF FiresOK, WorkerOK, Shape
    <2>5. OthersStay(p) /\ Continues(p) /\ Active(p)' /\ fires'[p].at \in {"dedup", "read"}
      BY <1>1, <2>4, TallyGoesTo DEF Writing
    <2>6. MomentEffect(p)
      BY <1>3, <2>5, <1>2, SameMoment DEF RenameFile, AfterTally, Active, At
    <2> QED
      BY <1>1, <2>5, <2>6 DEF RenameFile, Effects, Continues, SaltEffect, NameEffect,
                              TrustEffect, TallyEffect, PastOK, Writing
  <1>4. CASE fires[p].file # "builds"
    <2>1. EndsWell(p)
      BY <1>4 DEF RenameFile, AfterTally
    <2>2. OthersStay(p) /\ fires'[p] = Idle /\ MomentEffect(p)
      BY <1>2, <2>1, EndsWellMoment
    <2>3. UNCHANGED <<salt, names, past>>
      BY DEF RenameFile
    <2>4. fires'[p].at = "idle" /\ fires'[p].h \notin Harnesses
      BY <2>2 DEF Idle, Harnesses, None
    <2> QED
      BY <1>1, <2>2, <2>3, <2>4 DEF Effects, SaltEffect, NameEffect, TrustEffect, TallyEffect,
                                    PastOK, Writing
  <1> QED  BY <1>3, <1>4

LEMMA ReceiveEffects ==
    ASSUME FiresOK, PastOK, HappenedOK, NEW p \in Procs, Receive(p)
    PROVE  /\ Effects(p) /\ fires[p].at = "recv"
           /\ past' # past => <<Handler(p), fires[p].fire.arg>> \in past'.ran
           /\ past.ran \subseteq past'.ran
           /\ fires'[p].h \in Harnesses =>
                /\ fires'[p].h = Handler(p) /\ fires'[p].fire = fires[p].fire
                /\ <<Handler(p), fires[p].fire.arg>> \in past'.ran
  <1>1. /\ fires[p].at = "recv" /\ WorkerOK(fires[p]) /\ fires[p].h = None
        /\ Origin(fires[p]) /\ Shape(fires[p])
    BY Worker DEF Receive, At, WorkerOK, AtSalt, Pairs, Handles, AtNames, Writing
  <1>2. Active(p) /\ fires[p].at \notin Writing
    BY <1>1 DEF Active, At, None, Writing
  <1>3. UNCHANGED <<files, salt, names>>
    BY DEF Receive
  <1>4. PICK ran : /\ past.ran \subseteq ran
                   /\ past' = past \/ past' = [past EXCEPT !.ran = ran]
                   /\ ~Refused(p) => past' = [past EXCEPT !.ran = ran]
                                     /\ <<Handler(p), fires[p].fire.arg>> \in ran
    <2>1. CASE Refused(p)
      BY <2>1 DEF Receive
    <2>2. CASE ~Refused(p)
      <3>1. PICK ran : ran = past.ran \cup {<<Handler(p), fires[p].fire.arg>>}
        OBVIOUS
      <3>2. past' = [past EXCEPT !.ran = ran]
        BY <2>2, <3>1 DEF Receive
      <3> QED  BY <2>2, <3>1, <3>2
    <2> QED  BY <2>1, <2>2
  <1>5. /\ PastOK' /\ past'.scene = past.scene /\ past'.salts = past.salts
        /\ past'.live = past.live /\ past'.crossed = past.crossed
        /\ past'.counted = past.counted /\ past'.disturbed = past.disturbed
        /\ past'.evicted = past.evicted /\ past.ran \subseteq past'.ran
        /\ ~Refused(p) => <<Handler(p), fires[p].fire.arg>> \in past'.ran
    BY <1>4 DEF PastOK
  <1>6. Refused(p) => past' = past
    BY DEF Receive
  <1>7. CASE EndsWell(p)
    <2>1. OthersStay(p) /\ fires'[p] = Idle /\ MomentEffect(p)
      BY <1>2, <1>7, EndsWellMoment
    <2>2. fires'[p].at = "idle" /\ fires'[p].h \notin Harnesses
      BY <2>1 DEF Idle, Harnesses, None
    <2> QED
      BY <1>1, <1>2, <1>3, <1>5, <1>6, <2>1, <2>2
         DEF Effects, SaltEffect, NameEffect, TrustEffect, TallyEffect, Writing
  <1>8. CASE ~EndsWell(p)
    <2>1. ~Refused(p) /\ Mapped(p) # Unmapped /\ UNCHANGED <<happened, world>>
      BY <1>8 DEF Receive
    <2>2. PICK l \in {"name", "salt"} : l = IF Handler(p) = "claude" THEN "name" ELSE "salt"
      OBVIOUS
    <2>3. PICK h, e : h = Handler(p) /\ e = Mapped(p)
      OBVIOUS
    <2>4. PICK r : r = fires[p]
      OBVIOUS
    <2>5. PICK r2 : r2 = [r EXCEPT !.h = h, !.ev = e, !.at = l]
      OBVIOUS
    <2>6. fires' = [fires EXCEPT ![p] = r2]
      BY <1>8, <2>2, <2>3, <2>4, <2>5 DEF Receive, FiresOK
    <2>7. /\ Shape(r2) /\ r2.h = h /\ r2.at = l /\ r2.file = r.file /\ r2.n = r.n
          /\ r2.fire = r.fire /\ r2.session = r.session
      BY <1>1, <2>4, <2>5 DEF Shape
    <2>8. h \in Harnesses /\ (l = "name" => r.session \in Sessions)
      BY <1>1, <2>1, <2>2, <2>3, <2>4, Handled DEF Handler, Refused
    <2>9. l \in Handles \ (Writing \cup {"idle", "fill", "sweep", "drop"})
          /\ (l \in AtNames => l = "name") /\ r.file \in Tallies
      BY <1>1, <2>4 DEF Handles, AtNames, AtSalt, Writing, WorkerOK
    <2>10. OthersStay(p) /\ WorkerOK(r2) /\ fires'[p] = r2
      BY <1>1, <2>4, <2>6, <2>7, <2>8, <2>9, WorksAs
    <2>11. Active(p)'
      BY <2>7, <2>8, <2>9, <2>10 DEF Active, At, Harnesses
    <2>12. MomentEffect(p)
      BY <1>2, <2>1, <2>4, <2>7, <2>10, <2>11, MomentStays
    <2> QED
      BY <1>1, <1>2, <1>3, <1>5, <2>1, <2>3, <2>4, <2>7, <2>9, <2>10, <2>12
         DEF Effects, SaltEffect, NameEffect, TrustEffect, TallyEffect
  <1> QED  BY <1>7, <1>8

\* What the ledger and the sender leave alone.
LEMMA DeliveryStep ==
    ASSUME PastOK, NEW p \in Procs, fires[p].at \notin Writing,
           fires'[p] = Idle \/ (Continues(p) /\ fires'[p].at \in {"read", "send"}),
           Dedup(p) \/ Send(p), OthersStay(p), MomentEffect(p)
    PROVE  Effects(p)
  <1>1. UNCHANGED <<files, salt, names, past>>
    BY DEF Dedup, Send
  <1>2. fires'[p].at \notin Writing \cup {"fill", "sweep", "drop"}
    BY DEF Idle, Writing
  <1>3. fires'[p].h \in Harnesses => Continues(p)
    BY DEF Idle, Harnesses, None
  <1>4. fires'[p] = Idle \/ WorkerOK(fires'[p])
    BY DEF Continues
  <1> QED
    BY <1>1, <1>2, <1>3, <1>4 DEF Effects, SaltEffect, NameEffect, TrustEffect, TallyEffect, PastOK

LEMMA DedupEffects ==
    ASSUME FiresOK, PastOK, HappenedOK, NEW p \in Procs, Dedup(p)
    PROVE  Effects(p) /\ fires[p].at = "dedup" /\ (fires'[p] = Idle \/ Continues(p))
  <1>1. fires[p].at = "dedup" /\ fires[p].at \notin Writing
    BY DEF Dedup, At, Writing
  <1>2. /\ fires[p].h \in Harnesses /\ fires[p].h \notin {None, "pair"} /\ Active(p)
        /\ fires[p].at # "idle"
    BY <1>1, AtWork
  <1>3. PICK r : r = happened[fires[p].n]
    OBVIOUS
  <1>4. MomentRecord(r) /\ fires[p].n \in DOMAIN happened
    BY <1>2, <1>3 DEF HappenedOK
  <1>5. CASE Ends(p) /\ \E c : happened' = [MomentLeft(fires[p].n, happened)
                                              EXCEPT ![fires[p].n].clean = c]
    <2>1. PICK c : happened' = [MomentLeft(fires[p].n, happened) EXCEPT ![fires[p].n].clean = c]
      BY <1>5
    <2>2. PICK r1 : r1 = [r EXCEPT !.left = @ - 1]
      OBVIOUS
    <2>3. PICK r2 : r2 = [r1 EXCEPT !.clean = c]
      OBVIOUS
    <2>4. MomentRecord(r1) /\ r1.left = r.left - 1 /\ r1.beeps = r.beeps
      BY <1>4, <2>2, OneLess
    <2>5. MomentRecord(r2) /\ r2.left = r1.left /\ r2.beeps = r1.beeps
      BY <2>3, <2>4, Recleaned
    <2>6. happened' = [happened EXCEPT ![fires[p].n] = r2]
      BY <1>3, <1>4, <2>1, <2>2, <2>3 DEF MomentLeft
    <2>7. OthersStay(p) /\ fires'[p] = Idle
      BY <1>5, Replaced DEF Ends
    <2>8. r2.beeps <= r.beeps + 1
      BY <1>4, <2>4, <2>5 DEF MomentRecord
    <2>9. MomentEffect(p)
      BY <1>2, <1>3, <2>4, <2>5, <2>6, <2>7, <2>8, MomentEnds
    <2> QED  BY <1>1, <2>7, <2>9, DeliveryStep
  <1>6. CASE Goto(p, "send") /\ \E m, c : happened' = [happened EXCEPT ![fires[p].n].marks = m,
                                                                     ![fires[p].n].clean = c]
    <2>1. PICK m, c : happened' = [happened EXCEPT ![fires[p].n].marks = m,
                                                   ![fires[p].n].clean = c]
      BY <1>6
    <2>2. PICK r2 : r2 = [r EXCEPT !.marks = m, !.clean = c]
      OBVIOUS
    <2>3. MomentRecord(r2) /\ r2.left = r.left /\ r2.beeps = r.beeps
      BY <1>4, <2>2 DEF MomentRecord
    <2>4. happened' = [happened EXCEPT ![fires[p].n] = r2]
      BY <1>3, <1>4, <2>1, <2>2
    <2>5. "send" \in Handles \ AtNames
      BY DEF Handles, AtNames
    <2>6. OthersStay(p) /\ Continues(p) /\ fires'[p].at = "send"
      BY <1>2, <1>6, <2>5, GoesTo
    <2>7. Active(p)' /\ fires'[p].n = fires[p].n
      BY <1>2, <2>6 DEF Active, At, Continues
    <2>8. /\ HappenedOK' /\ DOMAIN happened' = DOMAIN happened
          /\ happened'[fires[p].n] = r2
          /\ \A n \in DOMAIN happened \ {fires[p].n} : Stays(n)
      BY <1>2, <2>3, <2>4, <2>6, <2>7, MomentTo
    <2>9. MomentEffect(p)
      BY <1>2, <1>3, <2>3, <2>7, <2>8 DEF MomentEffect, Stays
    <2> QED  BY <1>1, <2>6, <2>9, DeliveryStep
  <1> QED  BY <1>1, <1>5, <1>6 DEF Dedup

LEMMA SendEffects ==
    ASSUME FiresOK, PastOK, HappenedOK, NEW p \in Procs, Send(p)
    PROVE  Effects(p) /\ fires[p].at = "send" /\ (fires'[p] = Idle \/ Continues(p))
  <1>1. fires[p].at = "send" /\ fires[p].at \notin Writing
    BY DEF Send, At, Writing
  <1>2. /\ Active(p) /\ Shape(fires[p])
    BY <1>1, AtWork DEF WorkerOK
  <1>3. PICK r : r = happened[fires[p].n]
    OBVIOUS
  <1>4. MomentRecord(r) /\ fires[p].n \in DOMAIN happened /\ r.beeps \in Nat
    BY <1>2, <1>3 DEF HappenedOK, MomentRecord
  <1>5. CASE paired
    <2>1. PICK b \in Nat :
            /\ b <= r.beeps + 1
            /\ happened' = [MomentLeft(fires[p].n, happened) EXCEPT ![fires[p].n].beeps = b]
      <3>1. MomentLeft(fires[p].n, happened)[fires[p].n].beeps = r.beeps
        BY <1>3, <1>4 DEF MomentLeft, MomentRecord
      <3>2. CASE isNotifiableEventType(fires[p].ev.type)
        <4>1. happened' = [MomentLeft(fires[p].n, happened) EXCEPT ![fires[p].n].beeps = r.beeps + 1]
          BY <1>5, <3>1, <3>2 DEF Send
        <4> QED  BY <1>4, <4>1
      <3>3. CASE ~isNotifiableEventType(fires[p].ev.type)
        <4>1. happened' = [MomentLeft(fires[p].n, happened) EXCEPT ![fires[p].n].beeps = r.beeps]
          BY <1>5, <3>1, <3>3 DEF Send
        <4> QED  BY <1>4, <4>1
      <3> QED  BY <3>2, <3>3
    <2>2. PICK r1 : r1 = [r EXCEPT !.left = @ - 1]
      OBVIOUS
    <2>3. PICK r2 : r2 = [r1 EXCEPT !.beeps = b]
      OBVIOUS
    <2>4. MomentRecord(r1) /\ r1.left = r.left - 1
      BY <1>4, <2>2, OneLess
    <2>5. MomentRecord(r2) /\ r2.left = r1.left /\ r2.beeps = b
      BY <2>3, <2>4 DEF MomentRecord
    <2>6. happened' = [happened EXCEPT ![fires[p].n] = r2]
      BY <1>3, <1>4, <2>1, <2>2, <2>3 DEF MomentLeft
    <2>7. OthersStay(p) /\ fires'[p] = Idle
      BY <1>5, Replaced DEF Send, Ends
    <2>8. MomentEffect(p)
      BY <1>2, <1>3, <2>1, <2>4, <2>5, <2>6, <2>7, MomentEnds
    <2> QED  BY <1>1, <2>7, <2>8, DeliveryStep
  <1>6. CASE ~paired
    <2>1. PICK r2 : r2 = [r EXCEPT !.clean = FALSE]
      OBVIOUS
    <2>2. MomentRecord(r2) /\ r2.left = r.left /\ r2.beeps = r.beeps
      BY <1>4, <2>1 DEF MomentRecord
    <2>3. happened' = [happened EXCEPT ![fires[p].n] = r2]
      BY <1>3, <1>4, <1>6, <2>1 DEF Send
    <2>4. fires' = [fires EXCEPT ![p].at = "read", ![p].file = "missed", ![p].copy = fires[p].copy]
      BY <1>2, <1>6 DEF Send, FiresOK, Shape
    <2>5. PICK c : c = fires[p].copy
      OBVIOUS
    <2>6. "missed" \in Tallies
      BY DEF Tallies
    <2>7. OthersStay(p) /\ Continues(p) /\ Active(p)' /\ fires'[p].at = "read"
      BY <1>1, <2>4, <2>5, <2>6, TallyGoesTo, ZenonT(60)
    <2>8. fires'[p].n = fires[p].n
      BY <2>7 DEF Continues
    <2>9. /\ HappenedOK' /\ DOMAIN happened' = DOMAIN happened
          /\ happened'[fires[p].n] = r2
          /\ \A n \in DOMAIN happened \ {fires[p].n} : Stays(n)
      BY <1>2, <2>2, <2>3, <2>7, <2>8, MomentTo
    <2>10. MomentEffect(p)
      BY <1>2, <1>3, <2>2, <2>7, <2>8, <2>9 DEF MomentEffect, Stays
    <2> QED  BY <1>1, <2>7, <2>10, DeliveryStep
  <1> QED  BY <1>1, <1>5, <1>6

LEMMA StartPairEffects ==
    ASSUME FiresOK, PastOK, HappenedOK, NEW p \in Procs, StartPair(p)
    PROVE  Effects(p)
  <1>1. fires[p].at = "idle" /\ fires[p].at \notin Writing
    BY DEF StartPair, At, Writing
  <1>2. PICK r : r = [Process(0, Own("claude", "pair"), None, None, None, FALSE)
                        EXCEPT !.h = "pair", !.at = "salt"]
    OBVIOUS
  <1>3. Shape(r) /\ r.h = "pair" /\ r.at = "salt" /\ r.file = "builds"
    BY <1>2 DEF Process, Shape
  <1>4. WorkerOK(r)
    BY <1>3 DEF WorkerOK, AtSalt, AtNames, Tallies
  <1>5. OthersStay(p) /\ fires'[p] = r
    BY <1>2, Replaced DEF StartPair
  <1>6. PICK x : past' = [past EXCEPT !.pairings = x]
    BY DEF StartPair
  <1>7. /\ PastOK' /\ past'.scene = past.scene /\ past'.salts = past.salts
        /\ past'.ran = past.ran /\ past'.counted = past.counted
        /\ past'.disturbed = past.disturbed /\ past'.evicted = past.evicted
        /\ past'.live = past.live /\ past'.crossed = past.crossed
    BY <1>6 DEF PastOK
  <1>8. ~Active(p) /\ ~Active(p)'
    BY <1>1, <1>3, <1>5 DEF Active, At
  <1>9. MomentEffect(p)
    BY <1>5, <1>8, MomentStays DEF StartPair
  <1>10. fires'[p].at \notin Writing \cup {"fill", "sweep", "drop"} /\ fires'[p].h \notin Harnesses
    BY <1>3, <1>5 DEF Writing, Harnesses
  <1> QED
    BY <1>1, <1>4, <1>5, <1>7, <1>9, <1>10
       DEF StartPair, Effects, SaltEffect, NameEffect, TrustEffect, TallyEffect

LEMMA AtPair ==
    ASSUME FiresOK, NEW p \in Procs, fires[p].at \in Pairs
    PROVE  /\ fires[p].h = "pair" /\ ~Active(p)
           /\ fires[p].at \notin Writing \cup {"idle"}
  BY Worker DEF Pairs, WorkerOK, Received, Handles, AtNames, AtSalt, Writing, Active

LEMMA PairEnds ==
    ASSUME FiresOK, HappenedOK, NEW p \in Procs, ~Active(p), Ends(p), happened' = happened
    PROVE  /\ OthersStay(p) /\ fires'[p] = Idle /\ MomentEffect(p)
           /\ fires'[p].at = "idle" /\ fires'[p].h \notin Harnesses
  <1>1. OthersStay(p) /\ fires'[p] = Idle
    BY Replaced DEF Ends
  <1>2. ~Active(p)' /\ fires'[p].at = "idle" /\ fires'[p].h \notin Harnesses
    BY <1>1 DEF Idle, Active, At, Harnesses, None
  <1> QED  BY <1>1, <1>2, MomentStays

LEMMA FailPairEffects ==
    ASSUME FiresOK, PastOK, HappenedOK, NEW p \in Procs, FailPair(p)
    PROVE  Effects(p)
  <1>1. fires[p].at \in Pairs
    BY DEF FailPair, At, Pairs
  <1>2. /\ OthersStay(p) /\ fires'[p] = Idle /\ MomentEffect(p) /\ fires'[p].at = "idle"
    BY <1>1, AtPair, PairEnds DEF FailPair
  <1>3. fires[p].at \notin Writing /\ fires'[p].at \notin {"fill", "sweep", "drop"} \cup Writing
    BY <1>1, <1>2, AtPair DEF Writing
  <1> QED  BY <1>2, <1>3, Quiet DEF FailPair

LEMMA PersistEffects ==
    ASSUME FiresOK, PastOK, HappenedOK, NEW p \in Procs, PersistToken(p)
    PROVE  Effects(p)
  <1>1. fires[p].at \in Pairs /\ Goto(p, "clear")
    BY DEF PersistToken, At, Pairs
  <1>2. fires[p].h = "pair" /\ fires[p].at \notin Writing \cup {"idle"}
    BY <1>1, AtPair
  <1>3. OthersStay(p) /\ Continues(p) /\ fires'[p].at = "clear"
    BY <1>1, <1>2, GoesTo DEF Pairs, AtNames, Harnesses, None
  <1>4. MomentEffect(p)
    BY <1>2, <1>3, SameMoment DEF PersistToken
  <1> QED  BY <1>2, <1>3, <1>4, Quiet DEF PersistToken, Writing

LEMMA ClearMissedEffects ==
    ASSUME FiresOK, PastOK, HappenedOK, NEW p \in Procs, ClearMissed(p)
    PROVE  Effects(p) /\ fires'[p] = Idle /\ fires[p].at \notin Writing
  <1>1. fires[p].at \in Pairs
    BY DEF ClearMissed, At, Pairs
  <1>2. /\ OthersStay(p) /\ fires'[p] = Idle /\ MomentEffect(p)
        /\ fires'[p].at = "idle" /\ fires'[p].h \notin Harnesses
        /\ fires[p].at \notin Writing
    BY <1>1, AtPair, PairEnds DEF ClearMissed
  <1>3. PICK a, b : past' = [past EXCEPT !.counted["missed"] = a, !.disturbed = b]
    BY DEF ClearMissed
  <1>4. /\ PastOK' /\ past'.scene = past.scene /\ past'.salts = past.salts
        /\ past'.ran = past.ran /\ past'.live = past.live /\ past'.crossed = past.crossed
    BY <1>3 DEF PastOK
  <1> QED
    BY <1>2, <1>4 DEF ClearMissed, Effects, SaltEffect, NameEffect, TrustEffect, TallyEffect

LEMMA KillEffects ==
    ASSUME FiresOK, PastOK, HappenedOK, NEW p \in Procs, Kill(p)
    PROVE  Effects(p) /\ fires'[p] = Idle
  <1>1. fires[p].at # "idle"
    BY DEF Kill, At
  <1>2. OthersStay(p) /\ fires'[p] = Idle /\ MomentEffect(p)
    <2>1. CASE fires[p].h = "pair"
      BY <2>1, PairEnds DEF Kill, Active
    <2>2. CASE fires[p].h # "pair"
      <3>1. Active(p)
        BY <1>1, <2>2 DEF Active, At
      <3> QED  BY <2>2, <3>1, EndsBadlyMoment DEF Kill
    <2> QED  BY <2>1, <2>2
  <1>3. PICK a, b : past' = [past EXCEPT !.kills = a, !.disturbed = b]
    BY DEF Kill
  <1>4. /\ PastOK' /\ past'.scene = past.scene /\ past'.salts = past.salts
        /\ past'.ran = past.ran /\ past'.live = past.live /\ past'.crossed = past.crossed
    BY <1>3 DEF PastOK
  <1>5. fires'[p].at = "idle" /\ fires'[p].h \notin Harnesses
    BY <1>2 DEF Idle, Harnesses, None
  <1> QED
    BY <1>2, <1>4, <1>5 DEF Kill, Effects, SaltEffect, NameEffect, TrustEffect, TallyEffect

LEMMA StepEffects ==
    ASSUME FiresOK, PastOK, HappenedOK, NEW p \in Procs, Step(p)
    PROVE  Effects(p)
  BY DetachEffects, DropEffects, ReceiveEffects, UntitledEffects, RememberEffects, ListEffects,
     JudgeEffects, RemoveNameEffects, EndSweepEffects, ForgetEffects, LookupEffects,
     DropExpiredEffects, ReadSaltEffects, CreateSaltEffects, FillSaltEffects,
     RereadSaltEffects, ReadFileEffects, WriteFileEffects, RenameFileEffects, DedupEffects,
     SendEffects, StartPairEffects, FailPairEffects, PersistEffects, ClearMissedEffects,
     KillEffects DEF Step

-----------------------------------------------------------------------------
(* The salt.                                                               *)

LEMMA GoesAt ==
    ASSUME FiresOK, NEW p \in Procs, fires[p].at # "idle", NEW l, Goto(p, l)
    PROVE  fires'[p].at = l
  <1>1. Shape(fires[p])
    BY Worker
  <1>2. fires' = [fires EXCEPT ![p] = [fires[p] EXCEPT !.at = l]]
    BY DEF Goto, FiresOK
  <1>3. PICK r : r = fires[p]
    OBVIOUS
  <1>4. [r EXCEPT !.at = l].at = l
    BY <1>1, <1>3 DEF Shape
  <1> QED  BY <1>2, <1>3, <1>4 DEF FiresOK

LEMMA Reserved == \A p \in Procs : Written(p)
  BY RecordsAssumption DEF Written

LEMMA SaltOthers ==
    ASSUME SaltInv, NEW p \in Procs, OthersStay(p), fires'[p].at # "fill",
           salt' \in {"absent", "blank", Former} \cup Procs,
           \A x \in past'.salts : x = salt' /\ Written(x),
           salt' = salt \/ \A q \in Procs \ {p} : ~At(q, "fill")
    PROVE  SaltInv'
  <1>1. ASSUME NEW q \in Procs, At(q, "fill")' PROVE At(q, "fill") /\ q # p /\ salt' = salt
    BY <1>1 DEF At, OthersStay
  <1> QED  BY <1>1 DEF SaltInv, Written

LEMMA SaltKept ==
    ASSUME FiresOK, PastOK, SaltInv, NEW p \in Procs, Effects(p)
    PROVE  SaltInv'
  <1> USE DEF Effects
  <1>1. CASE salt' = salt /\ past'.salts = past.salts /\ fires'[p].at # "fill"
    BY <1>1, SaltOthers DEF SaltInv
  <1>2. CASE readSalt(p)
    <2>1. fires[p].at # "idle" /\ salt' = salt
      BY <1>2 DEF readSalt, At
    <2>2. CASE Salted(p, salt, TRUE) /\ Written(salt)
      <3>1. Goto(p, SaltLabel(p, TRUE)) /\ past'.salts = past.salts \cup {salt}
        BY <2>2 DEF Salted, SaltLabel, PastOK
      <3>2. fires'[p].at = SaltLabel(p, TRUE)
        BY <2>1, <3>1, GoesAt
      <3>3. fires'[p].at # "fill"
        BY <3>2 DEF SaltLabel
      <3> QED  BY <2>1, <2>2, <3>1, <3>3, SaltOthers DEF SaltInv
    <2>3. CASE Goto(p, "create") /\ UNCHANGED past
      BY <2>1, <2>3, GoesAt, SaltOthers DEF SaltInv
    <2> QED  BY <1>2, <2>2, <2>3 DEF readSalt
  <1>3. CASE createSalt(p)
    <2>1. fires[p].at # "idle" /\ past' = past
      BY <1>3 DEF createSalt, At
    <2>2. CASE salt = "absent"
      <3>1. salt' = "blank" /\ fires'[p].at = "fill"
        BY <1>3, <2>1, <2>2, GoesAt DEF createSalt
      <3>2. past'.salts = {}
        BY <2>1, <2>2 DEF SaltInv, Written
      <3>3. \A q \in Procs : At(q, "fill")' => q = p
        BY <2>2 DEF SaltInv, At, OthersStay
      <3> QED  BY <3>1, <3>2, <3>3 DEF SaltInv
    <2>3. CASE salt # "absent"
      <3>1. salt' = salt /\ fires'[p].at = "reread"
        BY <1>3, <2>1, <2>3, GoesAt DEF createSalt
      <3> QED  BY <2>1, <3>1, SaltOthers DEF SaltInv
    <2> QED  BY <2>2, <2>3
  <1>4. CASE fillSalt(p)
    <2>1. fires[p].at # "idle" /\ salt' = p /\ Salted(p, p, TRUE) /\ At(p, "fill")
      BY <1>4 DEF fillSalt, At
    <2>2. Goto(p, SaltLabel(p, TRUE)) /\ past'.salts = past.salts \cup {p}
      BY <2>1 DEF Salted, SaltLabel, PastOK
    <2>3. past.salts = {}
      BY <2>1 DEF SaltInv, Written
    <2>4. fires'[p].at # "fill"
      BY <2>1, <2>2, GoesAt DEF SaltLabel
    <2> QED  BY <2>1, <2>2, <2>3, <2>4, Reserved, SaltOthers DEF SaltInv
  <1>5. CASE rereadSalt(p)
    <2>1. fires[p].at # "idle" /\ salt' = salt
      BY <1>5 DEF rereadSalt, At
    <2>2. PICK kept \in BOOLEAN : kept = Written(salt)
      BY DEF Written
    <2>3. Goto(p, SaltLabel(p, kept))
          /\ past'.salts = IF kept THEN past.salts \cup {salt} ELSE past.salts
      BY <1>5, <2>2 DEF rereadSalt, Salted, SaltLabel, PastOK
    <2>4. fires'[p].at # "fill"
      BY <2>1, <2>3, GoesAt DEF SaltLabel
    <2> QED  BY <2>1, <2>2, <2>3, <2>4, SaltOthers DEF SaltInv
  <1> QED  BY <1>1, <1>2, <1>3, <1>4, <1>5 DEF SaltEffect

-----------------------------------------------------------------------------
(* The session names.                                                      *)

\* Who may be removed next.
Removing(p, s) ==
    \/ At(p, "sweep") /\ s = fires[p].expired
    \/ At(p, "drop") /\ s = fires[p].session

LEMMA NameInvIs ==
    NameInv <=>
      /\ names \in [Sessions -> {"none", "old", "new"}] /\ past.live \subseteq Sessions
      /\ \A s \in past.live \ past.crossed :
           names[s] = "new" /\ \A p \in Procs : ~Removing(p, s)
  BY DEF NameInv, NamesKept, Removing

LEMMA NameInvPrimed ==
    NameInv' <=>
      /\ names' \in [Sessions -> {"none", "old", "new"}] /\ past'.live \subseteq Sessions
      /\ \A s \in past'.live \ past'.crossed :
           names'[s] = "new" /\ \A p \in Procs : ~Removing(p, s)'
  BY DEF NameInv, NamesKept, Removing

LEMMA OthersRemove ==
    ASSUME NEW p \in Procs, OthersStay(p), NEW q \in Procs \ {p}, NEW s
    PROVE  Removing(q, s)' <=> Removing(q, s)
  BY DEF OthersStay, Removing, At

LEMMA NameKept ==
    ASSUME FiresOK, PastOK, NameInv, NEW p \in Procs, Effects(p)
    PROVE  NameInv'
  <1>1. OthersStay(p)
    BY DEF Effects
  <1>2. CASE /\ names' = names /\ past'.live = past.live /\ past'.crossed = past.crossed
             /\ fires'[p].at \notin {"sweep", "drop"}
    <2>1. \A s : ~Removing(p, s)'
      BY <1>2 DEF Removing, At
    <2> QED  BY <1>1, <1>2, <2>1, OthersRemove, NameInvIs, NameInvPrimed
  <1>3. CASE remember(p)
    <2>1. PICK s : s = fires[p].session
      OBVIOUS
    <2>2. fires[p].at = "name" /\ fires[p].at # "idle"
      BY <1>3 DEF remember, SessionStarts, At
    <2>3. s \in Sessions
      BY <2>1, <2>2, Worker DEF WorkerOK, AtNames
    <2>4. names' = [names EXCEPT ![s] = "new"] /\ past'.live = past.live \cup {s}
          /\ past'.crossed = IF Crossing(p, s) THEN past.crossed \cup {s} ELSE past.crossed \ {s}
      BY <1>3, <2>1 DEF remember, PastOK
    <2>5. fires'[p].at = "list"
      BY <1>3, <2>2, GoesAt DEF remember
    <2>6. \A x : ~Removing(p, x)'
      BY <2>5 DEF Removing, At
    <2>7. \A q \in Procs \ {p} : Removing(q, s) => Crossing(p, s)
      BY DEF Removing, Crossing
    <2>8. names' \in [Sessions -> {"none", "old", "new"}] /\ past'.live \subseteq Sessions
      BY <2>3, <2>4, NameInvIs
    <2>9. ASSUME NEW x \in past'.live \ past'.crossed
          PROVE  names'[x] = "new" /\ \A q \in Procs : ~Removing(q, x)'
      <3>1. CASE x = s
        <4>1. names'[x] = "new"
          BY <2>3, <2>4, <3>1, NameInvIs
        <4>2. ~Crossing(p, s)
          BY <2>4, <2>9, <3>1
        <4> QED  BY <1>1, <2>6, <2>7, <3>1, <4>1, <4>2, OthersRemove
      <3>2. CASE x # s
        <4>1. x \in past.live \ past.crossed
          BY <2>4, <2>9, <3>2
        <4>2. names'[x] = names[x]
          BY <2>4, <3>2, <4>1, NameInvIs
        <4> QED  BY <1>1, <2>6, <4>1, <4>2, OthersRemove, NameInvIs
      <3> QED  BY <3>1, <3>2
    <2> QED  BY <2>8, <2>9, NameInvPrimed
  <1>4. CASE \E s \in Sessions : JudgeName(p, s)
    <2>1. PICK s \in Sessions : JudgeName(p, s)
      BY <1>4
    <2>2. names' = names /\ past' = past
      BY <2>1 DEF JudgeName
    <2>3. fires'[p].at = (IF names[s] = "new" THEN "judge" ELSE "sweep") /\ fires'[p].expired = s
      BY <2>1, JudgeGoesTo
    <2>4. \A x \in past.live \ past.crossed : ~Removing(p, x)'
      BY <2>3, NameInvIs DEF Removing, At
    <2> QED  BY <1>1, <2>2, <2>4, OthersRemove, NameInvIs, NameInvPrimed
  <1>5. CASE RemoveName(p)
    <2>1. fires[p].at = "sweep" /\ fires[p].at # "idle"
      BY <1>5 DEF RemoveName, At
    <2>2. names' = [names EXCEPT ![fires[p].expired] = "none"] /\ past' = past
      BY <1>5 DEF RemoveName
    <2>3. fires'[p].at = "judge"
      <3>1. Shape(fires[p])
        BY <2>1, Worker
      <3>2. fires' = [fires EXCEPT ![p].at = "judge", ![p].todo = fires[p].todo, ![p].expired = None]
        BY <1>5, <3>1 DEF RemoveName, FiresOK, Shape
      <3> QED  BY <2>1, <3>2, SweepGoesTo DEF AtNames
    <2>4. \A x : ~Removing(p, x)'
      BY <2>3 DEF Removing, At
    <2>5. \A x \in past.live \ past.crossed : x # fires[p].expired
      BY <2>1, NameInvIs DEF Removing, At
    <2>6. names' \in [Sessions -> {"none", "old", "new"}]
          /\ \A x \in past.live \ past.crossed : names'[x] = "new"
      BY <2>2, <2>5, NameInvIs
    <2> QED  BY <1>1, <2>2, <2>4, <2>6, OthersRemove, NameInvIs, NameInvPrimed
  <1>6. CASE forget(p)
    <2>1. fires[p].at # "idle" /\ Goto(p, "salt")
      BY <1>6 DEF forget, At
    <2>2. names' = [names EXCEPT ![fires[p].session] = "none"]
          /\ past'.live = past.live \ {fires[p].session} /\ past'.crossed = past.crossed
      BY <1>6 DEF forget, PastOK
    <2>3. \A x : ~Removing(p, x)'
      BY <2>1, GoesAt DEF Removing, At
    <2>4. names' \in [Sessions -> {"none", "old", "new"}]
          /\ \A x \in past'.live \ past'.crossed : names'[x] = "new" /\ x \in past.live \ past.crossed
      BY <2>2, NameInvIs
    <2>5. past'.live \subseteq Sessions
      BY <2>2, NameInvIs
    <2> QED  BY <1>1, <2>2, <2>3, <2>4, <2>5, OthersRemove, NameInvIs, NameInvPrimed
  <1>7. CASE lookup(p)
    <2>1. PICK l \in {"drop", "salt"} :
            Goto(p, l) /\ (l = "drop" => names[fires[p].session] = "old")
      BY <1>7 DEF lookup
    <2>2. fires[p].at = "name" /\ names' = names /\ past' = past
      BY <1>7 DEF lookup, At
    <2>3. fires'[p].at = l /\ fires'[p].session = fires[p].session
      BY <2>1, <2>2, NameGoesTo DEF AtNames, Continues
    <2>4. \A x \in past.live \ past.crossed : ~Removing(p, x)'
      BY <2>1, <2>3, NameInvIs DEF Removing, At
    <2> QED  BY <1>1, <2>2, <2>4, OthersRemove, NameInvIs, NameInvPrimed
  <1>8. CASE DropExpired(p)
    <2>1. fires[p].at = "drop" /\ fires[p].at # "idle" /\ Goto(p, "salt") /\ past' = past
          /\ names' = [names EXCEPT ![fires[p].session] = "none"]
      BY <1>8 DEF DropExpired, At
    <2>2. \A x : ~Removing(p, x)'
      BY <2>1, GoesAt DEF Removing, At
    <2>3. \A x \in past.live \ past.crossed : x # fires[p].session
      BY <2>1, NameInvIs DEF Removing, At
    <2>4. names' \in [Sessions -> {"none", "old", "new"}]
          /\ \A x \in past.live \ past.crossed : names'[x] = "new"
      BY <2>1, <2>3, NameInvIs
    <2> QED  BY <1>1, <2>1, <2>2, <2>4, OthersRemove, NameInvIs, NameInvPrimed
  <1> QED  BY <1>2, <1>3, <1>4, <1>5, <1>6, <1>7, <1>8 DEF Effects, NameEffect

-----------------------------------------------------------------------------
(* The trust.                                                              *)

LEMMA SeenTyped ==
    ASSUME world \in [Harnesses -> Worlds], NEW p, NEW h \in Harnesses, NEW o, Seen(p, h, o)
    PROVE  /\ world' \in [Harnesses -> Worlds]
           /\ \A x \in Harnesses : world'[x].status # world[x].status => x = h /\ Proves(p, h, o)
  <1>1. CASE world' = world
    BY <1>1
  <1>2. CASE world' # world
    <2>1. Proves(p, h, o) /\ world' = [world EXCEPT ![h].status = "installed"]
      BY <1>2 DEF Seen
    <2>2. PICK w : w = world[h]
      OBVIOUS
    <2>3. PICK w2 : w2 = [w EXCEPT !.status = "installed"]
      OBVIOUS
    <2>4. w \in Worlds
      BY <2>2
    <2>5. w2 \in Worlds
      BY <2>3, <2>4 DEF Worlds, INTEGRATION_STATUSES
    <2>6. world' = [world EXCEPT ![h] = w2]
      BY <2>1, <2>2, <2>3
    <2> QED  BY <2>1, <2>5, <2>6
  <1> QED  BY <1>1, <1>2

LEMMA Earned ==
    ASSUME TrustInv, NEW p, NEW h \in Harnesses, NEW o, Seen(p, h, o), Origin(fires[p]),
           <<h, fires[p].fire.arg>> \in past'.ran, past.ran \subseteq past'.ran,
           past'.scene = past.scene
    PROVE  world' \in [Harnesses -> Worlds] /\ TrustIsEarned'
  <1>1. /\ world' \in [Harnesses -> Worlds]
        /\ \A x \in Harnesses : world'[x].status # world[x].status => x = h /\ Proves(p, h, o)
    BY SeenTyped DEF TrustInv
  <1>2. Proves(p, h, o) /\ h = "codex" => fires[p].fire.arg # "notify"
    <2>1. fires[p].fire.arg = "notify" => fires[p].fire.payload.key = "type"
      BY Handled
    <2>2. Proves(p, "codex", o) => fires[p].fire.payload.key = "hook_event_name"
      BY DEF Proves, ProvesTrust, isCodexLifecycleHookPayload, HookNamed
    <2> QED  BY <2>1, <2>2
  <1>3. ASSUME NEW x \in Pending, world'[x].status = "installed"
        PROVE  \E y \in past'.ran : y[1] = x /\ (x = "codex" => y[2] # "notify")
    <2>1. x \in Harnesses
      BY DEF Pending
    <2>2. CASE world'[x].status = world[x].status
      BY <1>3, <2>2 DEF TrustInv, TrustIsEarned
    <2>3. CASE world'[x].status # world[x].status
      <3>1. x = h /\ (x = "codex" => fires[p].fire.arg # "notify")
        BY <1>1, <1>2, <2>1, <2>3
      <3> QED  BY <3>1
    <2> QED  BY <2>2, <2>3
  <1>4. Pending' = Pending
    BY DEF Pending
  <1> QED  BY <1>1, <1>3, <1>4 DEF TrustIsEarned

LEMMA TrustKept ==
    ASSUME FiresOK, PastOK, HappenedOK, TrustInv, NEW p \in Procs, Effects(p)
    PROVE  TrustInv'
  <1>1. OthersStay(p) /\ past'.scene = past.scene
    BY DEF Effects
  <1>2. past.ran \subseteq past'.ran
    BY ReceiveEffects DEF Effects, TrustEffect
  <1>3. ASSUME NEW q \in Procs, fires'[q].h \in Harnesses
        PROVE  <<fires'[q].h, fires'[q].fire.arg>> \in past'.ran
    <2>1. CASE q # p
      BY <1>1, <1>2, <1>3, <2>1 DEF OthersStay, TrustInv
    <2>2. CASE q = p /\ Continues(p)
      BY <1>2, <1>3, <2>2 DEF Continues, TrustInv
    <2>3. CASE q = p /\ Receive(p)
      BY <1>3, <2>3, ReceiveEffects
    <2> QED  BY <1>3, <2>1, <2>2, <2>3 DEF Effects, TrustEffect
  <1>4. world' \in [Harnesses -> Worlds] /\ TrustIsEarned'
    <2>1. CASE world' = world
      <3>1. Pending' = Pending
        BY <1>1 DEF Pending
      <3> QED  BY <1>2, <2>1, <3>1 DEF TrustInv, TrustIsEarned
    <2>2. CASE Receive(p) /\ world' # world
      <3>1. fires[p].at = "recv" /\ Origin(fires[p])
        BY <2>2, Worker DEF Receive, At, WorkerOK, AtSalt, Pairs
      <3>2. ~Refused(p) /\ Seen(p, Handler(p), "skipped")
        BY <2>2 DEF Receive
      <3>3. past' = [past EXCEPT !.ran = @ \cup {<<Handler(p), fires[p].fire.arg>>}]
        BY <2>2, <3>2 DEF Receive
      <3>4. <<Handler(p), fires[p].fire.arg>> \in past'.ran
        BY <3>3 DEF PastOK
      <3>5. Handler(p) \in Harnesses
        BY <3>1, Handled DEF Handler
      <3> QED  BY <1>1, <1>2, <3>1, <3>2, <3>4, <3>5, Earned
    <2>3. CASE (RenameFile(p) \/ Dedup(p) \/ Send(p)) /\ world' # world
      <3>1. fires[p].at \in {"rename", "dedup", "send"}
        BY <2>3 DEF RenameFile, Dedup, Send, At
      <3>2. fires[p].h \in Harnesses /\ Origin(fires[p])
        BY <3>1, AtWork DEF Writing
      <3>3. \E o \in {"filtered", "unpaired", "deduped", "delivered"} : Seen(p, fires[p].h, o)
        BY <2>3 DEF RenameFile, AfterTally, Dedup, Send
      <3>4. <<fires[p].h, fires[p].fire.arg>> \in past'.ran
        BY <1>2, <3>2 DEF TrustInv
      <3>5. PICK h \in Harnesses : h = fires[p].h
        BY <3>2
      <3>6. PICK o : Seen(p, h, o)
        BY <3>3, <3>5
      <3> QED  BY <1>1, <1>2, <3>2, <3>4, <3>5, <3>6, Earned
    <2> QED  BY <2>1, <2>2, <2>3 DEF Effects, TrustEffect
  <1> QED  BY <1>3, <1>4 DEF TrustInv

-----------------------------------------------------------------------------
(* The moments.                                                            *)

LEMMA MomentKept ==
    ASSUME HappenedOK, MomentInv, NEW p \in Procs, OthersStay(p), MomentEffect(p)
    PROVE  MomentInv'
  <1>1. \A q \in Procs \ {p} : (Active(q)' <=> Active(q)) /\ fires'[q].n = fires[q].n
    BY DEF OthersStay, Active, At
  <1>2. DOMAIN happened' = DOMAIN happened
    BY DEF MomentEffect
  <1>3. CASE /\ Active(p)' <=> Active(p)
             /\ Active(p) => fires'[p].n = fires[p].n
             /\ \A n \in DOMAIN happened : Stays(n)
    <2>1. \A n : Running(n)' = Running(n)
      BY <1>1, <1>3 DEF Running
    <2> QED  BY <1>2, <1>3, <2>1 DEF MomentInv, Stays
  <1>4. CASE /\ Active(p) /\ fires'[p] = Idle
             /\ \A n \in DOMAIN happened \ {fires[p].n} : Stays(n)
             /\ happened'[fires[p].n].left = happened[fires[p].n].left - 1
             /\ happened'[fires[p].n].beeps <= happened[fires[p].n].beeps + 1
    <2>1. ~Active(p)'
      BY <1>4 DEF Active, At, Idle
    <2>2. PICK n \in DOMAIN happened : n = fires[p].n
      BY <1>4 DEF HappenedOK
    <2>3. Running(n)' = Running(n) \ {p} /\ p \in Running(n)
      BY <1>1, <1>4, <2>1, <2>2 DEF Running
    <2>4. IsFiniteSet(Running(n)') /\ Cardinality(Running(n)') = Cardinality(Running(n)) - 1
      BY <2>2, <2>3, FS_RemoveElement DEF MomentInv
    <2>5. happened'[n].left + happened'[n].beeps <= 2
      <3>1. /\ happened[n].left \in Int /\ happened[n].beeps \in Int
            /\ happened'[n].beeps \in Int /\ happened[n].left + happened[n].beeps <= 2
        <4>1. MomentRecord(happened[n]) /\ MomentRecord(happened'[n])
          BY <1>2, <2>2 DEF HappenedOK, MomentEffect
        <4>2. \A r : MomentRecord(r) => r.left \in Int /\ r.beeps \in Int
          BY DEF MomentRecord
        <4> QED  BY <2>2, <4>1, <4>2 DEF MomentInv
      <3> QED  BY <1>4, <2>2, <3>1
    <2>6. \A m \in DOMAIN happened \ {n} : Running(m)' = Running(m)
      BY <1>1, <2>1, <2>2 DEF Running
    <2>7. ASSUME NEW m \in DOMAIN happened'
          PROVE  /\ happened'[m].left + happened'[m].beeps <= 2
                 /\ IsFiniteSet(Running(m)') /\ Cardinality(Running(m)') = happened'[m].left
      <3>1. CASE m = n
        BY <1>4, <2>2, <2>4, <2>5, <3>1 DEF MomentInv
      <3>2. CASE m # n
        BY <1>2, <1>4, <2>2, <2>6, <3>2 DEF MomentInv, Stays
      <3> QED  BY <3>1, <3>2
    <2> QED  BY <2>7 DEF MomentInv
  <1> QED  BY <1>3, <1>4 DEF MomentEffect

-----------------------------------------------------------------------------
(* The tallies.                                                            *)

LEMMA AddedTo ==
    ASSUME NEW map, Positive(map), NEW k
    PROVE  /\ DOMAIN Added(map, k) = DOMAIN map \cup {k}
           /\ \A x \in DOMAIN map \ {k} : Added(map, k)[x] = map[x]
           /\ Added(map, k)[k].count = CountIn(map, k) + 1
           /\ CountIn(map, k) \in Nat /\ Positive(Added(map, k))
  <1>1. CountIn(map, k) \in Nat
    BY DEF CountIn, Positive
  <1>2. PICK m, l : m = Added(map, k) /\ l = 1 + Last(map)
    OBVIOUS
  <1>3. /\ DOMAIN m = DOMAIN map \cup {k}
        /\ \A x \in DOMAIN map \ {k} : m[x] = map[x]
        /\ m[k] = [count |-> CountIn(map, k) + 1, last |-> l]
    BY <1>2 DEF Added
  <1>4. m[k].count = CountIn(map, k) + 1
    BY <1>3
  <1>5. Positive(m)
    BY <1>1, <1>3, <1>4 DEF Positive
  <1> QED  BY <1>1, <1>2, <1>3, <1>4, <1>5

LEMMA CappedTo ==
    ASSUME NEW p, NEW map, Positive(map)
    PROVE  /\ DOMAIN Capped(p, map) \subseteq DOMAIN map
           /\ \A x \in DOMAIN Capped(p, map) : Capped(p, map)[x] = map[x]
           /\ Positive(Capped(p, map))
           /\ fires[p].file # "builds" => Capped(p, map) = map
  <1>1. CASE fires[p].file = "builds"
    <2>1. PICK D : D \subseteq DOMAIN map /\ Capped(p, map) = [k \in D |-> map[k]]
      BY <1>1 DEF Capped, capBuilds, BuildsOf
    <2> QED  BY <1>1, <2>1 DEF Positive
  <1>2. CASE fires[p].file # "builds"
    BY <1>2 DEF Capped, Positive
  <1> QED  BY <1>1, <1>2

LEMMA TalliedTo ==
    ASSUME NEW counts, Natural(counts), NEW k
    PROVE  /\ DOMAIN Tallied(counts, k) = DOMAIN counts \cup {k}
           /\ \A x \in DOMAIN counts \ {k} : Tallied(counts, k)[x] = counts[x]
           /\ Tallied(counts, k)[k] = (IF k \in DOMAIN counts THEN counts[k] ELSE 0) + 1
           /\ Natural(Tallied(counts, k))
  BY DEF Tallied, Natural

\* One more of k, in the tally and in the count of what took place.
LEMMA CountsTallied ==
    ASSUME NEW map, Positive(map), NEW k
    PROVE  Counts(Added(map, k)) = Tallied(Counts(map), k)
  <1>1. /\ DOMAIN Added(map, k) = DOMAIN map \cup {k}
        /\ \A x \in DOMAIN map \ {k} : Added(map, k)[x] = map[x]
        /\ Added(map, k)[k].count = CountIn(map, k) + 1
    BY AddedTo
  <1>2. /\ DOMAIN Counts(map) = DOMAIN map
        /\ \A x \in DOMAIN map : Counts(map)[x] = map[x].count /\ map[x].count \in Nat
    BY DEF Counts, Positive
  <1>3. ASSUME NEW x \in DOMAIN map \cup {k}
        PROVE  Added(map, k)[x].count
                = (IF x \in DOMAIN Counts(map) THEN Counts(map)[x] ELSE 0) + (IF x = k THEN 1 ELSE 0)
    BY <1>1, <1>2 DEF CountIn
  <1>4. Counts(Added(map, k)) = [x \in DOMAIN map \cup {k} |-> Added(map, k)[x].count]
    BY <1>1 DEF Counts
  <1> QED  BY <1>2, <1>3, <1>4 DEF Tallied

LEMMA BoundedTallied ==
    ASSUME NEW map, Positive(map), NEW counts, Natural(counts), Bounded(map, counts), NEW k
    PROVE  Bounded(map, Tallied(counts, k)) /\ Bounded(Added(map, k), Tallied(counts, k))
  <1>1. PICK m, t : m = Added(map, k) /\ t = Tallied(counts, k)
    OBVIOUS
  <1>2. /\ DOMAIN m = DOMAIN map \cup {k}
        /\ \A x \in DOMAIN map \ {k} : m[x] = map[x]
        /\ m[k].count = CountIn(map, k) + 1
    BY <1>1, AddedTo
  <1>3. /\ DOMAIN t = DOMAIN counts \cup {k}
        /\ \A x \in DOMAIN counts \ {k} : t[x] = counts[x]
        /\ t[k] = (IF k \in DOMAIN counts THEN counts[k] ELSE 0) + 1
    BY <1>1, TalliedTo, ZenonT(60)
  <1>4. /\ \A x \in DOMAIN map : map[x].count \in Nat
        /\ \A x \in DOMAIN counts : counts[x] \in Nat
        /\ \A x \in DOMAIN map : x \in DOMAIN counts /\ map[x].count <= counts[x]
    BY DEF Positive, Natural, Bounded
  <1>5. \A x \in DOMAIN map : x \in DOMAIN t /\ map[x].count <= t[x]
    BY <1>3, <1>4
  <1>6. m[k].count <= t[k]
    BY <1>2, <1>3, <1>4 DEF CountIn
  <1>7. \A x \in DOMAIN m : x \in DOMAIN t /\ m[x].count <= t[x]
    BY <1>2, <1>3, <1>5, <1>6
  <1> QED  BY <1>1, <1>5, <1>7 DEF Bounded

LEMMA InsideOthers ==
    ASSUME NEW p \in Procs, OthersStay(p), NEW q \in Procs \ {p}, NEW f
    PROVE  /\ Inside(q, f)' <=> Inside(q, f)
           /\ fires'[q].copy = fires[q].copy /\ (At(q, "rename")' <=> At(q, "rename"))
           /\ fires'[q].at = fires[q].at
  BY DEF OthersStay, Inside, At

\* A tally whose files and counts stay, where the process is not at work.
LEMMA TallyStays ==
    ASSUME NEW p \in Procs, OthersStay(p), NEW f, Undisturbed(f),
           files'[f] = files[f], past'.counted[f] = past.counted[f],
           f = "builds" => (past'.evicted <=> past.evicted),
           ~Inside(p, f), ~Inside(p, f)'
    PROVE  Undisturbed(f)'
  <1>1. \A q \in Procs : Inside(q, f)' => q # p /\ Inside(q, f) /\ fires'[q].copy = fires[q].copy
                                          /\ (At(q, "rename")' <=> At(q, "rename"))
    BY InsideOthers
  <1>2. Settled(f)' => Settled(f)
    BY InsideOthers DEF Settled
  <1>3. ReadTally(f)' = ReadTally(f)
    BY DEF ReadTally
  <1>4. \A map : (Within(map, f) => Within(map, f)') /\ (Whole(map, f) => Whole(map, f)')
    BY DEF Within, Whole
  <1> QED  BY <1>1, <1>2, <1>3, <1>4 DEF Undisturbed

\* A record of a tally changes to r, or nothing does.
LEMMA Recorded ==
    ASSUME FilesOK, NEW f \in Tallies, NEW x
    PROVE  /\ [files EXCEPT ![f].now = x] = [files EXCEPT ![f] = [now |-> x, tmp |-> files[f].tmp]]
           /\ [files EXCEPT ![f].tmp = x] = [files EXCEPT ![f] = [now |-> files[f].now, tmp |-> x]]
  <1>1. PICK r : r = files[f]
    OBVIOUS
  <1>2. r \in [now : {r.now}, tmp : {r.tmp}]
    BY <1>1 DEF FilesOK
  <1>3. /\ [r EXCEPT !.now = x] = [now |-> x, tmp |-> r.tmp]
        /\ [r EXCEPT !.tmp = x] = [now |-> r.now, tmp |-> x]
    BY <1>2
  <1>4. /\ [files EXCEPT ![f].now = x] = [files EXCEPT ![f] = [r EXCEPT !.now = x]]
        /\ [files EXCEPT ![f].tmp = x] = [files EXCEPT ![f] = [r EXCEPT !.tmp = x]]
    BY <1>1
  <1> QED  BY <1>1, <1>3, <1>4

LEMMA FilesKept ==
    ASSUME FilesOK, NEW p \in Procs, OthersStay(p), NEW f \in Tallies,
           NEW now, NEW tmp, Positive(now.map), Positive(tmp.map),
           files' = files \/ files' = [files EXCEPT ![f] = [now |-> now, tmp |-> tmp]],
           NEW counts, Natural(counts),
           past'.counted = past.counted \/ past'.counted = [past.counted EXCEPT ![f] = counts],
           fires'[p].at \in Writing => Positive(fires'[p].copy)
    PROVE  FilesOK'
  <1>1. PICK r : r = [now |-> now, tmp |-> tmp]
    OBVIOUS
  <1>2. r \in [now : {r.now}, tmp : {r.tmp}] /\ Positive(r.now.map) /\ Positive(r.tmp.map)
    BY <1>1
  <1>3. /\ files' \in [Tallies -> {files'[g] : g \in Tallies}]
        /\ \A g \in Tallies : files'[g] = files[g] \/ files'[g] = r
    BY <1>1 DEF FilesOK
  <1>4. /\ past'.counted \in [Tallies -> {past'.counted[g] : g \in Tallies}]
        /\ \A g \in Tallies : past'.counted[g] = past.counted[g] \/ past'.counted[g] = counts
    BY DEF FilesOK
  <1>5. \A g \in Tallies : files'[g] \in [now : {files'[g].now}, tmp : {files'[g].tmp}]
    BY <1>2, <1>3 DEF FilesOK
  <1>6. \A g \in Tallies : Positive(files'[g].now.map) /\ Positive(files'[g].tmp.map)
    BY <1>2, <1>3 DEF FilesOK
  <1>7. \A g \in Tallies : Natural(past'.counted[g])
    BY <1>4 DEF FilesOK
  <1>8. \A q \in Procs : fires'[q].at \in Writing => Positive(fires'[q].copy)
    BY DEF OthersStay, FilesOK
  <1>9. \A map : (Positive(map) <=> Positive(map)') /\ (Natural(map) <=> Natural(map)')
    BY DEF Positive, Natural
  <1> QED  BY <1>3, <1>4, <1>5, <1>6, <1>7, <1>8 DEF FilesOK, Positive, Natural

LEMMA ReadWhat ==
    ASSUME FilesOK, NEW f \in Tallies
    PROVE  /\ Positive(ReadTally(f)) /\ Natural(past.counted[f])
           /\ ReadTally(f) = IF files[f].now.ok THEN files[f].now.map ELSE Empty
  BY DEF FilesOK, ReadTally, Positive, Empty

LEMMA ReadTallied ==
    ASSUME FiresOK, PastOK, TallyInv, NEW p \in Procs, ReadFile(p)
    PROVE  TallyInv'
  <1>1. /\ fires[p].at = "read" /\ OthersStay(p)
        /\ fires'[p].at = "write" /\ fires'[p].file = fires[p].file
        /\ fires'[p].copy = Capped(p, Added(ReadTally(fires[p].file), KeyFor(p)))
    BY ReadFileGoes
  <1>2. PICK f \in Tallies : f = fires[p].file
    BY <1>1, Worker DEF WorkerOK
  <1>3. PICK k : k = KeyFor(p)
    OBVIOUS
  <1>4. PICK map : map = ReadTally(f)
    OBVIOUS
  <1>5. PICK copy : copy = Capped(p, Added(map, k))
    OBVIOUS
  <1>6. fires'[p].copy = copy /\ files' = files
    BY <1>1, <1>2, <1>3, <1>4, <1>5 DEF ReadFile
  <1>7. /\ past'.counted = [past.counted EXCEPT ![f] = Tallied(past.counted[f], k)]
        /\ past'.disturbed = IF Others(p, f) # {} THEN past.disturbed \cup {f} ELSE past.disturbed
        /\ past'.evicted <=> past.evicted \/ copy # Added(map, k)
    <2>1. PICK x : past' = [past EXCEPT
             !.counted[f] = Tallied(past.counted[f], k), !.fired = x,
             !.disturbed = IF Others(p, f) # {} THEN past.disturbed \cup {f} ELSE past.disturbed,
             !.evicted = past.evicted \/ copy # Added(map, k)]
      BY <1>2, <1>3, <1>4, <1>5 DEF ReadFile, PastOK
    <2> QED  BY <2>1 DEF PastOK
  <1>8. /\ Positive(map) /\ Natural(past.counted[f]) /\ Positive(Added(map, k)) /\ Positive(copy)
        /\ Natural(Tallied(past.counted[f], k))
    BY <1>4, <1>5, ReadWhat, AddedTo, CappedTo, TalliedTo DEF TallyInv
  <1>9. FilesOK'
    <2>1. PICK now, tmp : Positive(now.map) /\ Positive(tmp.map)
      BY DEF TallyInv, FilesOK
    <2>2. PICK counts : counts = Tallied(past.counted[f], k)
      OBVIOUS
    <2> QED  BY <1>1, <1>6, <1>7, <1>8, <2>1, <2>2, FilesKept DEF TallyInv
  <1>10. ~Inside(p, f) /\ \A g : g # f => ~Inside(p, g) /\ ~Inside(p, g)'
    BY <1>1, <1>2 DEF Inside
  <1>11. ASSUME NEW g \in Tallies \ {f}, Undisturbed(g) PROVE Undisturbed(g)'
    <2>1. past'.counted[g] = past.counted[g]
      BY <1>7 DEF TallyInv, FilesOK
    <2>2. g = "builds" => copy = Added(map, k)
      BY <1>2, <1>5, <1>8, CappedTo
    <2> QED  BY <1>1, <1>6, <1>7, <1>10, <1>11, <2>1, <2>2, TallyStays
  <1>12. ASSUME Undisturbed(f), Others(p, f) = {} PROVE Undisturbed(f)'
    <2>1. \A q \in Procs \ {p} : ~Inside(q, f) /\ ~Inside(q, f)'
      BY <1>1, <1>12, InsideOthers DEF Others
    <2>2. Settled(f) /\ Within(map, f) /\ Whole(map, f)
      BY <1>4, <1>10, <1>12, <2>1 DEF Undisturbed, Settled
    <2>3. Inside(p, f)' /\ ~At(p, "rename")' /\ fires'[p].copy = copy
      BY <1>1, <1>2, <1>6 DEF Inside, At
    <2>4. PICK before : before = past.counted[f]
      OBVIOUS
    <2>5. PICK after : after = Tallied(before, k)
      OBVIOUS
    <2>6. past'.counted[f] = after
      BY <1>7, <2>4, <2>5 DEF TallyInv, FilesOK
    <2>7. Bounded(map, after) /\ Bounded(copy, after)
      <3>1. Natural(before) /\ Bounded(map, before)
        BY <1>8, <2>2, <2>4 DEF Within
      <3>2. Bounded(map, after) /\ Bounded(Added(map, k), after)
        BY <1>8, <2>5, <3>1, BoundedTallied
      <3>3. /\ DOMAIN copy \subseteq DOMAIN Added(map, k)
            /\ \A x \in DOMAIN copy : copy[x] = Added(map, k)[x]
        BY <1>5, <1>8, CappedTo
      <3> QED  BY <3>2, <3>3 DEF Bounded
    <2>8. (f = "builds" => ~past'.evicted) => Counts(copy) = after
      <3>1. SUFFICES ASSUME f = "builds" => ~past'.evicted PROVE Counts(copy) = after
        OBVIOUS
      <3>2. copy = Added(map, k)
        BY <1>2, <1>5, <1>7, <1>8, <3>1, CappedTo
      <3>3. Counts(map) = before
        BY <1>7, <2>2, <2>4, <3>1 DEF Whole
      <3> QED  BY <1>8, <2>5, <3>2, <3>3, CountsTallied
    <2>9. ReadTally(f)' = map
      BY <1>4, <1>6 DEF ReadTally
    <2>10. Within(map, f)' /\ Within(copy, f)' /\ Whole(copy, f)'
      BY <2>6, <2>7, <2>8 DEF Within, Whole, Bounded, Counts
    <2> QED  BY <2>1, <2>3, <2>9, <2>10 DEF Undisturbed, Settled
  <1> QED  BY <1>7, <1>9, <1>11, <1>12 DEF TallyInv

LEMMA WriteTallied ==
    ASSUME FiresOK, PastOK, HappenedOK, TallyInv, NEW p \in Procs, WriteFile(p)
    PROVE  TallyInv'
  <1>1. /\ OthersStay(p) /\ fires[p].at = "write" /\ fires'[p].at = "rename"
        /\ fires'[p].file = fires[p].file /\ fires'[p].copy = fires[p].copy
    BY WriteFileEffects DEF WriteFile, At, Effects
  <1>2. PICK f \in Tallies : f = fires[p].file
    BY <1>1, Worker DEF WorkerOK
  <1>3. PICK copy : copy = fires[p].copy
    OBVIOUS
  <1>4. Positive(copy)
    BY <1>1, <1>3 DEF TallyInv, FilesOK, Writing
  <1>5. PICK tmp : tmp = Tmp(Content(copy))
    OBVIOUS
  <1>6. PICK now : now = files[f].now
    OBVIOUS
  <1>7. files' = [files EXCEPT ![f] = [now |-> now, tmp |-> tmp]] /\ past' = past
    BY <1>2, <1>3, <1>5, <1>6, Recorded DEF WriteFile, TallyInv
  <1>8. Positive(tmp.map) /\ Positive(now.map)
    <2>1. tmp.map = copy
      BY <1>5 DEF Tmp, Content
    <2> QED  BY <1>4, <1>6, <2>1 DEF TallyInv, FilesOK
  <1>9. FilesOK'
    <2>1. PICK counts : Natural(counts)
      BY DEF TallyInv, FilesOK
    <2> QED  BY <1>1, <1>3, <1>4, <1>7, <1>8, <2>1, FilesKept DEF TallyInv
  <1>10. Inside(p, f) /\ Inside(p, f)' /\ \A g : g # f => ~Inside(p, g) /\ ~Inside(p, g)'
    BY <1>1, <1>2 DEF Inside
  <1>11. ASSUME NEW g \in Tallies \ {f}, Undisturbed(g) PROVE Undisturbed(g)'
    <2>1. files'[g] = files[g]
      BY <1>7 DEF TallyInv, FilesOK
    <2> QED  BY <1>1, <1>7, <1>10, <1>11, <2>1, TallyStays
  <1>12. ASSUME Undisturbed(f) PROVE Undisturbed(f)'
    <2>1. \A q \in Procs \ {p} : ~Inside(q, f) /\ ~Inside(q, f)'
      BY <1>1, <1>10, <1>12, InsideOthers DEF Undisturbed
    <2>2. ReadTally(f)' = ReadTally(f) /\ files'[f].tmp = tmp
      BY <1>6, <1>7 DEF ReadTally, TallyInv, FilesOK
    <2>3. Within(ReadTally(f), f) /\ Within(copy, f) /\ Whole(copy, f)
      BY <1>3, <1>10, <1>12 DEF Undisturbed
    <2>4. \A map : (Within(map, f)' <=> Within(map, f)) /\ (Whole(map, f)' <=> Whole(map, f))
      BY <1>7 DEF Within, Whole
    <2> QED  BY <1>1, <1>3, <1>5, <1>10, <2>1, <2>2, <2>3, <2>4 DEF Undisturbed, Settled
  <1> QED  BY <1>7, <1>9, <1>11, <1>12 DEF TallyInv

LEMMA RenameTallied ==
    ASSUME FiresOK, PastOK, HappenedOK, TallyInv, NEW p \in Procs, RenameFile(p)
    PROVE  TallyInv'
  <1>1. OthersStay(p) /\ fires[p].at = "rename" /\ fires'[p].at \notin Writing
    BY RenameFileEffects DEF Effects
  <1>2. PICK f \in Tallies : f = fires[p].file
    BY <1>1, Worker DEF WorkerOK
  <1>3. PICK copy : copy = fires[p].copy
    OBVIOUS
  <1>4. past' = past
    BY DEF RenameFile
  <1>5. PICK now, tmp :
          /\ Positive(now.map) /\ Positive(tmp.map)
          /\ files' = files \/ files' = [files EXCEPT ![f] = [now |-> now, tmp |-> tmp]]
          /\ ~files[f].tmp.gone /\ Others(p, f) = {} =>
                /\ files' = [files EXCEPT ![f] = [now |-> now, tmp |-> tmp]]
                /\ now = Content(files[f].tmp.map)
    <2>1. CASE files[f].tmp.gone
      BY <1>2, <2>1 DEF RenameFile, TallyInv, FilesOK
    <2>2. CASE ~files[f].tmp.gone
      <3>1. PICK c \in {Content(files[f].tmp.map), Torn} :
              /\ files' = [files EXCEPT ![f] = [now |-> c, tmp |-> NoTmp]]
              /\ Others(p, f) = {} => c = Content(files[f].tmp.map)
        BY <1>2, <2>2 DEF RenameFile
      <3>2. Positive(Content(files[f].tmp.map).map) /\ Positive(Torn.map) /\ Positive(NoTmp.map)
        BY DEF TallyInv, FilesOK, Positive, Content, Torn, NoTmp, Empty
      <3>3. PICK gone : gone = NoTmp
        OBVIOUS
      <3> QED  BY <3>1, <3>2, <3>3
    <2> QED  BY <2>1, <2>2
  <1>6. FilesOK'
    <2>1. PICK counts : Natural(counts)
      BY DEF TallyInv, FilesOK
    <2> QED  BY <1>1, <1>4, <1>5, <2>1, FilesKept DEF TallyInv
  <1>7. Inside(p, f) /\ \A g : ~Inside(p, g)' /\ (g # f => ~Inside(p, g))
    BY <1>1, <1>2 DEF Inside, Writing
  <1>8. ASSUME NEW g \in Tallies \ {f}, Undisturbed(g) PROVE Undisturbed(g)'
    <2>1. files'[g] = files[g]
      BY <1>5 DEF TallyInv, FilesOK
    <2> QED  BY <1>1, <1>4, <1>7, <1>8, <2>1, TallyStays
  <1>9. ASSUME Undisturbed(f) PROVE Undisturbed(f)'
    <2>1. \A q \in Procs : ~Inside(q, f)'
      BY <1>1, <1>7, <1>9, InsideOthers DEF Undisturbed
    <2>2. Others(p, f) = {}
      BY <1>7, <1>9 DEF Undisturbed, Others
    <2>3. /\ files[f].tmp = Tmp(Content(copy))
          /\ Within(copy, f) /\ Whole(copy, f)
      BY <1>1, <1>3, <1>7, <1>9 DEF Undisturbed, At
    <2>4. ~files[f].tmp.gone /\ files[f].tmp.map = copy
      BY <2>3 DEF Tmp, Content
    <2>5. now = Content(copy) /\ files'[f].now = now
      BY <1>5, <2>2, <2>4 DEF TallyInv, FilesOK
    <2>6. ReadTally(f)' = copy
      BY <2>5 DEF ReadTally, Content
    <2>7. Within(copy, f)' /\ Whole(copy, f)'
      BY <1>4, <2>3 DEF Within, Whole
    <2> QED  BY <2>1, <2>6, <2>7 DEF Undisturbed, Settled
  <1> QED  BY <1>4, <1>6, <1>8, <1>9 DEF TallyInv

LEMMA ClearTallied ==
    ASSUME FiresOK, PastOK, HappenedOK, TallyInv, NEW p \in Procs, ClearMissed(p)
    PROVE  TallyInv'
  <1>1. OthersStay(p) /\ fires'[p] = Idle /\ fires[p].at \notin Writing
    BY ClearMissedEffects DEF Effects
  <1>2. PICK f \in Tallies : f = "missed"
    BY DEF Tallies
  <1>3. PICK now, tmp : now = Absent /\ tmp = files[f].tmp
    OBVIOUS
  <1>4. files' = [files EXCEPT ![f] = [now |-> now, tmp |-> tmp]]
    BY <1>2, <1>3, Recorded DEF ClearMissed, TallyInv
  <1>5. /\ past'.counted = [past.counted EXCEPT ![f] = Empty]
        /\ past'.disturbed = IF Others(p, f) # {} THEN past.disturbed \cup {f} ELSE past.disturbed
        /\ past'.evicted = past.evicted
    <2>1. past' = [past EXCEPT !.counted[f] = Empty,
             !.disturbed = IF Others(p, f) # {} THEN past.disturbed \cup {f} ELSE past.disturbed]
      BY <1>2 DEF ClearMissed, PastOK
    <2> QED  BY <2>1 DEF PastOK
  <1>6. fires'[p].at \notin Writing
    BY <1>1 DEF Idle, Writing
  <1>7. FilesOK'
    <2>1. Positive(now.map) /\ Positive(tmp.map) /\ Natural(Empty)
      BY <1>3 DEF TallyInv, FilesOK, Positive, Natural, Absent, Content, Empty
    <2>2. PICK counts : counts = Empty
      OBVIOUS
    <2> QED  BY <1>1, <1>4, <1>5, <1>6, <2>1, <2>2, FilesKept DEF TallyInv
  <1>8. \A g : ~Inside(p, g) /\ ~Inside(p, g)'
    BY <1>1, <1>6 DEF Inside, Writing
  <1>9. ASSUME NEW g \in Tallies \ {f}, Undisturbed(g) PROVE Undisturbed(g)'
    <2>1. files'[g] = files[g] /\ past'.counted[g] = past.counted[g]
      BY <1>4, <1>5 DEF TallyInv, FilesOK
    <2> QED  BY <1>1, <1>5, <1>8, <1>9, <2>1, TallyStays
  <1>10. ASSUME Others(p, f) = {} PROVE Undisturbed(f)'
    <2>1. \A q \in Procs : ~Inside(q, f)'
      BY <1>1, <1>8, <1>10, InsideOthers DEF Others
    <2>2. files'[f].now = now /\ past'.counted[f] = Empty
      BY <1>4, <1>5 DEF TallyInv, FilesOK
    <2>3. ReadTally(f)' = Empty
      BY <1>3, <2>2 DEF ReadTally, Absent, Content
    <2>4. Counts(Empty) = Empty /\ Bounded(Empty, Empty)
      BY DEF Counts, Bounded, Empty
    <2>5. Within(Empty, f)' /\ Whole(Empty, f)'
      BY <2>2, <2>4 DEF Within, Whole, Empty, Bounded, Counts
    <2> QED  BY <2>1, <2>3, <2>5 DEF Undisturbed, Settled
  <1> QED  BY <1>5, <1>7, <1>9, <1>10 DEF TallyInv

\* No process is at work in a tally, and no tally changes.
LEMMA NothingTallied ==
    ASSUME TallyInv, NEW p \in Procs, OthersStay(p), files' = files,
           past'.counted = past.counted, past'.evicted = past.evicted,
           past.disturbed \cup {f \in Tallies : Inside(p, f)} \subseteq past'.disturbed,
           fires'[p].at \notin Writing
    PROVE  TallyInv'
  <1>1. FilesOK'
    <2>1. PICK f \in Tallies : TRUE
      BY DEF Tallies
    <2>2. PICK now, tmp, counts : Positive(now.map) /\ Positive(tmp.map) /\ Natural(counts)
      BY <2>1 DEF TallyInv, FilesOK
    <2> QED  BY <2>1, <2>2, FilesKept DEF TallyInv
  <1>2. ASSUME NEW f \in Tallies, f \notin past'.disturbed PROVE Undisturbed(f)'
    <2>1. Undisturbed(f) /\ ~Inside(p, f) /\ ~Inside(p, f)'
      BY <1>2 DEF TallyInv, Inside, Writing
    <2> QED  BY <2>1, TallyStays
  <1> QED  BY <1>1, <1>2 DEF TallyInv

LEMMA TallyKept ==
    ASSUME FiresOK, PastOK, HappenedOK, TallyInv, NEW p \in Procs, Effects(p)
    PROVE  TallyInv'
  <1>1. OthersStay(p)
    BY DEF Effects
  <1>2. CASE /\ files' = files /\ past'.counted = past.counted
             /\ past'.disturbed = past.disturbed /\ past'.evicted = past.evicted
             /\ fires[p].at \notin Writing /\ fires'[p].at \notin Writing
    <2>1. \A f : ~Inside(p, f)
      BY <1>2 DEF Inside, Writing
    <2> QED  BY <1>1, <1>2, <2>1, NothingTallied
  <1>3. CASE Kill(p)
    <2>1. fires'[p].at \notin Writing
      BY <1>3, KillEffects DEF Idle, Writing
    <2>2. files' = files
      BY <1>3 DEF Kill
    <2>3. /\ past'.counted = past.counted /\ past'.evicted = past.evicted
          /\ past'.disturbed = past.disturbed \cup {f \in Tallies : Inside(p, f)}
      BY <1>3 DEF Kill, PastOK
    <2> QED  BY <1>1, <2>1, <2>2, <2>3, NothingTallied
  <1> QED
    BY <1>2, <1>3, ReadTallied, WriteTallied, RenameTallied, ClearTallied DEF Effects, TallyEffect

-----------------------------------------------------------------------------
(* The steps that are not of one process.                                  *)

\* Some idle processes become fires.
Starts(p) == fires[p].at = "idle" /\ fires'[p].at \in Received /\ fires'[p].h = None

LEMMA QuietParts ==
    ASSUME SaltInv, NameInv, TallyInv,
           \A p \in Procs : fires'[p] = fires[p] \/ Starts(p),
           UNCHANGED <<files, salt, names>>,
           past'.salts = past.salts, past'.live = past.live, past'.crossed = past.crossed,
           past'.counted = past.counted, past'.disturbed = past.disturbed,
           past'.evicted = past.evicted
    PROVE  SaltInv' /\ NameInv' /\ TallyInv'
  <1>1. \A p \in Procs : fires'[p].at \notin Received =>
          fires'[p].at = fires[p].at /\ fires'[p].file = fires[p].file
          /\ fires'[p].copy = fires[p].copy
          /\ fires'[p].session = fires[p].session /\ fires'[p].expired = fires[p].expired
    BY DEF Starts
  <1>2. SaltInv'
    BY <1>1 DEF SaltInv, At, Received, Written
  <1>3. NameInv'
    BY <1>1 DEF NameInv, At, Received, NamesKept
  <1>4. FilesOK'
    BY <1>1 DEF TallyInv, FilesOK, Writing, Received, Positive, Natural
  <1>5. \A f : \A p \in Procs :
          /\ Inside(p, f)' <=> Inside(p, f)
          /\ Inside(p, f) => fires'[p].copy = fires[p].copy
          /\ At(p, "rename")' <=> At(p, "rename")
    BY DEF Starts, Inside, At, Received
  <1>6. ASSUME NEW f, Undisturbed(f) PROVE Undisturbed(f)'
    <2>1. ReadTally(f)' = ReadTally(f) /\ (Settled(f)' <=> Settled(f))
      BY <1>5 DEF ReadTally, Settled
    <2>2. \A map : (Within(map, f) => Within(map, f)') /\ (Whole(map, f) => Whole(map, f)')
      BY DEF Within, Whole
    <2> QED  BY <1>5, <1>6, <2>1, <2>2 DEF Undisturbed
  <1> QED  BY <1>2, <1>3, <1>4, <1>6 DEF TallyInv

LEMMA FiresKept ==
    ASSUME FiresOK, NEW p \in Procs, OthersStay(p), fires'[p] = Idle \/ WorkerOK(fires'[p])
    PROVE  FiresOK'
  <1>1. \A q \in Procs : fires'[q] = Idle \/ WorkerOK(fires'[q])
    BY DEF FiresOK, OthersStay
  <1>2. \A r : WorkerOK(r) <=> WorkerOK(r)'
    BY DEF WorkerOK, Shape, Origin
  <1> QED  BY <1>1 DEF FiresOK, OthersStay, WorkerOK, Shape, Origin

LEMMA StepKept == ASSUME IInv, NEW p \in Procs, Step(p) PROVE IInv'
  <1>1. Effects(p)
    BY StepEffects DEF IInv
  <1>2. FiresOK'
    BY <1>1, FiresKept DEF IInv, Effects
  <1>3. PastOK' /\ HappenedOK'
    BY <1>1 DEF Effects, MomentEffect
  <1>4. SaltInv'
    BY <1>1, SaltKept DEF IInv
  <1>5. NameInv'
    BY <1>1, NameKept DEF IInv
  <1>6. TrustInv'
    BY <1>1, TrustKept DEF IInv
  <1>7. TallyInv'
    BY <1>1, TallyKept DEF IInv
  <1>8. MomentInv'
    BY <1>1, MomentKept DEF IInv, Effects
  <1> QED  BY <1>2, <1>3, <1>4, <1>5, <1>6, <1>7, <1>8 DEF IInv

LEMMA Untouched ==
    ASSUME FiresOK, HappenedOK, MomentInv, UNCHANGED <<fires, happened>>
    PROVE  FiresOK' /\ HappenedOK' /\ MomentInv'
  <1>1. FiresOK'
    BY DEF FiresOK, WorkerOK, Shape, Origin
  <1>2. \A p \in Procs : Active(p)' <=> Active(p)
    BY DEF Active, At
  <1>3. HappenedOK'
    BY <1>2 DEF HappenedOK, MomentRecord
  <1>4. \A n : Running(n)' = Running(n)
    BY <1>2 DEF Running
  <1>5. MomentInv'
    BY <1>4 DEF MomentInv
  <1> QED  BY <1>1, <1>3, <1>5

LEMMA LogoutKept == ASSUME IInv, Logout PROVE IInv'
  <1>1. UNCHANGED <<fires, files, salt, names, world, happened, past>>
    BY DEF Logout
  <1>2. FiresOK' /\ HappenedOK' /\ MomentInv'
    BY <1>1, Untouched DEF IInv
  <1>3. PastOK' /\ TrustInv'
    BY <1>1 DEF IInv, PastOK, TrustInv, TrustIsEarned, Pending
  <1>4. SaltInv' /\ NameInv' /\ TallyInv'
    BY <1>1, QuietParts DEF IInv
  <1> QED  BY <1>2, <1>3, <1>4 DEF IInv

LEMMA StutterKept == ASSUME IInv, UNCHANGED vars PROVE IInv'
  <1>1. UNCHANGED <<fires, files, salt, names, world, happened, past>>
    BY DEF vars
  <1>2. FiresOK' /\ HappenedOK' /\ MomentInv'
    BY <1>1, Untouched DEF IInv
  <1>3. PastOK' /\ TrustInv'
    BY <1>1 DEF IInv, PastOK, TrustInv, TrustIsEarned, Pending
  <1>4. SaltInv' /\ NameInv' /\ TallyInv'
    BY <1>1, QuietParts DEF IInv
  <1> QED  BY <1>2, <1>3, <1>4 DEF IInv

LEMMA Upgraded ==
    ASSUME world \in [Harnesses -> Worlds], NEW h \in Harnesses, NEW i, Upgrade(h, i)
    PROVE  /\ world' \in [Harnesses -> Worlds]
           /\ \A x \in Harnesses : world'[x].status = world[x].status
  <1>1. PICK w : w = world[h]
    OBVIOUS
  <1>2. w \in Worlds /\ i \in w.installs
    BY <1>1 DEF Upgrade
  <1>3. PICK j : j = [i EXCEPT !.version = Newer[@]]
    OBVIOUS
  <1>4. i \in Builds /\ i.version \in {"v1", "v3"}
    BY <1>2 DEF Worlds, Upgrade, Newer
  <1>5. Newer[i.version] \in Versions
    BY <1>4 DEF Newer, Versions
  <1>6. j \in Builds
    BY <1>3, <1>4, <1>5 DEF Builds
  <1>7. PICK w2 : w2 = [w EXCEPT !.installs = (@ \ {i}) \cup {j}]
    OBVIOUS
  <1>8. w2 \in Worlds /\ w2.status = w.status
    BY <1>2, <1>6, <1>7 DEF Worlds
  <1>9. world' = [world EXCEPT ![h] = w2]
    BY <1>1, <1>3, <1>7 DEF Upgrade
  <1> QED  BY <1>1, <1>8, <1>9

LEMMA UpgradeKept ==
    ASSUME IInv, NEW h \in Harnesses, NEW i, Upgrade(h, i) PROVE IInv'
  <1>1. UNCHANGED <<fires, files, salt, names, happened>>
    BY DEF Upgrade
  <1>2. PICK x : past' = [past EXCEPT !.upgrades = x]
    BY DEF Upgrade
  <1>3. /\ PastOK' /\ past'.scene = past.scene /\ past'.salts = past.salts
        /\ past'.ran = past.ran /\ past'.counted = past.counted
        /\ past'.disturbed = past.disturbed /\ past'.evicted = past.evicted
        /\ past'.live = past.live /\ past'.crossed = past.crossed
    BY <1>2 DEF PastOK, IInv
  <1>4. FiresOK' /\ HappenedOK' /\ MomentInv'
    BY <1>1, Untouched DEF IInv
  <1>5. SaltInv' /\ NameInv' /\ TallyInv'
    BY <1>1, <1>3, QuietParts DEF IInv
  <1>6. TrustInv'
    <2>1. /\ world' \in [Harnesses -> Worlds]
          /\ \A y \in Harnesses : world'[y].status = world[y].status
      BY Upgraded DEF IInv, TrustInv
    <2>2. Pending' = Pending /\ Pending \subseteq Harnesses
      BY <1>3 DEF Pending
    <2>3. TrustIsEarned'
      BY <1>3, <2>1, <2>2 DEF IInv, TrustInv, TrustIsEarned
    <2> QED  BY <1>1, <1>3, <2>1, <2>3 DEF IInv, TrustInv
  <1> QED  BY <1>3, <1>4, <1>5, <1>6 DEF IInv

\* The processes that start are one for each command the harness runs.
Starting(m, s, runs, slot) ==
    /\ slot \in Injection(runs, Procs)
    /\ fires' \in [Procs -> {fires'[p] : p \in Procs}]
    /\ \A p \in Procs : (\A f \in runs : slot[f] # p) => fires'[p] = fires[p]
    /\ \A f \in runs :
         /\ fires[slot[f]].at = "idle"
         /\ fires'[slot[f]].h = None /\ fires'[slot[f]].at \in Received
         /\ fires'[slot[f]].n = Len(happened) + 1
         /\ Shape(fires'[slot[f]]) /\ fires'[slot[f]].file \in Tallies
         /\ fires'[slot[f]].fire = f /\ fires'[slot[f]].session = s

LEMMA ProcessIs ==
    ASSUME NEW n, NEW f, NEW i, NEW id, NEW s, NEW titled, NEW r,
           r = Process(n, f, i, id, s, titled)
    PROVE  /\ Shape(r) /\ r.file \in Tallies /\ r.h = None /\ r.at \in Received
           /\ r.n = n /\ r.fire = f /\ r.session = s
  BY DEF Process, Shape, Tallies, Received

LEMMA HappensStarts ==
    ASSUME NEW m, NEW i, NEW s, NEW titled, Happens(m, i, s, titled)
    PROVE  \E slot : Starting(m, s, ConfiguredFires(m), slot)
  <1> DEFINE runs == ConfiguredFires(m)
             n == Len(happened) + 1
  <1>1. PICK slot \in [runs -> {p \in Procs : At(p, "idle")}] :
          /\ \A f, g \in runs : f # g => slot[f] # slot[g]
          /\ \E ids \in [runs -> UNION {identitiesOf(m.by, i, f) : f \in runs}] :
               /\ \A f \in runs : ids[f] \in identitiesOf(m.by, i, f)
               /\ fires' = [p \in Procs |->
                     IF \E f \in runs : slot[f] = p
                     THEN LET f == CHOOSE f \in runs : slot[f] = p
                          IN  Process(n, f, i, ids[f], s, titled)
                     ELSE fires[p]]
    BY DEF Happens
  <1> HIDE DEF runs, n
  <1>2. PICK ids :
          fires' = [p \in Procs |->
                      IF \E f \in runs : slot[f] = p
                      THEN LET f == CHOOSE f \in runs : slot[f] = p
                           IN  Process(n, f, i, ids[f], s, titled)
                      ELSE fires[p]]
    BY <1>1
  <1>3. slot \in Injection(runs, Procs)
    BY <1>1 DEF Injection, IsInjective
  <1>4. ASSUME NEW f \in runs
        PROVE  /\ fires[slot[f]].at = "idle"
               /\ fires'[slot[f]].h = None /\ fires'[slot[f]].at \in Received
               /\ fires'[slot[f]].n = n
               /\ Shape(fires'[slot[f]]) /\ fires'[slot[f]].file \in Tallies
               /\ fires'[slot[f]].fire = f /\ fires'[slot[f]].session = s
    <2>1. slot[f] \in Procs /\ fires[slot[f]].at = "idle"
      BY <1>1 DEF At
    <2>2. f = CHOOSE g \in runs : slot[g] = slot[f]
      BY <1>1
    <2>3. fires'[slot[f]] = Process(n, f, i, ids[f], s, titled)
      BY <1>2, <2>1, <2>2
    <2>4. PICK r : r = fires'[slot[f]]
      OBVIOUS
    <2> QED  BY <2>1, <2>3, <2>4, ProcessIs
  <1>5. /\ fires' \in [Procs -> {fires'[p] : p \in Procs}]
        /\ \A p \in Procs : (\A f \in runs : slot[f] # p) => fires'[p] = fires[p]
    BY <1>2
  <1> QED  BY <1>3, <1>4, <1>5 DEF Starting, runs, n

\* At most two commands run for a moment.
LEMMA FewCommands ==
    ASSUME NEW m \in Moments, NEW runs, runs \subseteq m.fires
    PROVE  IsFiniteSet(runs) /\ Cardinality(runs) \in Nat /\ Cardinality(runs) <= 2
  <1>1. PICK a, b : m.fires \subseteq {a, b}
    BY AllFires DEF MomentOK
  <1>2. IsFiniteSet({a}) /\ Cardinality({a}) = 1
    BY FS_Singleton
  <1>3. IsFiniteSet({a} \cup {b}) /\ Cardinality({a} \cup {b}) <= 2
    BY <1>2, FS_AddElement
  <1>4. runs \in SUBSET ({a} \cup {b})
    BY <1>1
  <1> QED  BY <1>3, <1>4, FS_Subset, FS_CardinalityType

LEMMA Grown ==
    ASSUME NEW h, h \in Seq({h[k] : k \in DOMAIN h}), NEW x, NEW g, g = Append(h, x),
           NEW n, n = Len(h) + 1
    PROVE  /\ DOMAIN g = DOMAIN h \cup {n} /\ n \notin DOMAIN h
           /\ g[n] = x /\ \A k \in DOMAIN h : g[k] = h[k]
           /\ g \in Seq({g[k] : k \in DOMAIN g})
  <1>1. PICK S : S = {h[k] : k \in DOMAIN h} \cup {x}
    OBVIOUS
  <1>2. h \in Seq(S) /\ x \in S
    BY <1>1
  <1>3. /\ g \in Seq(S) /\ Len(g) = Len(h) + 1
        /\ \A k \in 1..Len(h) : g[k] = h[k]
        /\ g[Len(h) + 1] = x
    BY <1>2, AppendProperties
  <1>4. Len(h) \in Nat /\ DOMAIN h = 1..Len(h) /\ DOMAIN g = 1..Len(g)
    BY <1>2, <1>3
  <1>5. DOMAIN g = DOMAIN h \cup {n} /\ n \notin DOMAIN h
    BY <1>3, <1>4
  <1>6. S = {g[k] : k \in DOMAIN g}
    BY <1>1, <1>3, <1>4, <1>5
  <1> QED  BY <1>3, <1>4, <1>5, <1>6

LEMMA HappensKept ==
    ASSUME IInv, NEW m \in past.scene.moments, NEW i, NEW s, NEW titled,
           m.by = "claude" => s \in Sessions, Happens(m, i, s, titled)
    PROVE  IInv'
  <1>1. PICK runs : runs = ConfiguredFires(m)
    OBVIOUS
  <1>2. PICK n : n = Len(happened) + 1
    OBVIOUS
  <1>3. PICK slot : Starting(m, s, runs, slot)
    BY <1>1, HappensStarts
  <1>4. m \in Moments /\ runs \subseteq m.fires
    BY <1>1, RecordsAssumption DEF IInv, PastOK, ConfiguredFires
  <1>5. UNCHANGED <<files, salt, names, world, past>>
    BY DEF Happens
  <1>6. ASSUME NEW p \in Procs
        PROVE  \/ fires'[p] = fires[p] /\ \A f \in runs : slot[f] # p
               \/ /\ \E f \in runs : slot[f] = p
                  /\ Starts(p) /\ WorkerOK(fires'[p]) /\ fires'[p].n = n
    <2>1. CASE \A f \in runs : slot[f] # p
      BY <1>3, <2>1 DEF Starting
    <2>2. CASE \E f \in runs : slot[f] = p
      <3>1. PICK f \in runs : slot[f] = p
        BY <2>2
      <3>2. PICK r : r = fires'[p]
        OBVIOUS
      <3>3. /\ fires[p].at = "idle" /\ r.h = None /\ r.at \in Received /\ r.n = n
            /\ Shape(r) /\ r.file \in Tallies /\ r.fire = f /\ r.session = s
        BY <1>2, <1>3, <3>1, <3>2 DEF Starting
      <3>4. Origin(r)
        BY <1>4, <3>3 DEF Origin
      <3>5. WorkerOK(r)
        BY <3>3, <3>4 DEF WorkerOK, Received, AtNames
      <3> QED  BY <2>2, <3>2, <3>3, <3>5 DEF Starts
    <2> QED  BY <2>1, <2>2
  <1>7. FiresOK'
    <2>1. \A p \in Procs : fires'[p] = Idle \/ WorkerOK(fires'[p])
      BY <1>6 DEF IInv, FiresOK
    <2>2. fires' \in [Procs -> {fires'[p] : p \in Procs}]
      BY <1>3 DEF Starting
    <2> QED  BY <2>1, <2>2 DEF FiresOK, WorkerOK, Shape, Origin
  <1>8. SaltInv' /\ NameInv' /\ TallyInv'
    BY <1>5, <1>6, QuietParts DEF IInv
  <1>9. PastOK'
    BY <1>5 DEF IInv, PastOK
  <1>10. TrustInv'
    <2>1. \A p \in Procs : fires'[p].h \in Harnesses => fires'[p] = fires[p]
      BY <1>6 DEF Starts, Harnesses, None
    <2> QED  BY <1>5, <2>1 DEF IInv, TrustInv, TrustIsEarned, Pending
  <1>11. PICK r : /\ happened' = Append(happened, r) /\ MomentRecord(r)
                  /\ r.left = Cardinality(runs) /\ r.left + r.beeps <= 2
    <2>1. PICK d : happened' = Append(happened,
            [due |-> d, beeps |-> 0, clean |-> TRUE, left |-> Cardinality(runs), marks |-> {}])
      BY <1>1 DEF Happens
    <2>2. PICK x : x = [due |-> d, beeps |-> 0, clean |-> TRUE, left |-> Cardinality(runs),
                        marks |-> {}]
      OBVIOUS
    <2>3. MomentRecord(x) /\ x.left = Cardinality(runs) /\ x.left + x.beeps <= 2
      BY <1>4, <2>2, FewCommands DEF MomentRecord
    <2> QED  BY <2>1, <2>2, <2>3
  <1>12. /\ DOMAIN happened' = DOMAIN happened \cup {n} /\ n \notin DOMAIN happened
         /\ happened'[n] = r /\ \A k \in DOMAIN happened : happened'[k] = happened[k]
         /\ happened' \in Seq({happened'[k] : k \in DOMAIN happened'})
    BY <1>2, <1>11, Grown, SMTT(30) DEF IInv, HappenedOK
  <1>13. ASSUME NEW p \in Procs
         PROVE  \/ fires'[p] = fires[p] /\ (Active(p)' <=> Active(p)) /\ \A f \in runs : slot[f] # p
                \/ ~Active(p) /\ Active(p)' /\ fires'[p].n = n /\ \E f \in runs : slot[f] = p
    BY <1>6 DEF Starts, Active, At, Received, None
  <1>14. HappenedOK'
    <2>1. \A k \in DOMAIN happened' : MomentRecord(happened'[k])
      BY <1>11, <1>12 DEF IInv, HappenedOK
    <2>2. \A p \in Procs : Active(p)' => fires'[p].n \in DOMAIN happened'
      BY <1>12, <1>13 DEF IInv, HappenedOK
    <2> QED  BY <1>12, <2>1, <2>2 DEF HappenedOK, MomentRecord
  <1>15. MomentInv'
    <2>1. ASSUME NEW k \in DOMAIN happened PROVE Running(k)' = Running(k)
      BY <1>12, <1>13, <2>1 DEF Running
    <2>2. Running(n)' = {p \in Procs : \E f \in runs : slot[f] = p}
      BY <1>12, <1>13 DEF Running, IInv, HappenedOK
    <2>3. PICK T : T = {p \in Procs : \E f \in runs : slot[f] = p}
      OBVIOUS
    <2>4. slot \in Surjection(runs, T) /\ slot \in Injection(runs, T)
      BY <1>3, <2>3 DEF Starting, Injection, Surjection, IsInjective
    <2>5. IsFiniteSet(T) /\ Cardinality(T) = Cardinality(runs)
      BY <1>4, <2>4, FewCommands, FS_Surjection
    <2>6. ASSUME NEW k \in DOMAIN happened'
          PROVE  /\ happened'[k].left + happened'[k].beeps <= 2
                 /\ IsFiniteSet(Running(k)') /\ Cardinality(Running(k)') = happened'[k].left
      <3>1. CASE k = n
        BY <1>11, <1>12, <2>2, <2>3, <2>5, <3>1
      <3>2. CASE k # n
        BY <1>12, <2>1, <3>2 DEF IInv, MomentInv
      <3> QED  BY <3>1, <3>2
    <2> QED  BY <2>6 DEF MomentInv
  <1> QED  BY <1>7, <1>8, <1>9, <1>10, <1>14, <1>15 DEF IInv

-----------------------------------------------------------------------------
(* The invariant, and the properties that follow from it.                  *)

LEMMA InitInv == Init => IInv
  <1> SUFFICES ASSUME Init PROVE IInv
    OBVIOUS
  <1>1. PICK c \in Scenes :
          /\ fires = [p \in Procs |-> Idle]
          /\ files = [f \in Tallies |-> [now |-> Absent, tmp |-> NoTmp]]
          /\ salt \in {"absent", Former}
          /\ names \in [Sessions -> {"none", "old"}]
          /\ world = c.world /\ happened = <<>>
          /\ past = [scene |-> c, ran |-> {}, fired |-> {},
                     counted |-> [f \in Tallies |-> Empty], disturbed |-> {}, evicted |-> FALSE,
                     salts |-> {}, live |-> {}, crossed |-> {}, kills |-> 0, pairings |-> 0,
                     upgrades |-> 0]
    BY DEF Init
  <1>2. \A p \in Procs : fires[p] = Idle /\ fires[p].at = "idle" /\ fires[p].h = None
    BY <1>1 DEF Idle
  <1>3. FiresOK
    BY <1>1, <1>2 DEF FiresOK
  <1>4. PastOK
    BY <1>1 DEF PastOK
  <1>5. /\ past.scene = c /\ past.salts = {} /\ past.live = {} /\ past.disturbed = {}
        /\ past.counted = [f \in Tallies |-> Empty]
    BY <1>1
  <1>6. HappenedOK /\ MomentInv
    BY <1>1, <1>2 DEF HappenedOK, MomentInv, Active, At
  <1>7. SaltInv /\ NameInv
    BY <1>1, <1>2, <1>5 DEF SaltInv, NameInv, NamesKept, At
  <1>8. TrustInv
    <2>1. world \in [Harnesses -> Worlds]
      BY <1>1, RecordsAssumption
    <2>2. TrustIsEarned
      BY <1>1, <1>5 DEF TrustIsEarned, Pending, PENDING_STATUSES
    <2> QED  BY <1>2, <2>1, <2>2 DEF TrustInv, Harnesses, None
  <1>9. TallyInv
    <2>1. \A f \in Tallies : /\ files[f] = [now |-> Absent, tmp |-> NoTmp]
                            /\ past.counted[f] = Empty
      BY <1>1, <1>5
    <2>2. Absent.map = Empty /\ Absent.ok /\ NoTmp.map = Empty
      BY DEF Absent, NoTmp, Content
    <2>3. Positive(Empty) /\ Natural(Empty) /\ Bounded(Empty, Empty) /\ Counts(Empty) = Empty
      BY DEF Positive, Natural, Bounded, Counts, Empty
    <2>4. FilesOK
      <3>1. \A f \in Tallies :
              /\ files[f] \in [now : {files[f].now}, tmp : {files[f].tmp}]
              /\ files[f].now.map = Empty /\ files[f].tmp.map = Empty
        BY <2>1, <2>2
      <3>2. /\ files \in [Tallies -> {files[f] : f \in Tallies}]
            /\ past.counted \in [Tallies -> {past.counted[f] : f \in Tallies}]
        BY <1>1, <1>5
      <3> QED  BY <1>2, <2>1, <2>3, <3>1, <3>2 DEF FilesOK, Writing
    <2>5. ASSUME NEW f \in Tallies PROVE Undisturbed(f)
      <3>1. ReadTally(f) = Empty
        BY <2>1, <2>2 DEF ReadTally
      <3>2. Within(Empty, f) /\ Whole(Empty, f)
        BY <2>1, <2>3 DEF Within, Whole
      <3> QED  BY <1>2, <3>1, <3>2 DEF Undisturbed, Inside
    <2> QED  BY <2>4, <2>5 DEF TallyInv
  <1> QED  BY <1>3, <1>4, <1>6, <1>7, <1>8, <1>9 DEF IInv

LEMMA NextInv == IInv /\ [Next]_vars => IInv'
  <1> SUFFICES ASSUME IInv, [Next]_vars PROVE IInv'
    OBVIOUS
  <1>1. CASE \E p \in Procs : Step(p)
    BY <1>1, StepKept
  <1>2. CASE \E m \in past.scene.moments : \E i \in world[m.by].installs :
               \E s \in IF m.by = "claude" THEN Sessions ELSE {None} :
                 \E titled \in IF m.by = "claude" /\ m.kind = "start" THEN BOOLEAN ELSE {FALSE} :
                   Happens(m, i, s, titled)
    <2>1. PICK m \in past.scene.moments : \E i, s, titled :
            Happens(m, i, s, titled) /\ (m.by = "claude" => s \in Sessions)
      BY <1>2
    <2> QED  BY <2>1, HappensKept
  <1>3. CASE \E h \in DOMAIN world : \E i \in world[h].installs : Upgrade(h, i)
    <2>1. DOMAIN world = Harnesses
      BY DEF IInv, TrustInv
    <2> QED  BY <1>3, <2>1, UpgradeKept
  <1> QED  BY <1>1, <1>2, <1>3, LogoutKept, StutterKept DEF Next

\* In every reachable state the records are as the invariant says.
LEMMA Invariant == Spec => []IInv
  BY InitInv, NextInv, PTL DEF Spec

\* Every process is at a point of the code and works for a harness or a pairing,
\* no moment has more than two commands nor beeps more often than they ended, and
\* no tally holds a count of zero.
THEOREM TypeCorrect == Spec => []TypeOK
  <1>1. IInv => TypeOK
    <2> SUFFICES ASSUME IInv PROVE TypeOK
      OBVIOUS
    <2>1. ASSUME NEW p \in Procs
          PROVE  /\ fires[p].h \in Harnesses \cup {None, "pair"}
                 /\ fires[p].at \in {"idle"} \cup Received \cup Handles \cup Pairs
      BY DEF IInv, FiresOK, Idle, WorkerOK, Handles
    <2>2. {"idle"} \cup Received \cup Handles \cup Pairs \subseteq
            {"idle", "detach", "recv", "name", "list", "judge", "sweep", "drop",
             "salt", "create", "fill", "reread", "fail", "persist", "clear",
             "read", "write", "rename", "dedup", "send"}
      BY DEF Received, Handles, Pairs, AtNames, AtSalt, Writing
    <2>3. ASSUME NEW n \in DOMAIN happened
          PROVE  happened[n].left \in 0..2 /\ happened[n].beeps \in 0..2
      <3>1. happened[n].beeps \in Nat
        BY DEF IInv, HappenedOK, MomentRecord
      <3>2. happened[n].left \in Nat /\ happened[n].left + happened[n].beeps <= 2
        BY FS_CardinalityType DEF IInv, MomentInv
      <3> QED  BY <3>1, <3>2
    <2>4. \A f \in Tallies : \A k \in DOMAIN files[f].now.map : files[f].now.map[k].count > 0
      <3>1. \A f \in Tallies : Positive(files[f].now.map)
        BY DEF IInv, TallyInv, FilesOK
      <3>2. ASSUME NEW map, Positive(map) PROVE \A k \in DOMAIN map : map[k].count > 0
        BY <3>2 DEF Positive
      <3> QED  BY <3>1, <3>2
    <2>5. /\ salt \in {"absent", "blank", Former} \cup Procs
          /\ names \in [Sessions -> {"none", "old", "new"}]
      BY DEF IInv, SaltInv, NameInv
    <2> QED  BY <2>1, <2>2, <2>3, <2>4, <2>5 DEF TypeOK
  <1> QED  BY <1>1, Invariant, PTL

\* Whatever processes race to create it and whichever of them dies in between,
\* all that keep a salt keep the one on the disk.
THEOREM SaltIsOne == Spec => []OneSalt
  <1>1. IInv => OneSalt
    BY DEF IInv, SaltInv, OneSalt
  <1> QED  BY <1>1, Invariant, PTL

\* A session keeps the name it was given until it ends, beside any sweeps and
\* lookups of others, unless a removal had been decided before the name came.
THEOREM NamesStay == Spec => []NamesKept
  <1>1. IInv => NamesKept
    BY DEF IInv, NameInv
  <1> QED  BY <1>1, Invariant, PTL

\* A harness that waited for trust or a restart is called installed only after a
\* hook of its own ran, which for Codex the notify program is not.
THEOREM TrustEarned == Spec => []TrustIsEarned
  <1>1. IInv => TrustIsEarned
    BY DEF IInv, TrustInv
  <1> QED  BY <1>1, Invariant, PTL

\* No tally counts an event twice or invents one, nor loses one, as long as no two
\* processes were at its file together and none died there.
THEOREM TalliesRight == Spec => []TalliesExact
  <1>1. IInv => TalliesExact
    <2> SUFFICES ASSUME IInv, NEW f \in Tallies, f \notin past.disturbed
                 PROVE  /\ Bounded(ReadTally(f), past.counted[f])
                        /\ Sure(f) => Counts(ReadTally(f)) = past.counted[f]
      BY DEF TalliesExact, Bounded, Sure
    <2>1. Undisturbed(f)
      BY DEF IInv, TallyInv
    <2> QED  BY <2>1 DEF Undisturbed, Within, Whole, Sure
  <1> QED  BY <1>1, Invariant, PTL

-----------------------------------------------------------------------------
(* What setup and doctor say of one harness, whatever was observed.        *)

\* A vendor's upgrade changes a version only, a hook's proof settles a status.
Sites == \A h \in Harnesses : Sited(h, world[h])

LEMMA UpgradedBuild ==
    ASSUME world \in [Harnesses -> Worlds], NEW h \in Harnesses, NEW i, Upgrade(h, i)
    PROVE  \E j \in Builds :
             /\ i \in world[h].installs /\ i \in Builds
             /\ j.kind = i.kind /\ j.place = i.place /\ j.readable = i.readable
             /\ world' = [world EXCEPT ![h].installs = (@ \ {i}) \cup {j}]
             /\ world'[h].status = world[h].status /\ world'[h].commands = world[h].commands
             /\ world'[h].installs = (world[h].installs \ {i}) \cup {j}
             /\ \A x \in Harnesses \ {h} : world'[x] = world[x]
  <1>1. PICK w : w = world[h]
    OBVIOUS
  <1>2. w \in Worlds /\ i \in w.installs
    BY <1>1 DEF Upgrade
  <1>3. PICK j : j = [i EXCEPT !.version = Newer[@]]
    OBVIOUS
  <1>4. i \in Builds /\ i.version \in {"v1", "v3"}
    BY <1>2 DEF Worlds, Upgrade, Newer
  <1>5. Newer[i.version] \in Versions
    BY <1>4 DEF Newer, Versions
  <1>6. j \in Builds /\ j.kind = i.kind /\ j.place = i.place /\ j.readable = i.readable
    BY <1>3, <1>4, <1>5 DEF Builds
  <1>7. PICK w2 : w2 = [w EXCEPT !.installs = (@ \ {i}) \cup {j}]
    OBVIOUS
  <1>8. /\ w2.status = w.status /\ w2.installs = (w.installs \ {i}) \cup {j}
        /\ w2.commands = w.commands
    BY <1>2, <1>7 DEF Worlds
  <1>9. world' = [world EXCEPT ![h] = w2]
        /\ world' = [world EXCEPT ![h].installs = (@ \ {i}) \cup {j}]
    BY <1>1, <1>3, <1>7 DEF Upgrade
  <1> QED  BY <1>1, <1>2, <1>4, <1>6, <1>8, <1>9

LEMMA SitedAfter ==
    ASSUME NEW h, NEW w, Sited(h, w), NEW v, NEW i \in w.installs, NEW j,
           j.kind = i.kind, j.place = i.place, j.readable = i.readable,
           v.installs = (w.installs \ {i}) \cup {j}, v.status = w.status,
           v.commands = w.commands
    PROVE  Sited(h, v)
  <1>1. Readable(h, j) <=> Readable(h, i)
    BY DEF Readable
  <1>2. ASSUME NEW x \in v.installs, NEW y \in v.installs, x.kind = y.kind,
               x.place = y.place \/ (x.kind = "desktop" /\ ~Readable(h, x))
        PROVE  x = y
    <2>1. CASE x # j /\ y # j
      BY <1>2, <2>1 DEF Sited
    <2>2. CASE x = j /\ y # j
      BY <1>1, <1>2, <2>2 DEF Sited
    <2>3. CASE x # j /\ y = j
      BY <1>2, <2>3 DEF Sited
    <2> QED  BY <2>1, <2>2, <2>3
  <1>3. /\ v.status \in PENDING_STATUSES => v.status = installResult(h)
        /\ v.status \in CONFIGURED_STATUSES /\ v.commands = "none" => h = "opencode"
    BY DEF Sited
  <1> QED  BY <1>2, <1>3 DEF Sited

LEMMA SitedSeen ==
    ASSUME world \in [Harnesses -> Worlds], Sites, NEW p, NEW h \in Harnesses, NEW o,
           Seen(p, h, o)
    PROVE  Sites' /\ \A x \in Harnesses : world'[x].installs = world[x].installs
  <1>1. CASE world' = world
    BY <1>1 DEF Sites
  <1>2. CASE world' # world
    <2>1. world' = [world EXCEPT ![h].status = "installed"] /\ world[h].status \in PENDING_STATUSES
      BY <1>2 DEF Seen
    <2>2. PICK w : w = world[h]
      OBVIOUS
    <2>3. PICK w2 : w2 = [w EXCEPT !.status = "installed"]
      OBVIOUS
    <2>4. w \in Worlds /\ world' = [world EXCEPT ![h] = w2]
      BY <2>1, <2>2, <2>3
    <2>5. w2.status = "installed" /\ w2.installs = w.installs /\ w2.commands = w.commands
      BY <2>3, <2>4 DEF Worlds
    <2>6. Sited(h, w) /\ w.status \in CONFIGURED_STATUSES
      BY <2>1, <2>2 DEF Sites, PENDING_STATUSES, CONFIGURED_STATUSES
    <2>7. Sited(h, w2)
      BY <2>5, <2>6 DEF Sited, PENDING_STATUSES
    <2> QED  BY <2>2, <2>4, <2>5, <2>7 DEF Sites
  <1> QED  BY <1>1, <1>2

\* A process says of a harness that its hooks work, or leaves the world alone.
LEMMA StepSees ==
    ASSUME IInv, NEW p \in Procs, Step(p)
    PROVE  world' = world \/ \E h \in Harnesses : \E o : Seen(p, h, o)
  <1>1. Effects(p)
    BY StepEffects DEF IInv
  <1>2. CASE Receive(p) /\ world' # world
    <2>1. fires[p].at = "recv" /\ Origin(fires[p])
      BY <1>2, Worker DEF IInv, Receive, At, WorkerOK, AtSalt, Pairs
    <2>2. Handler(p) \in Harnesses
      BY <2>1, Handled DEF Handler
    <2> QED  BY <1>2, <2>2 DEF Receive
  <1>3. CASE (RenameFile(p) \/ Dedup(p) \/ Send(p)) /\ world' # world
    <2>1. fires[p].at \in {"rename", "dedup", "send"}
      BY <1>3 DEF RenameFile, Dedup, Send, At
    <2>2. fires[p].h \in Harnesses
      BY <2>1, AtWork DEF IInv, Writing
    <2> QED  BY <1>3, <2>2 DEF RenameFile, AfterTally, Dedup, Send
  <1> QED  BY <1>1, <1>2, <1>3 DEF Effects, TrustEffect

LEMMA SitesInit == Init => Sites
  BY RecordsAssumption DEF Init, Sites

LEMMA SitesKept == IInv /\ Sites /\ [Next]_vars => Sites'
  <1> SUFFICES ASSUME IInv, Sites, [Next]_vars PROVE Sites'
    OBVIOUS
  <1>1. world \in [Harnesses -> Worlds] /\ DOMAIN world = Harnesses
    BY DEF IInv, TrustInv
  <1>2. CASE world' = world
    BY <1>2 DEF Sites
  <1>3. CASE \E p \in Procs : Step(p)
    BY <1>1, <1>2, <1>3, StepSees, SitedSeen
  <1>4. CASE \E h \in DOMAIN world : \E i \in world[h].installs : Upgrade(h, i)
    <2>1. PICK h \in Harnesses : \E i : Upgrade(h, i)
      BY <1>1, <1>4
    <2>2. PICK i : Upgrade(h, i)
      BY <2>1
    <2>3. PICK j : /\ i \in world[h].installs
                   /\ j.kind = i.kind /\ j.place = i.place /\ j.readable = i.readable
                   /\ world'[h].status = world[h].status
                   /\ world'[h].commands = world[h].commands
                   /\ world'[h].installs = (world[h].installs \ {i}) \cup {j}
                   /\ \A x \in Harnesses \ {h} : world'[x] = world[x]
      BY <1>1, <2>2, UpgradedBuild
    <2>4. Sited(h, world'[h])
      BY <2>3, SitedAfter DEF Sites
    <2> QED  BY <2>3, <2>4 DEF Sites
  <1> QED  BY <1>2, <1>3, <1>4, ZenonT(60) DEF Next, Happens, Logout, vars

LEMMA SitesHold == Spec => []Sites
  BY Invariant, SitesInit, SitesKept, PTL DEF Spec

-----------------------------------------------------------------------------
\* What doctor faults, and misses of hooks and of what the hooks say of a build, and
\* what setup complains of, in one harness.
Faults(rows) == \E c \in rows : ~c.ok
Faulted(h, w, obs, token) == detected(w) /\ Faults(adapterRows(h, w, obs, token))
Missed(h, w, obs) == Faults(hookRows(h, w) \cup surfaceRows(h, w, obs))
Troubled(h, w, obs) == detected(w) /\ \E r \in harnessRows(h, w, obs) : r \notin {"ready", "beeping"}

LEMMA RowFaults == \A name : \A good \in BOOLEAN : Faults(Row(name, good)) <=> ~good
  <1>1. ASSUME NEW name, NEW good \in BOOLEAN
        PROVE  Faults(Row(name, good)) <=> ~good
    <2>1. CASE good = TRUE
      BY <2>1 DEF Row, Faults
    <2>2. CASE good = FALSE
      BY <2>2 DEF Row, Faults
    <2> QED  BY <2>1, <2>2
  <1> QED  BY <1>1

LEMMA MissedIs ==
    ASSUME NEW h, NEW w, NEW obs
    PROVE  Missed(h, w, obs) <=>
             \/ w.status # "installed"
             \/ \E s \in surfacesOf(h, w.installs) :
                  coverage(s, surfacesOf(h, w.installs), w.status, obs) = "uncovered"
  <1>1. PICK ss : ss = surfacesOf(h, w.installs)
    OBVIOUS
  <1>2. Faults(surfaceRows(h, w, obs)) <=>
          \E s \in ss : coverage(s, ss, w.status, obs) = "uncovered"
    <2>1. surfaceRows(h, w, obs) =
            UNION {Row(<<h, s.kind, s.place, s.version>>,
                       coverage(s, ss, w.status, obs) # "uncovered") : s \in ss}
      BY <1>1 DEF surfaceRows
    <2>2. \A c : c \in surfaceRows(h, w, obs) <=>
            \E s \in ss : c \in Row(<<h, s.kind, s.place, s.version>>,
                                    coverage(s, ss, w.status, obs) # "uncovered")
      BY <2>1, Zenon
    <2>3. Faults(surfaceRows(h, w, obs)) <=>
            \E s \in ss : Faults(Row(<<h, s.kind, s.place, s.version>>,
                                     coverage(s, ss, w.status, obs) # "uncovered"))
      BY <2>2, Zenon DEF Faults
    <2>4. \A s \in ss : Faults(Row(<<h, s.kind, s.place, s.version>>,
                                  coverage(s, ss, w.status, obs) # "uncovered"))
                        <=> coverage(s, ss, w.status, obs) = "uncovered"
      BY RowFaults, Zenon
    <2> QED  BY <2>3, <2>4, Zenon
  <1>3. Faults(hookRows(h, w)) <=> w.status # "installed"
    <2>1. (w.status = "installed") \in BOOLEAN
      OBVIOUS
    <2> QED  BY <2>1, RowFaults, Zenon DEF hookRows
  <1>4. Missed(h, w, obs) <=> Faults(hookRows(h, w)) \/ Faults(surfaceRows(h, w, obs))
    BY Zenon DEF Missed, Faults
  <1> QED  BY <1>1, <1>2, <1>3, <1>4, Zenon

\* Doctor faults what it misses and a command that is gone.
LEMMA FaultedIs ==
    ASSUME NEW h, NEW w, NEW obs, NEW token, detected(w)
    PROVE  /\ Missed(h, w, obs) => Faulted(h, w, obs, token)
           /\ ~Faulted(h, w, obs, token) => w.status = "installed" /\ w.commands # "stale"
  <1>1. PICK rows : rows = adapterRows(h, w, obs, token)
    OBVIOUS
  <1>2. /\ hookRows(h, w) \subseteq rows /\ surfaceRows(h, w, obs) \subseteq rows
        /\ commandRows(h, w) \subseteq rows
    BY <1>1, Zenon DEF adapterRows
  <1>3. Missed(h, w, obs) => Faults(rows)
    BY <1>2, Zenon DEF Missed, Faults
  <1>4. ASSUME w.status = "installed", w.commands = "stale" PROVE Faults(rows)
    <2>1. commandRows(h, w) = Row(<<h, "resolves">>, FALSE)
      BY <1>4 DEF commandRows, CONFIGURED_STATUSES
    <2>2. Faults(commandRows(h, w))
      BY <2>1, RowFaults
    <2> QED  BY <1>2, <2>2, Zenon DEF Faults
  <1> QED  BY <1>1, <1>3, <1>4, MissedIs DEF Faulted

LEMMA CoverageIs ==
    ASSUME NEW s, NEW ss, NEW status, NEW obs
    PROVE  /\ coverage(s, ss, status, obs) \in {"uncovered", "active", "wired"}
           /\ status \notin CONFIGURED_STATUSES => coverage(s, ss, status, obs) = "uncovered"
  BY DEF coverage

LEMMA SetupOfOne ==
    ASSUME NEW h, NEW w, NEW obs, Sited(h, w), detected(w)
    PROVE  /\ Missed(h, w, obs) => Troubled(h, w, obs) \/ w.installs = {}
           /\ Troubled(h, w, obs) => Missed(h, w, obs) \/ installResult(h) \in PENDING_STATUSES
           /\ harnessRows(h, w, obs) \subseteq
                {"ready", "beeping", "failed", "needs you", "not covered"}
  <1>1. PICK ss : ss = surfacesOf(h, w.installs)
    OBVIOUS
  <1>2. PICK result : result = installResult(h)
    OBVIOUS
  <1>3. harnessRows(h, w, obs) =
          IF w.status = "throws" THEN {"failed"}
          ELSE IF ss = {} THEN {bareState(result)}
          ELSE {rowState(s, ss, result, w.status, obs) : s \in ss}
    BY <1>1, <1>2 DEF harnessRows
  <1>4. Missed(h, w, obs) <=>
          w.status # "installed" \/ \E s \in ss : coverage(s, ss, w.status, obs) = "uncovered"
    BY <1>1, MissedIs
  <1>5. ss = {} <=> w.installs = {}
    BY <1>1 DEF surfacesOf
  <1>6. CASE w.status = "throws"
    BY <1>3, <1>4, <1>6 DEF Troubled
  <1>7. CASE w.status # "throws" /\ ss = {}
    BY <1>2, <1>3, <1>5, <1>7 DEF Troubled, bareState
  <1>8. CASE w.status # "throws" /\ ss # {}
    <2>1. \A s \in ss :
            rowState(s, ss, result, w.status, obs) =
              IF w.status # "error" /\ result \in PENDING_STATUSES THEN "needs you"
              ELSE IF w.status = "error" THEN "failed"
              ELSE IF coverage(s, ss, w.status, obs) = "active" THEN "beeping"
              ELSE IF coverage(s, ss, w.status, obs) = "wired" THEN "ready" ELSE "not covered"
      BY DEF rowState, buildState
    <2>2. harnessRows(h, w, obs) = {rowState(s, ss, result, w.status, obs) : s \in ss}
      BY <1>3, <1>8
    <2>3. CASE result \in PENDING_STATUSES
      BY <1>2, <1>8, <2>1, <2>2, <2>3 DEF Troubled
    <2>4. CASE result \notin PENDING_STATUSES
      <3>1. w.status # "installed" => w.status \notin CONFIGURED_STATUSES
        BY <1>2, <2>4 DEF Sited, CONFIGURED_STATUSES, PENDING_STATUSES
      <3>2. \A s \in ss :
              /\ coverage(s, ss, w.status, obs) \in {"uncovered", "active", "wired"}
              /\ w.status # "installed" => coverage(s, ss, w.status, obs) = "uncovered"
        BY <3>1, CoverageIs
      <3>3. \A s \in ss : rowState(s, ss, result, w.status, obs) \in
              {"ready", "beeping"} <=>
                 w.status # "error" /\ coverage(s, ss, w.status, obs) # "uncovered"
        BY <2>1, <2>4, <3>2
      <3>4. Troubled(h, w, obs) <=>
              \E s \in ss : rowState(s, ss, result, w.status, obs) \notin {"ready", "beeping"}
        BY <2>2 DEF Troubled
      <3>5. Troubled(h, w, obs) <=> Missed(h, w, obs)
        BY <1>4, <1>8, <3>2, <3>3, <3>4
      <3> QED  BY <2>1, <2>2, <3>5
    <2> QED  BY <2>3, <2>4
  <1> QED  BY <1>6, <1>7, <1>8

-----------------------------------------------------------------------------
(* What the commands of a moment make of it.                               *)

HandlerOf(f) == resolveHookHarness(f.cmd, f.payload)
Heard(f) == mapEvent(HandlerOf(f), f.arg, f.payload)
Accepted(f) ==
    /\ f.cmd = "copilot" => f.arg \in COPILOT_HOOK_EVENTS
    /\ recognizesPayload(HandlerOf(f), f.payload)
Sends(f) == Accepted(f) /\ Heard(f) # Unmapped /\ shouldSendEventType(Heard(f).type)
Beeping(f) == Sends(f) /\ isNotifiableEventType(Heard(f).type)
Approval(e) == e.type = "approval_required"

\* Whoever is handed a payload takes it only on behalf of the moment's harness.
TakenFor(by, f) == Accepted(f) => HandlerOf(f) = by
\* OpenCode says twice that it waits.
Twice(m) == m.by = "opencode" /\ m.kind = "waits"
\* A moment that wants the user has a command of its harness that beeps, every
\* command does so or goes with one that does, and their beeps are one for the
\* ledger; no command beeps for another moment.
BeepsRight(m) ==
    /\ m.by \in Harnesses /\ \A f \in m.fires : TakenFor(m.by, f)
    /\ ~WantsUser(m) => \A f \in m.fires : ~Beeping(f)
    /\ WantsUser(m) => \E f \in m.fires : f.cmd = m.by /\ Beeping(f)
    /\ WantsUser(m) /\ ~Twice(m) =>
         /\ \A f \in m.fires : \E g \in m.fires : g.cmd = f.cmd /\ Beeping(g)
         /\ \A f, g \in m.fires : Beeping(f) /\ Beeping(g) =>
              Heard(f) = Heard(g) \/ (Approval(Heard(f)) /\ Approval(Heard(g)))
    /\ Twice(m) =>
         /\ \A f, g \in m.fires : f.cmd = g.cmd /\ Beeping(f) /\ ~Approval(Heard(f))
         /\ \E f, g \in m.fires : m.fires = {f, g} /\ Heard(f) # Heard(g)

LEMMA BeepingIs == \A f : Beeping(f) <=> Accepted(f) /\ Heard(f).type \in Notified
  <1>1. Unmapped.type \notin Notified
    BY DEF Unmapped, Notified
  <1>2. \A t \in Notified : shouldSendEventType(t)
    BY DEF shouldSendEventType, Notified, LocalOnly
  <1> QED  BY <1>1, <1>2 DEF Beeping, Sends, isNotifiableEventType

Wanting == {"approval", "waits", "turnEnd", "failure"}
LEMMA SilentMoment ==
    ASSUME NEW by \in Harnesses, NEW kind, kind \notin Wanting, NEW F,
           \A f \in F : TakenFor(by, f) /\ ~Beeping(f)
    PROVE  BeepsRight(Moment(by, kind, F))
  BY DEF BeepsRight, Moment, WantsUser, Twice, Wanting

LEMMA SilentFire ==
    ASSUME NEW by \in Harnesses, NEW kind, kind \notin Wanting, NEW f,
           TakenFor(by, f), ~Beeping(f)
    PROVE  BeepsRight(Moment(by, kind, {f}))
  <1>1. \A g \in {f} : TakenFor(by, g) /\ ~Beeping(g)
    OBVIOUS
  <1> QED  BY <1>1, SilentMoment

LEMMA BeepingMoment ==
    ASSUME NEW by \in Harnesses, NEW kind \in Wanting, ~(by = "opencode" /\ kind = "waits"),
           NEW f, TakenFor(by, f), f.cmd = by, Beeping(f),
           NEW g, TakenFor(by, g),
           \/ Beeping(g) /\ (Heard(g) = Heard(f) \/ (Approval(Heard(f)) /\ Approval(Heard(g))))
           \/ ~Beeping(g) /\ g.cmd = f.cmd
    PROVE  BeepsRight(Moment(by, kind, {f, g}))
  <1>1. PICK m : m = Moment(by, kind, {f, g})
    OBVIOUS
  <1>2. m.by = by /\ m.kind = kind /\ m.fires = {f, g}
    BY <1>1 DEF Moment
  <1> QED  BY <1>1, <1>2 DEF BeepsRight, WantsUser, Twice, Wanting

LEMMA BeepingFire ==
    ASSUME NEW by \in Harnesses, NEW kind \in Wanting, ~(by = "opencode" /\ kind = "waits"),
           NEW f, TakenFor(by, f), f.cmd = by, Beeping(f)
    PROVE  BeepsRight(Moment(by, kind, {f}))
  <1>1. {f, f} = {f}
    OBVIOUS
  <1> QED  BY <1>1, BeepingMoment, Zenon

LEMMA ClaudeHears ==
    ASSUME NEW name, NEW detail, NEW f, f = Told("claude", name, detail)
    PROVE  /\ f.cmd = "claude" /\ TakenFor("claude", f)
           /\ Heard(f) = mapClaudeEvent(name, detail)
           /\ Accepted(f) <=> name \in CLAUDE_CODE_HOOK_EVENTS
  <1>1. /\ f.cmd = "claude" /\ f.payload.by = "claude" /\ f.payload.name = name
        /\ f.payload.detail = detail /\ f.payload.key = "hook_event_name"
    BY Keys DEF Told, Fire
  <1>2. HandlerOf(f) = "claude"
    BY <1>1 DEF HandlerOf, resolveHookHarness, isCursorHookPayload, HasCursorVersion
  <1>3. Heard(f) = mapClaudeEvent(name, detail)
    BY <1>1, <1>2 DEF Heard, mapEvent
  <1>4. Accepted(f) <=> name \in CLAUDE_CODE_HOOK_EVENTS
    BY <1>1, <1>2 DEF Accepted, recognizesPayload, HookNamed
  <1> QED  BY <1>1, <1>2, <1>3, <1>4 DEF TakenFor

LEMMA CodexHears ==
    ASSUME NEW name, NEW detail, NEW f, f = Told("codex", name, detail)
    PROVE  /\ f.cmd = "codex" /\ TakenFor("codex", f)
           /\ Heard(f) = mapCodexEvent(name, detail)
           /\ Accepted(f) <=> name \in CODEX_HOOK_EVENTS
  <1>1. /\ f.cmd = "codex" /\ f.payload.by = "codex" /\ f.payload.name = name
        /\ f.payload.detail = detail /\ f.payload.key = "hook_event_name"
    BY Keys DEF Told, Fire
  <1>2. HandlerOf(f) = "codex"
    BY <1>1 DEF HandlerOf, resolveHookHarness
  <1>3. Heard(f) = mapCodexEvent(name, detail)
    BY <1>1, <1>2 DEF Heard, mapEvent
  <1>4. Accepted(f) <=> name \in CODEX_HOOK_EVENTS
    BY <1>1, <1>2 DEF Accepted, recognizesPayload, HookNamed, TypeNamed
  <1> QED  BY <1>1, <1>2, <1>3, <1>4 DEF TakenFor

LEMMA NotifyHears ==
    ASSUME NEW name, NEW detail, NEW f, f = CodexNotify(name, detail)
    PROVE  /\ f.cmd = "codex" /\ TakenFor("codex", f)
           /\ Heard(f) = mapCodexEvent(name, detail)
           /\ Accepted(f) <=> name \in CODEX_NOTIFY_TYPES
  <1>1. /\ f.cmd = "codex" /\ f.payload.by = "codex" /\ f.payload.name = name
        /\ f.payload.detail = detail /\ f.payload.key = "type"
    BY DEF CodexNotify
  <1>2. HandlerOf(f) = "codex"
    BY <1>1 DEF HandlerOf, resolveHookHarness
  <1>3. Heard(f) = mapCodexEvent(name, detail)
    BY <1>1, <1>2 DEF Heard, mapEvent
  <1>4. Accepted(f) <=> name \in CODEX_NOTIFY_TYPES
    BY <1>1, <1>2 DEF Accepted, recognizesPayload, HookNamed, TypeNamed
  <1> QED  BY <1>1, <1>2, <1>3, <1>4 DEF TakenFor

LEMMA CursorHears ==
    ASSUME NEW name, NEW detail, NEW f, f \in CursorBoth(name, detail)
    PROVE  /\ TakenFor("cursor", f) /\ Heard(f) = mapCursorEvent(name, detail)
           /\ Accepted(f) <=> name \in CURSOR_HOOK_EVENTS
           /\ f = Told("cursor", name, detail) => f.cmd = "cursor"
  <1>1. /\ f.cmd \in {"claude", "cursor"} /\ f.payload.by = "cursor" /\ f.payload.name = name
        /\ f.payload.detail = detail /\ f.payload.key = "hook_event_name"
        /\ f = Told("cursor", name, detail) => f.cmd = "cursor"
    <2>1. CASE f = Told("cursor", name, detail)
      BY <2>1, Keys DEF Told, Fire
    <2>2. CASE f = Bridged(name, detail)
      <3>1. /\ f.cmd = "claude" /\ f.payload.by = "cursor" /\ f.payload.name = name
            /\ f.payload.detail = detail /\ f.payload.key = "hook_event_name"
        BY <2>2, Keys DEF Bridged, Fire
      <3>2. Told("cursor", name, detail).cmd = "cursor"
        BY DEF Told, Fire
      <3> QED  BY <3>1, <3>2
    <2> QED  BY <2>1, <2>2, Zenon DEF CursorBoth
  <1>2. HandlerOf(f) = "cursor"
    BY <1>1 DEF HandlerOf, resolveHookHarness, isCursorHookPayload, HasCursorVersion
  <1>3. Heard(f) = mapCursorEvent(name, detail)
    BY <1>1, <1>2 DEF Heard, mapEvent
  <1>4. Accepted(f) <=> name \in CURSOR_HOOK_EVENTS
    BY <1>1, <1>2 DEF Accepted, recognizesPayload, HookNamed
  <1> QED  BY <1>1, <1>2, <1>3, <1>4 DEF TakenFor

LEMMA OpenCodeHears ==
    ASSUME NEW name, NEW detail, NEW f, f = Told("opencode", name, detail)
    PROVE  /\ f.cmd = "opencode" /\ TakenFor("opencode", f)
           /\ Heard(f) = mapOpenCodeEvent(name, detail)
           /\ Accepted(f) <=> name \in OPENCODE_EVENT_TYPES
  <1>1. /\ f.cmd = "opencode" /\ f.payload.by = "opencode" /\ f.payload.name = name
        /\ f.payload.detail = detail /\ f.payload.key = "type"
    BY Keys DEF Told, Fire
  <1>2. HandlerOf(f) = "opencode"
    BY <1>1 DEF HandlerOf, resolveHookHarness
  <1>3. Heard(f) = mapOpenCodeEvent(name, detail)
    BY <1>1, <1>2 DEF Heard, mapEvent
  <1>4. Accepted(f) <=> name \in OPENCODE_EVENT_TYPES
    BY <1>1, <1>2 DEF Accepted, recognizesPayload, TypeNamed
  <1> QED  BY <1>1, <1>2, <1>3, <1>4 DEF TakenFor

LEMMA CopilotHears ==
    ASSUME NEW name, NEW f, f = Copilot(name)
    PROVE  /\ f.cmd = "copilot" /\ TakenFor("copilot", f)
           /\ Heard(f) = mapCopilotEvent(name)
           /\ Accepted(f) <=> name \in COPILOT_HOOK_EVENTS
  <1>1. f.cmd = "copilot" /\ f.arg = name /\ f.payload.by = "copilot"
    BY DEF Copilot, Fire
  <1>2. HandlerOf(f) = "copilot"
    BY <1>1 DEF HandlerOf, resolveHookHarness
  <1>3. Heard(f) = mapCopilotEvent(name)
    BY <1>1, <1>2 DEF Heard, mapEvent
  <1>4. Accepted(f) <=> name \in COPILOT_HOOK_EVENTS
    BY <1>1, <1>2 DEF Accepted, recognizesPayload, HasSessionId
  <1> QED  BY <1>1, <1>2, <1>3, <1>4 DEF TakenFor

-----------------------------------------------------------------------------
(* What each name becomes.                                                 *)

LEMMA ClaudeMaps ==
    /\ mapClaudeEvent("SessionStart", "").type = "session_started"
    /\ mapClaudeEvent("SessionStart", "resume").type = "session_resumed"
    /\ mapClaudeEvent("PermissionRequest", "").type = "approval_required"
    /\ mapClaudeEvent("Notification", "permission_prompt").type = "approval_required"
    /\ mapClaudeEvent("Notification", "idle_prompt").type = "agent_idle"
    /\ mapClaudeEvent("Notification", "question").type = "needs_input"
    /\ mapClaudeEvent("Stop", "").type = "agent_completed"
    /\ mapClaudeEvent("StopFailure", "").type = "agent_failed"
    /\ mapClaudeEvent("SubagentStop", "").type = "subagent_completed"
    /\ mapClaudeEvent("SessionEnd", "").type = "session_ended"
  BY DEF mapClaudeEvent, Ev, Unmapped
LEMMA CodexMaps ==
    /\ mapCodexEvent("SessionStart", "").type = "session_started"
    /\ mapCodexEvent("SessionStart", "resume").type = "session_resumed"
    /\ mapCodexEvent("PermissionRequest", "").type = "approval_required"
    /\ mapCodexEvent("PostToolUse", "").type = "tool_finished"
    /\ mapCodexEvent("SubagentStart", "").type = "subagent_started"
    /\ mapCodexEvent("SubagentStop", "").type = "subagent_completed"
    /\ mapCodexEvent("Stop", "").type = "agent_completed"
    /\ mapCodexEvent("agent-turn-complete", "") = mapCodexEvent("Stop", "")
    /\ mapCodexEvent("Stop", "internal").type = "unmapped"
    /\ mapCodexEvent("agent-turn-complete", "internal").type = "unmapped"
  BY DEF mapCodexEvent, Ev, Unmapped, isCodexInternalResultPayload
LEMMA CursorMaps ==
    /\ mapCursorEvent("sessionStart", "").type = "session_started"
    /\ mapCursorEvent("stop", "").type = "agent_completed"
    /\ mapCursorEvent("sessionEnd", "completed").type = "agent_completed"
    /\ mapCursorEvent("sessionEnd", "aborted").type = "session_ended"
    /\ mapCursorEvent("preToolUse", "").type = "tool_started"
    /\ mapCursorEvent("postToolUse", "").type = "tool_finished"
    /\ mapCursorEvent("beforeShellExecution", "").type = "approval_required"
    /\ mapCursorEvent("beforeMCPExecution", "").type = "approval_required"
    /\ mapCursorEvent("postToolUseFailure", "").type = "agent_failed"
    /\ mapCursorEvent("postToolUseFailure", "interrupt").type = "unmapped"
    /\ mapCursorEvent("subagentStart", "").type = "subagent_started"
    /\ mapCursorEvent("subagentStop", "").type = "subagent_completed"
    /\ mapCursorEvent("beforeSubmitPrompt", "").type = "unmapped"
  BY DEF mapCursorEvent, Ev, Unmapped
LEMMA OpenCodeMaps ==
    /\ mapOpenCodeEvent("session.created", "").type = "session_started"
    /\ mapOpenCodeEvent("session.updated", "").type = "session_active"
    /\ mapOpenCodeEvent("session.status", "busy").type = "session_active"
    /\ mapOpenCodeEvent("session.status", "idle").type = "agent_idle"
    /\ mapOpenCodeEvent("session.status", "idle").body = ""
    /\ mapOpenCodeEvent("session.idle", "").type = "agent_idle"
    /\ mapOpenCodeEvent("session.idle", "").body = "agent_idle"
    /\ mapOpenCodeEvent("session.error", "").type = "agent_failed"
    /\ mapOpenCodeEvent("permission.asked", "").type = "approval_required"
    /\ mapOpenCodeEvent("permission.replied", "").type = "unmapped"
    /\ mapOpenCodeEvent("tool.execute.before", "").type = "tool_started"
    /\ mapOpenCodeEvent("tool.execute.after", "").type = "tool_finished"
  BY DEF mapOpenCodeEvent, Ev, Unmapped
LEMMA CopilotMaps ==
    /\ mapCopilotEvent("sessionStart").type = "session_started"
    /\ mapCopilotEvent("userPromptSubmitted").type = "session_active"
    /\ mapCopilotEvent("preToolUse").type = "tool_started"
    /\ mapCopilotEvent("postToolUse").type = "tool_finished"
    /\ mapCopilotEvent("agentStop").type = "agent_completed"
    /\ mapCopilotEvent("subagentStop").type = "subagent_completed"
    /\ mapCopilotEvent("errorOccurred").type = "agent_failed"
    /\ mapCopilotEvent("sessionEnd").type = "session_ended"
  BY DEF mapCopilotEvent, Ev, Unmapped

LEMMA ClaudeBeeps == \A m \in ClaudeMoments : BeepsRight(m)
  <1> DEFINE T(name, detail) == Told("claude", name, detail)
  <1>1. /\ \A name, detail : T(name, detail).cmd = "claude" /\ TakenFor("claude", T(name, detail))
        /\ \A name \in CLAUDE_CODE_HOOK_EVENTS : \A detail :
             Beeping(T(name, detail)) <=> mapClaudeEvent(name, detail).type \in Notified
    BY ClaudeHears, BeepingIs
  <1>2. /\ \A name, detail : Heard(T(name, detail)) = mapClaudeEvent(name, detail)
        /\ Own("claude", "PermissionRequest") = T("PermissionRequest", "")
    BY ClaudeHears DEF Own, Told
  <1>3. {"SessionStart", "SessionEnd", "SubagentStop", "Notification", "PermissionRequest",
         "Stop", "StopFailure"} \subseteq CLAUDE_CODE_HOOK_EVENTS
    BY DEF CLAUDE_CODE_HOOK_EVENTS
  <1> HIDE DEF T
  <1>4. /\ \A x \in {"start", "other", "end"} : x \notin Wanting
        /\ \A x \in {"approval", "waits", "turnEnd", "failure"} : x \in Wanting
        /\ "claude" \in Harnesses
    BY DEF Wanting, Harnesses
  <1>5. /\ ~Beeping(T("SessionStart", "")) /\ ~Beeping(T("SessionStart", "resume"))
        /\ ~Beeping(T("SubagentStop", "")) /\ ~Beeping(T("SessionEnd", ""))
        /\ Beeping(T("PermissionRequest", "")) /\ Beeping(T("Notification", "permission_prompt"))
        /\ Beeping(T("Notification", "idle_prompt")) /\ Beeping(T("Notification", "question"))
        /\ Beeping(T("Stop", "")) /\ Beeping(T("StopFailure", ""))
    BY <1>1, <1>3, ClaudeMaps DEF Notified
  <1>6. \A kind \in {"start", "other", "end"} : \A name, detail :
          ~Beeping(T(name, detail)) => BeepsRight(Plain("claude", kind, name, detail))
    BY <1>1, <1>4, SilentFire DEF Plain, T
  <1>7. \A kind \in {"waits", "turnEnd", "failure"} : \A name, detail :
          Beeping(T(name, detail)) => BeepsRight(Plain("claude", kind, name, detail))
    BY <1>1, <1>4, BeepingFire DEF Plain, T
  <1>8. BeepsRight(Moment("claude", "approval", {Own("claude", "PermissionRequest"),
                          Told("claude", "Notification", "permission_prompt")}))
    <2>1. /\ Approval(Heard(T("PermissionRequest", "")))
          /\ Approval(Heard(T("Notification", "permission_prompt")))
      BY <1>2, ClaudeMaps DEF Approval
    <2> QED  BY <1>1, <1>2, <1>4, <1>5, <2>1, BeepingMoment DEF T
  <1> QED  BY <1>5, <1>6, <1>7, <1>8, Zenon DEF ClaudeMoments

LEMMA CodexBeeps == \A m \in CodexMoments : BeepsRight(m)
  <1> DEFINE T(name, detail) == Told("codex", name, detail)
             N(name, detail) == CodexNotify(name, detail)
  <1>1. /\ \A name, detail : T(name, detail).cmd = "codex" /\ TakenFor("codex", T(name, detail))
        /\ \A name, detail : N(name, detail).cmd = "codex" /\ TakenFor("codex", N(name, detail))
        /\ \A name \in CODEX_HOOK_EVENTS : \A detail :
             Beeping(T(name, detail)) <=> mapCodexEvent(name, detail).type \in Notified
        /\ \A detail : Beeping(N("agent-turn-complete", detail)) <=>
                        mapCodexEvent("agent-turn-complete", detail).type \in Notified
        /\ ~Beeping(N("another-tool", ""))
    <2>1. \A name, detail : /\ T(name, detail).cmd = "codex" /\ TakenFor("codex", T(name, detail))
                            /\ Heard(T(name, detail)) = mapCodexEvent(name, detail)
                            /\ Accepted(T(name, detail)) <=> name \in CODEX_HOOK_EVENTS
      BY CodexHears
    <2>2. \A name, detail : /\ N(name, detail).cmd = "codex" /\ TakenFor("codex", N(name, detail))
                            /\ Heard(N(name, detail)) = mapCodexEvent(name, detail)
                            /\ Accepted(N(name, detail)) <=> name \in CODEX_NOTIFY_TYPES
      BY NotifyHears
    <2>3. "agent-turn-complete" \in CODEX_NOTIFY_TYPES /\ "another-tool" \notin CODEX_NOTIFY_TYPES
      BY DEF CODEX_NOTIFY_TYPES
    <2> HIDE DEF T, N
    <2> QED  BY <2>1, <2>2, <2>3, BeepingIs
  <1>2. /\ Heard(T("Stop", "")) = mapCodexEvent("Stop", "")
        /\ Heard(N("agent-turn-complete", "")) = mapCodexEvent("agent-turn-complete", "")
        /\ Own("codex", "Stop") = T("Stop", "")
    BY CodexHears, NotifyHears DEF Own, Told
  <1>3. {"SessionStart", "PermissionRequest", "PostToolUse", "SubagentStart", "SubagentStop",
         "Stop"} \subseteq CODEX_HOOK_EVENTS
    BY DEF CODEX_HOOK_EVENTS
  <1> HIDE DEF T, N
  <1>4. /\ \A x \in {"start", "tool", "other", "hidden", "foreign"} : x \notin Wanting
        /\ \A x \in {"approval", "turnEnd"} : x \in Wanting
        /\ "codex" \in Harnesses
    BY DEF Wanting, Harnesses
  <1>5. /\ ~Beeping(T("SessionStart", "")) /\ ~Beeping(T("SessionStart", "resume"))
        /\ ~Beeping(T("PostToolUse", "")) /\ ~Beeping(T("SubagentStart", ""))
        /\ ~Beeping(T("SubagentStop", "")) /\ ~Beeping(T("Stop", "internal"))
        /\ ~Beeping(N("agent-turn-complete", "internal"))
        /\ Beeping(T("PermissionRequest", "")) /\ Beeping(T("Stop", ""))
        /\ Beeping(N("agent-turn-complete", ""))
    BY <1>1, <1>3, CodexMaps DEF Notified
  <1>6. \A kind \in {"start", "tool", "other"} : \A name, detail :
          ~Beeping(T(name, detail)) => BeepsRight(Plain("codex", kind, name, detail))
    BY <1>1, <1>4, SilentFire DEF Plain, T
  <1>7. \A kind \in {"approval", "turnEnd"} : \A name, detail :
          Beeping(T(name, detail)) => BeepsRight(Plain("codex", kind, name, detail))
    BY <1>1, <1>4, BeepingFire DEF Plain, T
  <1>8. BeepsRight(Moment("codex", "turnEnd", {Own("codex", "Stop"),
                          CodexNotify("agent-turn-complete", "")}))
    <2>1. Heard(T("Stop", "")) = Heard(N("agent-turn-complete", ""))
      BY <1>2, CodexMaps
    <2> QED  BY <1>1, <1>2, <1>4, <1>5, <2>1, BeepingMoment DEF N
  <1>9. BeepsRight(Moment("codex", "hidden", {Told("codex", "Stop", "internal"),
                          CodexNotify("agent-turn-complete", "internal")}))
    <2>1. \A f \in {T("Stop", "internal"), N("agent-turn-complete", "internal")} :
            TakenFor("codex", f) /\ ~Beeping(f)
      BY <1>1, <1>5
    <2> QED  BY <1>4, <2>1, SilentMoment DEF T, N
  <1>10. BeepsRight(Moment("codex", "foreign", {CodexNotify("another-tool", "")}))
    BY <1>1, <1>4, SilentFire DEF N
  <1> QED  BY <1>5, <1>6, <1>7, <1>8, <1>9, <1>10, Zenon DEF CodexMoments

LEMMA CursorBeeps == \A m \in CursorMoments : BeepsRight(m)
  <1> DEFINE T(name, detail) == Told("cursor", name, detail)
             B(name, detail) == Bridged(name, detail)
  <1>1. /\ \A name, detail : T(name, detail).cmd = "cursor" /\ TakenFor("cursor", T(name, detail))
        /\ \A name, detail : TakenFor("cursor", B(name, detail))
        /\ \A name \in CURSOR_HOOK_EVENTS : \A detail :
             /\ Beeping(T(name, detail)) <=> mapCursorEvent(name, detail).type \in Notified
             /\ Beeping(B(name, detail)) <=> mapCursorEvent(name, detail).type \in Notified
        /\ \A name, detail : /\ Heard(T(name, detail)) = mapCursorEvent(name, detail)
                             /\ Heard(B(name, detail)) = mapCursorEvent(name, detail)
    <2>1. \A name, detail : /\ Told("cursor", name, detail) \in CursorBoth(name, detail)
                            /\ Bridged(name, detail) \in CursorBoth(name, detail)
      BY Zenon DEF CursorBoth
    <2> QED  BY <2>1, CursorHears, BeepingIs
  <1>2. \A name : Own("cursor", name) = T(name, "")
    BY DEF Own, Told
  <1>3. {"sessionStart", "stop", "sessionEnd", "preToolUse", "postToolUse", "beforeShellExecution",
         "beforeMCPExecution", "postToolUseFailure", "subagentStart", "subagentStop",
         "beforeSubmitPrompt"} \subseteq CURSOR_HOOK_EVENTS
    BY DEF CURSOR_HOOK_EVENTS
  <1> HIDE DEF T, B
  <1>4. /\ \A x \in {"start", "end", "tool", "hidden", "other"} : x \notin Wanting
        /\ \A x \in {"turnEnd", "approval", "failure"} : x \in Wanting
        /\ "cursor" \in Harnesses
    BY DEF Wanting, Harnesses
  <1>5. /\ ~Beeping(T("sessionStart", "")) /\ ~Beeping(B("sessionStart", ""))
        /\ ~Beeping(T("sessionEnd", "aborted")) /\ ~Beeping(B("sessionEnd", "aborted"))
        /\ ~Beeping(T("preToolUse", "")) /\ ~Beeping(T("postToolUse", ""))
        /\ ~Beeping(T("postToolUseFailure", "interrupt")) /\ ~Beeping(T("subagentStart", ""))
        /\ ~Beeping(T("subagentStop", "")) /\ ~Beeping(B("subagentStop", ""))
        /\ ~Beeping(T("beforeSubmitPrompt", ""))
        /\ Beeping(T("stop", "")) /\ Beeping(B("stop", ""))
        /\ Beeping(T("sessionEnd", "completed")) /\ Beeping(B("sessionEnd", "completed"))
        /\ Beeping(T("beforeShellExecution", "")) /\ Beeping(T("beforeMCPExecution", ""))
        /\ Beeping(T("postToolUseFailure", ""))
    BY <1>1, <1>3, CursorMaps, ZenonT(60) DEF Notified
  <1>6. \A kind \in {"start", "end", "tool", "hidden", "other"} : \A name, detail :
          ~Beeping(T(name, detail)) => BeepsRight(Plain("cursor", kind, name, detail))
    BY <1>1, <1>4, SilentFire DEF Plain, T
  <1>7. \A kind \in {"approval", "failure"} : \A name, detail :
          Beeping(T(name, detail)) => BeepsRight(Plain("cursor", kind, name, detail))
    BY <1>1, <1>4, BeepingFire DEF Plain, T
  <1>8. \A kind \in {"start", "end", "other"} : \A name, detail :
          ~Beeping(T(name, detail)) /\ ~Beeping(B(name, detail)) =>
            BeepsRight(Moment("cursor", kind, CursorBoth(name, detail)))
    <2>1. \A name, detail : CursorBoth(name, detail) = {T(name, detail), B(name, detail)}
      BY Zenon DEF CursorBoth, T, B
    <2> QED  BY <1>1, <1>4, <2>1, SilentMoment
  <1>9. \A name, detail :
          Beeping(T(name, detail)) /\ Beeping(B(name, detail)) =>
            BeepsRight(Moment("cursor", "turnEnd", CursorBoth(name, detail)))
    BY <1>1, <1>4, BeepingMoment DEF CursorBoth, T, B
  <1>10. BeepsRight(Moment("cursor", "tool", {Own("cursor", "preToolUse"),
                                              Own("cursor", "postToolUse")}))
    <2>1. PICK f, g : f = T("preToolUse", "") /\ g = T("postToolUse", "")
      OBVIOUS
    <2>2. /\ TakenFor("cursor", f) /\ ~Beeping(f) /\ TakenFor("cursor", g) /\ ~Beeping(g)
      BY <1>1, <1>5, <2>1
    <2>3. BeepsRight(Moment("cursor", "tool", {f, g}))
      BY <1>4, <2>2, SilentMoment
    <2>4. Own("cursor", "preToolUse") = f /\ Own("cursor", "postToolUse") = g
      BY <1>2, <2>1
    <2> QED  BY <2>3, <2>4
  <1>11. BeepsRight(Moment("cursor", "approval", {Own("cursor", "preToolUse"),
                                                  Own("cursor", "beforeShellExecution")}))
    <2>1. PICK f, g : f = T("beforeShellExecution", "") /\ g = T("preToolUse", "")
      OBVIOUS
    <2>2. /\ f.cmd = "cursor" /\ g.cmd = "cursor" /\ Beeping(f) /\ ~Beeping(g)
          /\ TakenFor("cursor", f) /\ TakenFor("cursor", g)
      BY <1>1, <1>5, <2>1
    <2>3. BeepsRight(Moment("cursor", "approval", {f, g}))
      BY <1>4, <2>2, BeepingMoment
    <2>4. {Own("cursor", "preToolUse"), Own("cursor", "beforeShellExecution")} = {f, g}
      BY <1>2, <2>1
    <2> QED  BY <2>3, <2>4
  <1> QED  BY <1>5, <1>6, <1>7, <1>8, <1>9, <1>10, <1>11, Zenon DEF CursorMoments

LEMMA OpenCodeBeeps == \A m \in OpenCodeMoments : BeepsRight(m)
  <1> DEFINE T(name, detail) == Told("opencode", name, detail)
  <1>1. /\ \A name, detail : /\ T(name, detail).cmd = "opencode"
                             /\ TakenFor("opencode", T(name, detail))
                             /\ Heard(T(name, detail)) = mapOpenCodeEvent(name, detail)
        /\ \A name \in OPENCODE_EVENT_TYPES : \A detail :
             Beeping(T(name, detail)) <=> mapOpenCodeEvent(name, detail).type \in Notified
    BY OpenCodeHears, BeepingIs
  <1>2. Own("opencode", "permission.replied") = T("permission.replied", "")
    BY DEF Own, Told
  <1>3. /\ {"session.created", "session.updated", "session.status", "session.idle",
            "session.error", "permission.asked", "permission.replied", "tool.execute.before",
            "tool.execute.after"} \subseteq OPENCODE_EVENT_TYPES
        /\ "message.part.updated" \notin FORWARDED_BUS_EVENTS \cup
                                          {"tool.execute.before", "tool.execute.after"}
    BY DEF OPENCODE_EVENT_TYPES, FORWARDED_BUS_EVENTS
  <1>4. /\ \A name \in FORWARDED_BUS_EVENTS \cup {"tool.execute.before", "tool.execute.after"} :
             \A detail : Forwarded(name, detail) = {T(name, detail)}
        /\ Forwarded("message.part.updated", "") = {}
    BY <1>3 DEF Forwarded
  <1> HIDE DEF T
  <1>5. /\ \A x \in {"start", "other", "tool", "hidden"} : x \notin Wanting
        /\ \A x \in {"waits", "failure", "approval"} : x \in Wanting
        /\ "opencode" \in Harnesses
    BY DEF Wanting, Harnesses
  <1>6. /\ ~Beeping(T("session.created", "")) /\ ~Beeping(T("session.updated", ""))
        /\ ~Beeping(T("session.status", "busy")) /\ ~Beeping(T("tool.execute.before", ""))
        /\ ~Beeping(T("tool.execute.after", "")) /\ ~Beeping(T("permission.replied", ""))
        /\ Beeping(T("session.status", "idle")) /\ Beeping(T("session.idle", ""))
        /\ Beeping(T("session.error", "")) /\ Beeping(T("permission.asked", ""))
    BY <1>1, <1>3, OpenCodeMaps DEF Notified
  <1>7. {"session.created", "session.updated", "session.status", "session.idle",
         "session.error", "permission.asked"} \subseteq FORWARDED_BUS_EVENTS
    BY DEF FORWARDED_BUS_EVENTS
  <1>8. \A kind \in {"start", "other"} : \A name \in FORWARDED_BUS_EVENTS : \A detail :
          ~Beeping(T(name, detail)) =>
            BeepsRight(Moment("opencode", kind, Forwarded(name, detail)))
    <2> SUFFICES ASSUME NEW kind \in {"start", "other"}, NEW name \in FORWARDED_BUS_EVENTS,
                        NEW detail, ~Beeping(T(name, detail))
                 PROVE  BeepsRight(Moment("opencode", kind, Forwarded(name, detail)))
      OBVIOUS
    <2>1. Forwarded(name, detail) = {T(name, detail)}
      BY <1>4
    <2>2. T(name, detail).cmd = "opencode" /\ TakenFor("opencode", T(name, detail))
      BY <1>1
    <2>3. BeepsRight(Moment("opencode", kind, {T(name, detail)}))
      BY <1>5, <2>2, SilentFire
    <2> QED  BY <2>1, <2>3
  <1>9. \A kind \in {"failure", "approval"} : \A name \in FORWARDED_BUS_EVENTS : \A detail :
          Beeping(T(name, detail)) =>
            BeepsRight(Moment("opencode", kind, Forwarded(name, detail)))
    <2> SUFFICES ASSUME NEW kind \in {"failure", "approval"}, NEW name \in FORWARDED_BUS_EVENTS,
                        NEW detail, Beeping(T(name, detail))
                 PROVE  BeepsRight(Moment("opencode", kind, Forwarded(name, detail)))
      OBVIOUS
    <2>1. Forwarded(name, detail) = {T(name, detail)}
      BY <1>4
    <2>2. T(name, detail).cmd = "opencode" /\ TakenFor("opencode", T(name, detail))
      BY <1>1
    <2>3. BeepsRight(Moment("opencode", kind, {T(name, detail)}))
      BY <1>5, <2>2, BeepingFire
    <2> QED  BY <2>1, <2>3
  <1>10. BeepsRight(Moment("opencode", "hidden", Forwarded("message.part.updated", "")))
    BY <1>4, <1>5, SilentMoment
  <1>11. BeepsRight(Moment("opencode", "hidden", {Own("opencode", "permission.replied")}))
    BY <1>1, <1>2, <1>5, <1>6, SilentFire
  <1>12. BeepsRight(Moment("opencode", "tool", Forwarded("tool.execute.before", "")
                                               \cup Forwarded("tool.execute.after", "")))
    <2>1. /\ Forwarded("tool.execute.before", "") = {T("tool.execute.before", "")}
          /\ Forwarded("tool.execute.after", "") = {T("tool.execute.after", "")}
      BY <1>4
    <2>2. PICK f, g : f = T("tool.execute.before", "") /\ g = T("tool.execute.after", "")
      OBVIOUS
    <2>3. /\ TakenFor("opencode", f) /\ ~Beeping(f) /\ TakenFor("opencode", g) /\ ~Beeping(g)
      BY <1>1, <1>6, <2>2
    <2>4. \A x \in Forwarded("tool.execute.before", "") \cup Forwarded("tool.execute.after", "") :
            TakenFor("opencode", x) /\ ~Beeping(x)
      BY <2>1, <2>2, <2>3
    <2> QED  BY <1>5, <2>4, SilentMoment
  <1>13. BeepsRight(Moment("opencode", "waits", Forwarded("session.status", "idle")
                                                \cup Forwarded("session.idle", "")))
    <2>1. PICK f, g : f = T("session.status", "idle") /\ g = T("session.idle", "")
      OBVIOUS
    <2>2. PICK m : m = Moment("opencode", "waits", {f, g})
      OBVIOUS
    <2>3. /\ f.cmd = "opencode" /\ g.cmd = "opencode" /\ Beeping(f) /\ Beeping(g)
          /\ TakenFor("opencode", f) /\ TakenFor("opencode", g)
      BY <1>1, <1>6, <2>1
    <2>4. Heard(f) # Heard(g) /\ ~Approval(Heard(f)) /\ ~Approval(Heard(g))
      <3>1. Heard(f).body = "" /\ Heard(g).body = "agent_idle"
            /\ Heard(f).type = "agent_idle" /\ Heard(g).type = "agent_idle"
        BY <1>1, <2>1, OpenCodeMaps
      <3> QED  BY <3>1 DEF Approval
    <2>5. m.by = "opencode" /\ m.kind = "waits" /\ m.fires = {f, g}
      BY <2>2 DEF Moment
    <2>6. BeepsRight(m)
      BY <1>5, <2>3, <2>4, <2>5 DEF BeepsRight, WantsUser, Twice, Wanting
    <2>7. Forwarded("session.status", "idle") = {f} /\ Forwarded("session.idle", "") = {g}
      BY <1>4, <1>7, <2>1
    <2>8. Forwarded("session.status", "idle") \cup Forwarded("session.idle", "") = {f, g}
      BY <2>7
    <2> QED  BY <2>2, <2>6, <2>8
  <1> QED
    BY <1>6, <1>7, <1>8, <1>9, <1>10, <1>11, <1>12, <1>13, Zenon DEF OpenCodeMoments

LEMMA CopilotBeeps == \A m \in CopilotMoments : BeepsRight(m)
  <1>1. /\ \A name : Copilot(name).cmd = "copilot" /\ TakenFor("copilot", Copilot(name))
        /\ \A name \in COPILOT_HOOK_EVENTS :
             Beeping(Copilot(name)) <=> mapCopilotEvent(name).type \in Notified
    BY CopilotHears, BeepingIs
  <1>2. /\ \A x \in {"start", "other", "tool", "end"} : x \notin Wanting
        /\ \A x \in {"turnEnd", "failure"} : x \in Wanting
        /\ "copilot" \in Harnesses
    BY DEF Wanting, Harnesses
  <1>3. /\ ~Beeping(Copilot("sessionStart")) /\ ~Beeping(Copilot("userPromptSubmitted"))
        /\ ~Beeping(Copilot("preToolUse")) /\ ~Beeping(Copilot("postToolUse"))
        /\ ~Beeping(Copilot("subagentStop")) /\ ~Beeping(Copilot("sessionEnd"))
        /\ Beeping(Copilot("agentStop")) /\ Beeping(Copilot("errorOccurred"))
    BY <1>1, CopilotMaps DEF Notified, COPILOT_HOOK_EVENTS
  <1>4. \A kind \in {"start", "other", "end"} : \A name :
          ~Beeping(Copilot(name)) => BeepsRight(Moment("copilot", kind, {Copilot(name)}))
    BY <1>1, <1>2, SilentFire
  <1>5. \A kind \in {"turnEnd", "failure"} : \A name :
          Beeping(Copilot(name)) => BeepsRight(Moment("copilot", kind, {Copilot(name)}))
    BY <1>1, <1>2, BeepingFire
  <1>6. BeepsRight(Moment("copilot", "tool", {Copilot("preToolUse"), Copilot("postToolUse")}))
    <2>1. \A f \in {Copilot("preToolUse"), Copilot("postToolUse")} :
            TakenFor("copilot", f) /\ ~Beeping(f)
      BY <1>1, <1>3
    <2> QED  BY <1>2, <2>1, SilentMoment
  <1> QED  BY <1>3, <1>4, <1>5, <1>6, Zenon DEF CopilotMoments

LEMMA ForeignBeeps == \A m \in ForeignMoments : BeepsRight(m)
  <1>1. "foreign" \notin Wanting
    BY DEF Wanting
  <1>2. \A f : f.payload.by \in Harnesses /\ ~Accepted(f) => BeepsRight(Foreign(f))
    BY <1>1, SilentFire, BeepingIs DEF Foreign, TakenFor
  <1>3. ASSUME NEW h \in Harnesses \ {"claude", "cursor"}, NEW f,
               f = Fire(h, IF h = "copilot" THEN "agentStop" ELSE "", "cursor", "stop", "")
        PROVE  BeepsRight(Foreign(f))
    <2>1. /\ f.cmd = h /\ f.payload.by = "cursor" /\ f.payload.key = "hook_event_name"
          /\ f.payload.name = "stop"
      BY <1>3, Keys DEF Fire
    <2>2. HandlerOf(f) = h
      BY <2>1 DEF HandlerOf, resolveHookHarness
    <2>3. "stop" \notin CODEX_HOOK_EVENTS
      BY DEF CODEX_HOOK_EVENTS
    <2>4. ~recognizesPayload(h, f.payload)
      BY <2>1, <2>3 DEF recognizesPayload, HookNamed, TypeNamed, HasSessionId, Harnesses
    <2>5. ~Accepted(f) /\ f.payload.by \in Harnesses
      BY <2>1, <2>2, <2>4 DEF Accepted, Harnesses
    <2> QED  BY <1>2, <2>5
  <1>4. ASSUME NEW f, f = Fire("claude", "", "codex", "SubagentStart", "")
        PROVE  BeepsRight(Foreign(f))
    <2>1. /\ f.cmd = "claude" /\ f.payload.by = "codex" /\ f.payload.name = "SubagentStart"
      BY <1>4 DEF Fire
    <2>2. HandlerOf(f) = "claude"
      BY <2>1 DEF HandlerOf, resolveHookHarness, isCursorHookPayload, HasCursorVersion
    <2>3. "SubagentStart" \notin CLAUDE_CODE_HOOK_EVENTS
      BY DEF CLAUDE_CODE_HOOK_EVENTS
    <2>4. ~Accepted(f) /\ f.payload.by \in Harnesses
      BY <2>1, <2>2, <2>3 DEF Accepted, recognizesPayload, HookNamed, Harnesses
    <2> QED  BY <1>2, <2>4
  <1>5. ASSUME NEW f, f = Fire("copilot", "bogus", "copilot", "", "")
        PROVE  BeepsRight(Foreign(f))
    <2>1. f.cmd = "copilot" /\ f.arg = "bogus" /\ f.payload.by = "copilot"
      BY <1>5 DEF Fire
    <2>2. ~Accepted(f) /\ f.payload.by \in Harnesses
      BY <2>1 DEF Accepted, COPILOT_HOOK_EVENTS, Harnesses
    <2> QED  BY <1>2, <2>2
  <1> QED  BY <1>3, <1>4, <1>5 DEF ForeignMoments

\* Every moment of every harness is heard as it should be.
LEMMA AllBeeps == \A m \in Moments : BeepsRight(m)
  BY ClaudeBeeps, CodexBeeps, CursorBeeps, OpenCodeBeeps, CopilotBeeps, ForeignBeeps DEF Moments

-----------------------------------------------------------------------------
(* What a step leaves of a fire: whose it is and what it was told.         *)

Kin(r, s) ==
    /\ r.n = s.n /\ r.fire = s.fire /\ r.install = s.install /\ r.id = s.id
    /\ r.h = s.h /\ r.ev = s.ev
\* Where a fire meets others of its moment.
Ledgers == {"idle", "dedup", "send"}
\* The process goes on, at the same tally, away from the ledger.
Moves(p) ==
    /\ OthersStay(p) /\ fires[p].at \notin Ledgers /\ fires'[p].at \notin Ledgers
    /\ Kin(fires'[p], fires[p]) /\ fires'[p].file = fires[p].file
    /\ happened' = happened

LEMMA MovesTo ==
    ASSUME FiresOK, NEW p \in Procs, fires[p].at \notin Ledgers, NEW l, l \notin Ledgers,
           NEW t, NEW x, NEW c, happened' = happened,
           fires' = [fires EXCEPT ![p].at = l, ![p].todo = t, ![p].expired = x, ![p].copy = c]
    PROVE  Moves(p)
  <1>1. PICK r : r = fires[p]
    OBVIOUS
  <1>2. PICK r2 : r2 = [r EXCEPT !.at = l, !.todo = t, !.expired = x, !.copy = c]
    OBVIOUS
  <1>3. fires' = [fires EXCEPT ![p] = r2]
    BY <1>1, <1>2 DEF FiresOK
  <1>4. Shape(r)
    BY <1>1, Worker DEF Ledgers
  <1>5. r2.at = l /\ Kin(r2, r) /\ r2.file = r.file
    BY <1>2, <1>4 DEF Shape, Kin
  <1>6. OthersStay(p) /\ fires'[p] = r2
    BY <1>3, Replaced
  <1> QED  BY <1>1, <1>5, <1>6 DEF Moves

LEMMA GoMoves ==
    ASSUME FiresOK, NEW p \in Procs, fires[p].at \notin Ledgers, NEW l, l \notin Ledgers,
           Goto(p, l), happened' = happened
    PROVE  Moves(p)
  <1>1. Shape(fires[p])
    BY Worker DEF Ledgers
  <1>2. PICK t, x, c : t = fires[p].todo /\ x = fires[p].expired /\ c = fires[p].copy
    OBVIOUS
  <1>3. fires' = [fires EXCEPT ![p].at = l, ![p].todo = t, ![p].expired = x, ![p].copy = c]
    BY <1>1, <1>2 DEF Goto, FiresOK, Shape
  <1> QED  BY <1>3, MovesTo

LEMMA NamesMove ==
    ASSUME FiresOK, NEW p \in Procs,
           \/ Untitled(p) \/ remember(p) \/ EndSweep(p) \/ forget(p) \/ lookup(p)
           \/ DropExpired(p) \/ ListNames(p) \/ (\E s \in Sessions : JudgeName(p, s))
           \/ RemoveName(p)
    PROVE  Moves(p)
  <1>1. /\ \A l \in {"list", "judge", "sweep", "drop", "salt"} : l \notin Ledgers
        /\ fires[p].at \notin Ledgers /\ happened' = happened
    BY DEF Ledgers, Untitled, remember, EndSweep, forget, lookup, DropExpired, ListNames,
           JudgeName, RemoveName, SessionStarts, At
  <1>2. CASE \E l \in {"list", "drop", "salt"} : Goto(p, l)
    BY <1>1, <1>2, GoMoves
  <1>3. Shape(fires[p])
    BY <1>1, Worker DEF Ledgers
  <1>4. CASE ListNames(p)
    <2>1. PICK t, x, c :
            t = {s \in Sessions : names[s] # "none"} /\ x = fires[p].expired /\ c = fires[p].copy
      OBVIOUS
    <2>2. fires' = [fires EXCEPT ![p].at = "judge", ![p].todo = t, ![p].expired = x, ![p].copy = c]
      BY <1>3, <1>4, <2>1 DEF ListNames, FiresOK, Shape
    <2> QED  BY <1>1, <2>2, MovesTo
  <1>5. CASE \E s \in Sessions : JudgeName(p, s)
    <2>1. PICK s \in Sessions : JudgeName(p, s)
      BY <1>5
    <2>2. PICK l \in {"judge", "sweep"} : l = IF names[s] = "new" THEN "judge" ELSE "sweep"
      OBVIOUS
    <2>3. PICK t, c : t = fires[p].todo \ {s} /\ c = fires[p].copy
      OBVIOUS
    <2>4. fires' = [fires EXCEPT ![p].at = l, ![p].todo = t, ![p].expired = s, ![p].copy = c]
      BY <1>3, <2>1, <2>2, <2>3, ZenonT(60) DEF JudgeName, FiresOK, Shape
    <2> QED  BY <1>1, <2>4, MovesTo
  <1>6. CASE RemoveName(p)
    <2>1. PICK t, x, c : t = fires[p].todo /\ x = None /\ c = fires[p].copy
      OBVIOUS
    <2>2. fires' = [fires EXCEPT ![p].at = "judge", ![p].todo = t, ![p].expired = x, ![p].copy = c]
      BY <1>3, <1>6, <2>1 DEF RemoveName, FiresOK, Shape
    <2> QED  BY <1>1, <2>2, MovesTo
  <1> QED
    BY <1>2, <1>4, <1>5, <1>6 DEF Untitled, remember, EndSweep, forget, lookup, DropExpired

LEMMA SaltMoves ==
    ASSUME FiresOK, NEW p \in Procs,
           readSalt(p) \/ createSalt(p) \/ fillSalt(p) \/ rereadSalt(p) \/ PersistToken(p)
    PROVE  Moves(p)
  <1>1. /\ \A l \in {"create", "fill", "reread", "read", "persist", "fail", "clear"} : l \notin Ledgers
        /\ fires[p].at \notin Ledgers /\ happened' = happened
    BY DEF Ledgers, readSalt, createSalt, fillSalt, rereadSalt, PersistToken, At
  <1>2. \A whose : \A kept : Salted(p, whose, kept) =>
          \E l \in {"read", "persist", "fail"} : Goto(p, l)
    BY DEF Salted
  <1>3. \E l \in {"create", "fill", "reread", "read", "persist", "fail", "clear"} : Goto(p, l)
    BY <1>2 DEF readSalt, createSalt, fillSalt, rereadSalt, PersistToken
  <1> QED  BY <1>1, <1>3, GoMoves

LEMMA TallyMoves ==
    ASSUME FiresOK, NEW p \in Procs, ReadFile(p) \/ WriteFile(p)
    PROVE  Moves(p)
  <1>1. /\ "write" \notin Ledgers /\ "rename" \notin Ledgers
        /\ fires[p].at \notin Ledgers /\ happened' = happened
    BY DEF Ledgers, ReadFile, WriteFile, At
  <1>2. CASE ReadFile(p)
    <2>1. Shape(fires[p])
      BY <1>1, Worker DEF Ledgers
    <2>2. PICK t, x, c : /\ t = fires[p].todo /\ x = fires[p].expired
                         /\ fires' = [fires EXCEPT ![p].copy = c, ![p].at = "write"]
      BY <1>2 DEF ReadFile
    <2>3. fires' = [fires EXCEPT ![p].at = "write", ![p].todo = t, ![p].expired = x, ![p].copy = c]
      BY <2>1, <2>2 DEF FiresOK, Shape
    <2> QED  BY <1>1, <2>3, MovesTo
  <1>3. CASE WriteFile(p)
    BY <1>1, <1>3, GoMoves DEF WriteFile
  <1> QED  BY <1>2, <1>3

\* A process that is no fire leaves the moments alone.
Aside(p) == OthersStay(p) /\ ~Active(p) /\ ~Active(p)' /\ happened' = happened
LEMMA PairAside ==
    ASSUME FiresOK, HappenedOK, NEW p \in Procs,
           \/ StartPair(p) \/ FailPair(p) \/ ClearMissed(p) \/ (Kill(p) /\ fires[p].h = "pair")
    PROVE  Aside(p)
  <1>1. CASE StartPair(p)
    <2>1. PICK r : /\ fires' = [fires EXCEPT ![p] = r] /\ r.h = "pair"
                   /\ happened' = happened /\ fires[p].at = "idle"
      <3>1. PICK r : r = [Process(0, Own("claude", "pair"), None, None, None, FALSE)
                            EXCEPT !.h = "pair", !.at = "salt"]
        OBVIOUS
      <3>2. PICK q : q = Process(0, Own("claude", "pair"), None, None, None, FALSE)
        OBVIOUS
      <3>3. Shape(q)
        <4>1. PICK f : f = Own("claude", "pair")
          OBVIOUS
        <4>2. q = Process(0, f, None, None, None, FALSE)
          BY <3>2, <4>1
        <4> QED  BY <4>2, ProcessIs
      <3>4. r.h = "pair"
        BY <3>1, <3>2, <3>3 DEF Shape
      <3> QED  BY <1>1, <3>1, <3>4 DEF StartPair, At
    <2>2. OthersStay(p) /\ fires'[p] = r
      BY <2>1, Replaced
    <2> QED  BY <2>1, <2>2 DEF Aside, Active, At
  <1>2. CASE FailPair(p) \/ ClearMissed(p) \/ (Kill(p) /\ fires[p].h = "pair")
    <2>1. ~Active(p) /\ Ends(p) /\ happened' = happened
      BY <1>2, AtPair DEF FailPair, ClearMissed, Kill, Pairs, At, Active
    <2>2. OthersStay(p) /\ fires'[p].at = "idle"
      BY <2>1, PairEnds
    <2> QED  BY <2>1, <2>2 DEF Aside, Active, At
  <1> QED  BY <1>1, <1>2

\* Every step of a process is one of these.
LEMMA StepMoves ==
    ASSUME FiresOK, HappenedOK, NEW p \in Procs, Step(p)
    PROVE  \/ Moves(p) \/ Aside(p) \/ (EndsBadly(p) /\ Active(p))
           \/ Receive(p) \/ RenameFile(p) \/ Dedup(p) \/ Send(p)
  <1>1. CASE DetachNotify(p) \/ DropPayload(p)
    <2>1. fires[p].at \in Received
      BY <1>1 DEF DetachNotify, DropPayload, At, Received
    <2>2. Active(p) /\ fires[p].at \notin Ledgers /\ "recv" \notin Ledgers
      BY <2>1, Worker DEF WorkerOK, Received, AtSalt, Pairs, Handles, AtNames, Writing, Active, At,
                          None, Ledgers
    <2> QED  BY <1>1, <2>2, GoMoves DEF DetachNotify, DropPayload
  <1>2. CASE Kill(p) /\ fires[p].h # "pair"
    BY <1>2 DEF Kill, Active
  <1> QED  BY <1>1, <1>2, NamesMove, SaltMoves, TallyMoves, PairAside DEF Step

-----------------------------------------------------------------------------
(* How the fires that change more than their label do so.                  *)

\* A record of a process changes to r2.
LEMMA ReceiveMoves ==
    ASSUME FiresOK, NEW p \in Procs, Receive(p)
    PROVE  /\ fires[p].at = "recv" /\ OthersStay(p) /\ Active(p)
           /\ \/ EndsWell(p) /\ (Refused(p) \/ Mapped(p) = Unmapped)
              \/ /\ ~Refused(p) /\ Mapped(p) # Unmapped /\ happened' = happened
                 /\ fires'[p].h = Handler(p) /\ fires'[p].ev = Mapped(p)
                 /\ fires'[p].at \in {"name", "salt"} /\ fires'[p].file = fires[p].file
                 /\ fires'[p].n = fires[p].n /\ fires'[p].fire = fires[p].fire
                 /\ fires'[p].install = fires[p].install /\ fires'[p].id = fires[p].id
  <1>1. /\ fires[p].at = "recv" /\ fires[p].h = None /\ Shape(fires[p])
    BY Worker DEF Receive, At, WorkerOK, AtSalt, Pairs, Handles, AtNames, Writing
  <1>2. Active(p)
    BY <1>1 DEF Active, At, None
  <1>3. CASE EndsWell(p) /\ (Refused(p) \/ Mapped(p) = Unmapped)
    <2>1. OthersStay(p)
      BY <1>3, Replaced DEF EndsWell, Ends
    <2> QED  BY <1>1, <1>2, <1>3, <2>1
  <1>4. CASE ~Refused(p) /\ Mapped(p) # Unmapped
    <2>1. PICK l \in {"name", "salt"} : l = IF Handler(p) = "claude" THEN "name" ELSE "salt"
      OBVIOUS
    <2>2. PICK h, e : h = Handler(p) /\ e = Mapped(p)
      OBVIOUS
    <2>3. PICK r : r = fires[p]
      OBVIOUS
    <2>4. PICK r2 : r2 = [r EXCEPT !.h = h, !.ev = e, !.at = l]
      OBVIOUS
    <2>5. fires' = [fires EXCEPT ![p] = r2] /\ happened' = happened
      BY <1>4, <2>1, <2>2, <2>3, <2>4 DEF Receive, FiresOK
    <2>6. /\ r2.h = h /\ r2.ev = e /\ r2.at = l /\ r2.file = r.file /\ r2.n = r.n
          /\ r2.fire = r.fire /\ r2.install = r.install /\ r2.id = r.id
      BY <1>1, <2>3, <2>4 DEF Shape
    <2>7. OthersStay(p) /\ fires'[p] = r2
      BY <2>5, Replaced
    <2> QED  BY <1>1, <1>2, <1>4, <2>1, <2>2, <2>3, <2>5, <2>6, <2>7
  <1> QED  BY <1>3, <1>4 DEF Receive

\* A fire at work goes to another label, tally and copy.
LEMMA WorkMoves ==
    ASSUME FiresOK, NEW p \in Procs, fires[p].at \in Writing \cup {"dedup", "send"},
           NEW l, NEW f, NEW c, fires' = [fires EXCEPT ![p].at = l, ![p].file = f, ![p].copy = c]
    PROVE  /\ OthersStay(p) /\ Kin(fires'[p], fires[p])
           /\ fires'[p].at = l /\ fires'[p].file = f
  <1>1. PICK r : r = fires[p]
    OBVIOUS
  <1>2. PICK r2 : r2 = [r EXCEPT !.at = l, !.file = f, !.copy = c]
    OBVIOUS
  <1>3. fires' = [fires EXCEPT ![p] = r2]
    BY <1>1, <1>2 DEF FiresOK
  <1>4. Shape(r)
    BY <1>1, AtWork DEF WorkerOK
  <1>5. r2.at = l /\ Kin(r2, r) /\ r2.file = f
    BY <1>2, <1>4 DEF Shape, Kin
  <1>6. OthersStay(p) /\ fires'[p] = r2
    BY <1>3, Replaced
  <1> QED  BY <1>1, <1>5, <1>6

LEMMA RenameMoves ==
    ASSUME FiresOK, NEW p \in Procs, RenameFile(p)
    PROVE  /\ fires[p].at = "rename" /\ OthersStay(p) /\ Active(p)
           /\ \/ fires[p].file # "builds" /\ EndsWell(p)
              \/ /\ fires[p].file = "builds" /\ happened' = happened /\ Kin(fires'[p], fires[p])
                 /\ \/ /\ fires'[p].at = "dedup" /\ fires'[p].file = "builds"
                       /\ shouldSendEventType(fires[p].ev.type)
                    \/ /\ fires'[p].at = "read" /\ fires'[p].file = "filtered"
                       /\ ~shouldSendEventType(fires[p].ev.type)
  <1>1. fires[p].at = "rename"
    BY DEF RenameFile, At
  <1>2. Active(p) /\ Shape(fires[p])
    BY <1>1, AtWork DEF Writing, WorkerOK
  <1>3. CASE fires[p].file = "builds"
    <2>1. PICK l, f, c :
            /\ c = Empty /\ happened' = happened
            /\ l = IF shouldSendEventType(fires[p].ev.type) THEN "dedup" ELSE "read"
            /\ f = IF shouldSendEventType(fires[p].ev.type) THEN "builds" ELSE "filtered"
      BY <1>3 DEF RenameFile, AfterTally
    <2>2. fires' = [fires EXCEPT ![p].copy = c, ![p].at = l, ![p].file = f]
      BY <1>3, <2>1 DEF RenameFile, AfterTally, FiresOK
    <2>3. fires' = [fires EXCEPT ![p].at = l, ![p].file = f, ![p].copy = c]
      BY <1>2, <2>2 DEF FiresOK, Shape
    <2>4. OthersStay(p) /\ Kin(fires'[p], fires[p]) /\ fires'[p].at = l /\ fires'[p].file = f
      BY <1>1, <2>3, WorkMoves DEF Writing
    <2> QED  BY <1>1, <1>2, <1>3, <2>1, <2>4
  <1>4. CASE fires[p].file # "builds"
    <2>1. EndsWell(p)
      BY <1>4 DEF RenameFile, AfterTally
    <2>2. OthersStay(p)
      BY <2>1, Replaced DEF EndsWell, Ends
    <2> QED  BY <1>1, <1>2, <1>4, <2>1, <2>2
  <1> QED  BY <1>3, <1>4

-----------------------------------------------------------------------------
(* What the tallies hold: finitely many keys, and of the builds only what a  *)
(* fire told.                                                                *)

LEMMA PastStays ==
    ASSUME IInv, NEW p \in Procs, Step(p)
    PROVE  /\ past'.upgrades = past.upgrades
           /\ \/ ReadFile(p)
              \/ past'.fired = past.fired /\ past'.counted["builds"] = past.counted["builds"]
  <1>1. PastOK
    BY DEF IInv
  <1>2. CASE past' = past
    BY <1>2
  <1>3. CASE \E x, y : past' = [past EXCEPT !.live = x, !.crossed = y]
    BY <1>1, <1>3 DEF PastOK
  <1>4. CASE \E x : \/ past' = [past EXCEPT !.live = x] \/ past' = [past EXCEPT !.salts = x]
                    \/ past' = [past EXCEPT !.ran = x] \/ past' = [past EXCEPT !.pairings = x]
    BY <1>1, <1>4 DEF PastOK
  <1>5. CASE \E x, y : past' = [past EXCEPT !.kills = x, !.disturbed = y]
    BY <1>1, <1>5 DEF PastOK
  <1>6. CASE ClearMissed(p)
    <2>1. PICK y : past' = [past EXCEPT !.counted["missed"] = Empty, !.disturbed = y]
      BY <1>6 DEF ClearMissed
    <2>2. past.counted \in [Tallies -> {past.counted[f] : f \in Tallies}] /\ "builds" \in Tallies
      BY DEF IInv, TallyInv, FilesOK, Tallies
    <2> QED  BY <1>1, <2>1, <2>2 DEF PastOK
  <1>7. CASE Receive(p)
    BY <1>2, <1>4, <1>7 DEF Receive
  <1>8. CASE ReadFile(p)
    <2>1. PICK a, b, c, d :
            past' = [past EXCEPT !.counted = a, !.fired = b, !.disturbed = c, !.evicted = d]
      <3>1. PICK k, b, c, d : past' = [past EXCEPT !.counted[fires[p].file] = k, !.fired = b,
                                                   !.disturbed = c, !.evicted = d]
        BY <1>8 DEF ReadFile
      <3> QED  BY <3>1
    <2> QED  BY <1>1, <1>8, <2>1 DEF PastOK
  <1>9. CASE readSalt(p) \/ createSalt(p) \/ fillSalt(p) \/ rereadSalt(p)
    BY <1>1, <1>2, <1>4, <1>9, SaltedEffect DEF readSalt, createSalt, fillSalt, rereadSalt
  <1>10. CASE remember(p) \/ forget(p) \/ StartPair(p) \/ Kill(p)
    BY <1>3, <1>4, <1>5, <1>10, ZenonT(60) DEF remember, forget, StartPair, Kill
  <1> QED
    BY <1>2, <1>6, <1>7, <1>8, <1>9, <1>10
       DEF Step, DetachNotify, DropPayload, Untitled, ListNames, JudgeName, RemoveName,
           EndSweep, lookup, DropExpired, WriteFile, RenameFile, Dedup, Send, FailPair,
           PersistToken

\* Every build with a version that a tally names is one that fired.
Proven(map) ==
    \A k \in DOMAIN map : k[2].version # None =>
        \E x \in past.fired : x.h = k[1] /\ x.id = k[2]
Backed(f, map) == IsFiniteSet(DOMAIN map) /\ (f = "builds" => Proven(map))
MapsInv ==
    /\ \A f \in Tallies : Backed(f, files[f].now.map) /\ Backed(f, files[f].tmp.map)
    /\ \A p \in Procs : fires[p].at \in Writing => Backed(fires[p].file, fires[p].copy)

LEMMA BackedGrows ==
    ASSUME past.fired \subseteq past'.fired, NEW f, NEW map, Backed(f, map)
    PROVE  Backed(f, map)'
  BY DEF Backed, Proven
LEMMA BackedEmpty == \A f : Backed(f, Empty) /\ Backed(f, Empty)'
  BY FS_EmptySet DEF Backed, Proven, Empty

LEMMA MapsMove ==
    ASSUME MapsInv, FilesOK, past.fired \subseteq past'.fired,
           NEW p \in Procs, OthersStay(p), NEW f \in Tallies, NEW now, NEW tmp,
           Backed(f, now.map)', Backed(f, tmp.map)',
           files' = files \/ files' = [files EXCEPT ![f] = [now |-> now, tmp |-> tmp]],
           fires'[p].at \in Writing => Backed(fires[p].file, fires[p].copy)'
    PROVE  MapsInv'
  <1>1. PICK r : r = [now |-> now, tmp |-> tmp]
    OBVIOUS
  <1>2. r.now = now /\ r.tmp = tmp
    BY <1>1
  <1>3. \A g \in Tallies : files'[g] = files[g] \/ (g = f /\ files'[g] = r)
    BY <1>1 DEF FilesOK
  <1>4. ASSUME NEW g \in Tallies
        PROVE  Backed(g, files[g].now.map)' /\ Backed(g, files[g].tmp.map)'
    <2>1. CASE files'[g] = files[g]
      <3>1. PICK a, b : a = files[g].now.map /\ b = files[g].tmp.map
        OBVIOUS
      <3>2. Backed(g, a)' /\ Backed(g, b)'
        BY <3>1, BackedGrows DEF MapsInv
      <3> QED  BY <2>1, <3>1, <3>2 DEF Backed, Proven
    <2>2. CASE g = f /\ files'[g] = r
      BY <1>2, <2>2 DEF Backed, Proven
    <2> QED  BY <1>3, <2>1, <2>2
  <1>5. ASSUME NEW q \in Procs, fires'[q].at \in Writing
        PROVE  Backed(fires[q].file, fires[q].copy)'
    <2>1. CASE q # p
      <3>1. fires'[q] = fires[q]
        BY <2>1 DEF OthersStay
      <3>2. PICK g, c : g = fires[q].file /\ c = fires[q].copy
        OBVIOUS
      <3>3. Backed(g, c)'
        BY <1>5, <3>1, <3>2, BackedGrows DEF MapsInv
      <3> QED  BY <3>1, <3>2, <3>3 DEF Backed, Proven
    <2>2. CASE q = p
      BY <1>5, <2>2 DEF Backed, Proven
    <2> QED  BY <2>1, <2>2
  <1> QED  BY <1>4, <1>5 DEF MapsInv, Writing

\* Reading a tally records who fired.
LEMMA ReadFires ==
    ASSUME IInv, NEW p \in Procs, ReadFile(p)
    PROVE  /\ fires[p].file \in Tallies /\ past.fired \subseteq past'.fired
           /\ past'.fired = IF fires[p].file = "builds" /\ fires[p].id.version # None
                            THEN past.fired \cup {[h |-> fires[p].h, install |-> fires[p].install,
                                                   id |-> fires[p].id]}
                            ELSE past.fired
           /\ past'.counted = [past.counted EXCEPT ![fires[p].file] =
                                 Tallied(past.counted[fires[p].file], KeyFor(p))]
  <1>1. fires[p].at = "read" /\ FiresOK
    BY DEF ReadFile, At, IInv
  <1>2. fires[p].file \in Tallies
    BY <1>1, Worker DEF WorkerOK
  <1>3. PICK c, d, e, g :
          /\ past' = [past EXCEPT !.counted = c, !.fired = d, !.disturbed = e, !.evicted = g]
          /\ c = [past.counted EXCEPT ![fires[p].file] =
                    Tallied(past.counted[fires[p].file], KeyFor(p))]
          /\ d = IF fires[p].file = "builds" /\ fires[p].id.version # None
                 THEN past.fired \cup {[h |-> fires[p].h, install |-> fires[p].install,
                                        id |-> fires[p].id]}
                 ELSE past.fired
    <2>1. PastOK
      BY DEF IInv
    <2> QED  BY <2>1 DEF ReadFile, PastOK
  <1>4. past'.counted = c /\ past'.fired = d
    BY <1>3 DEF IInv, PastOK
  <1> QED  BY <1>2, <1>3, <1>4

LEMMA ReadMaps ==
    ASSUME IInv, MapsInv, NEW p \in Procs, ReadFile(p)
    PROVE  MapsInv'
  <1>1. /\ FiresOK /\ FilesOK /\ fires[p].file \in Tallies /\ past.fired \subseteq past'.fired
    BY ReadFires DEF IInv, TallyInv
  <1>2. PICK f \in Tallies : f = fires[p].file
    BY <1>1
  <1>3. PICK k : k = KeyFor(p)
    OBVIOUS
  <1>4. PICK map : map = ReadTally(f)
    OBVIOUS
  <1>5. PICK copy : copy = Capped(p, Added(map, k))
    OBVIOUS
  <1>6. /\ OthersStay(p) /\ fires'[p].file = f /\ fires'[p].copy = copy /\ files' = files
    BY <1>1, <1>2, <1>3, <1>4, <1>5, ReadFileGoes DEF ReadFile
  <1>7. Positive(map) /\ Positive(Added(map, k)) /\ DOMAIN Added(map, k) = DOMAIN map \cup {k}
    BY <1>1, <1>4, ReadWhat, AddedTo
  <1>8. DOMAIN copy \subseteq DOMAIN map \cup {k}
    BY <1>5, <1>7, CappedTo
  <1>9. Backed(f, map)
    BY <1>4, BackedEmpty DEF ReadTally, MapsInv
  <1>10. IsFiniteSet(DOMAIN copy)
    <2>1. IsFiniteSet(DOMAIN map \cup {k})
      BY <1>9, FS_AddElement DEF Backed
    <2> QED  BY <1>8, <2>1, FS_Subset
  <1>11. ASSUME f = "builds", NEW x \in DOMAIN copy, x[2].version # None
         PROVE  \E y \in past'.fired : y.h = x[1] /\ y.id = x[2]
    <2>1. CASE x \in DOMAIN map
      BY <1>1, <1>9, <1>11, <2>1 DEF Backed, Proven
    <2>2. CASE x = k
      <3>1. x[1] = fires[p].h /\ x[2] = fires[p].id
        BY <1>2, <1>3, <1>11, <2>2 DEF KeyFor
      <3>2. PICK y : y = [h |-> fires[p].h, install |-> fires[p].install, id |-> fires[p].id]
        OBVIOUS
      <3>3. y \in past'.fired /\ y.h = fires[p].h /\ y.id = fires[p].id
        BY <1>2, <1>11, <3>1, <3>2, ReadFires
      <3> QED  BY <3>1, <3>3
    <2> QED  BY <1>8, <2>1, <2>2
  <1>12. Backed(f, copy)'
    BY <1>10, <1>11 DEF Backed, Proven
  <1>13. PICK now, tmp : now.map = Empty /\ tmp.map = Empty
    <2>1. Absent.map = Empty
      BY DEF Absent, Content
    <2> QED  BY <2>1
  <1>14. Backed(f, now.map)' /\ Backed(f, tmp.map)' /\ Backed(fires[p].file, fires[p].copy)'
    BY <1>6, <1>12, <1>13, BackedEmpty DEF Backed, Proven
  <1> QED  BY <1>1, <1>6, <1>14, MapsMove

LEMMA StepMaps ==
    ASSUME IInv, MapsInv, NEW p \in Procs, Step(p)
    PROVE  MapsInv'
  <1>1. FiresOK /\ PastOK /\ HappenedOK /\ FilesOK /\ TallyInv
    BY DEF IInv, TallyInv
  <1>2. Effects(p) /\ OthersStay(p)
    BY <1>1, StepEffects DEF Effects
  <1>3. CASE ReadFile(p)
    BY <1>3, ReadMaps
  <1>4. ASSUME ~ReadFile(p) PROVE past'.fired = past.fired /\ past.fired \subseteq past'.fired
    BY <1>4, PastStays
  <1>5. PICK any \in Tallies : TRUE
    BY DEF Tallies
  <1>6. PICK blank : blank.map = Empty
    <2>1. Absent.map = Empty
      BY DEF Absent, Content
    <2> QED  BY <2>1
  <1>7. \A f : Backed(f, blank.map)'
    BY <1>6, BackedEmpty DEF Backed, Proven
  <1>8. CASE files' = files /\ fires'[p].at \notin Writing /\ ~ReadFile(p)
    BY <1>1, <1>2, <1>4, <1>5, <1>7, <1>8, MapsMove
  <1>9. CASE WriteFile(p)
    <2>1. /\ fires[p].at = "write" /\ past' = past
          /\ fires'[p].file = fires[p].file /\ fires'[p].copy = fires[p].copy
      BY <1>1, <1>9, WriteFileEffects DEF WriteFile, At
    <2>2. PICK f \in Tallies : f = fires[p].file
      BY <1>1, <2>1, Worker DEF WorkerOK
    <2>3. PICK copy : copy = fires[p].copy
      OBVIOUS
    <2>4. Backed(f, copy)
      BY <2>1, <2>2, <2>3 DEF MapsInv, Writing
    <2>5. PICK now, tmp : now = files[f].now /\ tmp = Tmp(Content(copy))
      OBVIOUS
    <2>6. files' = [files EXCEPT ![f] = [now |-> now, tmp |-> tmp]]
      BY <1>1, <1>9, <2>2, <2>3, <2>5, Recorded DEF WriteFile
    <2>7. tmp.map = copy
      BY <2>5 DEF Tmp, Content
    <2>8. Backed(f, now.map)
      BY <2>5 DEF MapsInv
    <2>9. Backed(f, now.map)' /\ Backed(f, tmp.map)' /\ Backed(fires[p].file, fires[p].copy)'
      BY <2>1, <2>2, <2>3, <2>4, <2>7, <2>8 DEF Backed, Proven
    <2> QED  BY <1>1, <1>2, <2>1, <2>6, <2>9, MapsMove
  <1>10. CASE RenameFile(p)
    <2>1. /\ fires[p].at = "rename" /\ past' = past /\ fires'[p].at \notin Writing
      BY <1>1, <1>10, RenameFileEffects DEF RenameFile
    <2>2. PICK f \in Tallies : f = fires[p].file
      BY <1>1, <2>1, Worker DEF WorkerOK
    <2>3. CASE files' = files
      BY <1>1, <1>2, <1>5, <1>7, <2>1, <2>3, MapsMove
    <2>4. CASE files' # files
      <3>1. PICK now \in {Content(files[f].tmp.map), Torn} :
              files' = [files EXCEPT ![f] = [now |-> now, tmp |-> NoTmp]]
        BY <1>10, <2>2, <2>4 DEF RenameFile
      <3>2. PICK tmp : tmp = NoTmp
        OBVIOUS
      <3>3. Backed(f, now.map) /\ Backed(f, tmp.map)
        BY <3>1, <3>2, BackedEmpty DEF MapsInv, Content, Torn, NoTmp
      <3>4. Backed(f, now.map)' /\ Backed(f, tmp.map)'
        BY <2>1, <3>3 DEF Backed, Proven
      <3> QED  BY <1>1, <1>2, <2>1, <3>1, <3>2, <3>4, MapsMove
    <2> QED  BY <2>3, <2>4
  <1>11. CASE ClearMissed(p)
    <2>1. PICK f \in Tallies : f = "missed"
      BY DEF Tallies
    <2>2. PICK now, tmp : now = Absent /\ tmp = files[f].tmp
      OBVIOUS
    <2>3. files' = [files EXCEPT ![f] = [now |-> now, tmp |-> tmp]]
      BY <1>1, <1>11, <2>1, <2>2, Recorded DEF ClearMissed
    <2>4. Backed(f, now.map) /\ Backed(f, tmp.map)
      BY <2>2, BackedEmpty DEF MapsInv, Absent, Content
    <2>5. Backed(f, now.map)' /\ Backed(f, tmp.map)'
      BY <2>1, <2>4 DEF Backed
    <2>6. fires'[p].at \notin Writing
      BY <1>1, <1>11, ClearMissedEffects DEF Idle, Writing
    <2>7. past.fired \subseteq past'.fired
      BY <1>4, <1>11 DEF ReadFile, ClearMissed, At
    <2> QED  BY <1>1, <1>2, <2>3, <2>5, <2>6, <2>7, MapsMove
  <1>12. CASE Kill(p) /\ ~ReadFile(p)
    <2>1. files' = files
      BY <1>12 DEF Kill
    <2>2. fires'[p].at \notin Writing
      BY <1>1, <1>12, KillEffects DEF Idle, Writing
    <2> QED  BY <2>2, <1>8, <1>12, <2>1
  <1> QED
    BY <1>2, <1>3, <1>8, <1>9, <1>10, <1>11, <1>12 DEF Effects, TallyEffect

LEMMA InitMaps == Init => MapsInv
  <1> SUFFICES ASSUME Init PROVE MapsInv
    OBVIOUS
  <1>1. /\ files = [f \in Tallies |-> [now |-> Absent, tmp |-> NoTmp]]
        /\ fires = [p \in Procs |-> Idle]
    BY DEF Init
  <1>2. Absent.map = Empty /\ NoTmp.map = Empty
    BY DEF Absent, NoTmp, Content
  <1>3. \A p \in Procs : fires[p].at = "idle"
    BY <1>1 DEF Idle
  <1> QED  BY <1>1, <1>2, <1>3, BackedEmpty DEF MapsInv, Writing

LEMMA NextMaps == IInv /\ MapsInv /\ [Next]_vars => MapsInv'
  <1> SUFFICES ASSUME IInv, MapsInv, [Next]_vars PROVE MapsInv'
    OBVIOUS
  <1>1. CASE \E p \in Procs : Step(p)
    BY <1>1, StepMaps
  <1>2. CASE /\ files' = files /\ past'.fired = past.fired
             /\ \A p \in Procs : fires'[p] = fires[p] \/ fires'[p].at \notin Writing
    BY <1>2 DEF MapsInv, Backed, Proven
  <1>3. CASE \E m, i, s, titled : Happens(m, i, s, titled)
    <2>1. PICK m, i, s, titled : Happens(m, i, s, titled)
      BY <1>3
    <2>2. PICK slot : Starting(m, s, ConfiguredFires(m), slot)
      BY <2>1, HappensStarts
    <2>3. \A p \in Procs : fires'[p] = fires[p] \/ fires'[p].at \notin Writing
      BY <2>2 DEF Starting, Received, Writing
    <2> QED  BY <1>2, <2>1, <2>3 DEF Happens
  <1>4. CASE \E h, i : Upgrade(h, i)
    <2>1. PICK x : past' = [past EXCEPT !.upgrades = x] /\ files' = files /\ fires' = fires
      BY <1>4 DEF Upgrade
    <2> QED  BY <1>2, <2>1 DEF IInv, PastOK
  <1> QED  BY <1>1, <1>2, <1>3, <1>4 DEF Next, Logout, vars

LEMMA MapsHold == Spec => []MapsInv
  BY Invariant, InitMaps, NextMaps, PTL DEF Spec

-----------------------------------------------------------------------------
(* What a doctor without a complaint has seen.                             *)

LEMMA GoodRow ==
    ASSUME NEW name, NEW good \in BOOLEAN, NEW rows, \A c \in rows : c.ok, Row(name, good) \subseteq rows
    PROVE  good
  <1>1. CASE good = TRUE
    BY <1>1
  <1>2. CASE good = FALSE
    BY <1>2 DEF Row
  <1> QED  BY <1>1, <1>2

LEMMA GreenIs ==
    ASSUME NEW view, doctorOk(view), view.lookup \in {"present", "absent"},
           view.backend.up \in BOOLEAN, view.backend.answers \in BOOLEAN
    PROVE  /\ view.lookup = "present" /\ view.backend.up /\ view.missed = 0
           /\ view.backend.answers =>
                view.backend.data.active > 0 /\ view.backend.data.quota # "exhausted"
           /\ \A h \in DOMAIN view.world :
                ~Faulted(h, view.world[h], view.obs[h], view.lookup)
  <1>1. PICK rows : rows = doctorChecks(view)
    OBVIOUS
  <1>2. \A c \in rows : c.ok
    BY <1>1 DEF doctorOk
  <1>3. PICK r : r = fetchPushReachability(view.lookup, view.backend)
    OBVIOUS
  <1>4. /\ describePairing(view.lookup) \subseteq rows
        /\ describeReachability(r) \subseteq rows
        /\ describeQuota(r) \subseteq rows
        /\ (IF view.missed = 0 THEN {} ELSE Global("Events lost while unpaired", FALSE)) \subseteq rows
        /\ UNION {adapterRows(h, view.world[h], view.obs[h], view.lookup) : h \in DOMAIN view.world}
             \subseteq rows
        /\ Global("Backend reachable", view.backend.up) \subseteq rows
    <2> DEFINE A == UNION {adapterRows(h, view.world[h], view.obs[h], view.lookup) : h \in DOMAIN view.world}
               Lost == IF view.missed = 0 THEN {} ELSE Global("Events lost while unpaired", FALSE)
               Bridge == IF cursorBridgeOnly(view.world)
                         THEN Global("Approval beeps from Cursor", FALSE) ELSE {}
               Local == IF view.filtered = 0 THEN {} ELSE Global("Local-only events", TRUE)
               Nobody == IF \A h \in DOMAIN view.world : ~detected(view.world[h])
                         THEN Global("Coding agents", FALSE) ELSE {}
    <2>1. rows = describePairing(view.lookup) \cup describeReachability(r)
                 \cup describeCheckIn(r) \cup describeQuota(r) \cup Lost \cup Bridge
                 \cup Local \cup A \cup Nobody \cup Global("Backend reachable", view.backend.up)
      BY <1>1, <1>3, Zenon DEF doctorChecks
    <2> HIDE DEF A, Lost, Bridge, Local, Nobody
    <2>2. /\ describePairing(view.lookup) \subseteq rows /\ describeReachability(r) \subseteq rows
          /\ describeQuota(r) \subseteq rows /\ Lost \subseteq rows /\ A \subseteq rows
          /\ Global("Backend reachable", view.backend.up) \subseteq rows
      BY <2>1, Zenon
    <2> QED  BY <2>2 DEF A, Lost
  <1>5. view.lookup = "present"
    <2>1. (view.lookup = "present") \in BOOLEAN
      OBVIOUS
    <2> QED  BY <1>2, <1>4, <2>1, GoodRow DEF describePairing, Global
  <1>6. view.backend.up
    BY <1>2, <1>4, GoodRow DEF Global
  <1>7. view.missed = 0
    <2>1. SUFFICES ASSUME view.missed # 0 PROVE FALSE
      OBVIOUS
    <2>2. Global("Events lost while unpaired", FALSE) \subseteq rows
      BY <1>4, <2>1
    <2> QED  BY <1>2, <2>2, GoodRow DEF Global
  <1>8. view.backend.answers => r.state = "ok" /\ r.data = view.backend.data
    BY <1>3, <1>5 DEF fetchPushReachability
  <1>9. r.state = "ok" => r.data.active > 0 /\ r.data.stale = 0
    <2> SUFFICES ASSUME r.state = "ok" PROVE r.data.active > 0 /\ r.data.stale = 0
      OBVIOUS
    <2>1. Global("Push reachability", r.data.active > 0 /\ r.data.stale = 0) \subseteq rows
      BY <1>4, Zenon DEF describeReachability
    <2>2. (r.data.active > 0 /\ r.data.stale = 0) \in BOOLEAN
      OBVIOUS
    <2> QED  BY <1>2, <2>1, <2>2, GoodRow, Zenon DEF Global
  <1>10. r.state = "ok" => r.data.quota # "exhausted"
    <2> SUFFICES ASSUME r.state = "ok" PROVE r.data.quota # "exhausted"
      OBVIOUS
    <2>1. Global("Beep quota", r.data.quota # "exhausted") \subseteq rows
      BY <1>4, Zenon DEF describeQuota
    <2>2. (r.data.quota # "exhausted") \in BOOLEAN
      OBVIOUS
    <2> QED  BY <1>2, <2>1, <2>2, GoodRow, Zenon DEF Global
  <1>11. ASSUME NEW h \in DOMAIN view.world
         PROVE  ~Faulted(h, view.world[h], view.obs[h], view.lookup)
    <2>1. adapterRows(h, view.world[h], view.obs[h], view.lookup) \subseteq rows
      BY <1>4, Zenon
    <2> QED  BY <1>2, <2>1, Zenon DEF Faulted, Faults
  <1> QED  BY <1>5, <1>6, <1>7, <1>8, <1>9, <1>10, <1>11

\* An installed harness whose commands are there has one that beeps for each of its
\* moments that want the user.
LEMMA HeardLive ==
    ASSUME IInv, NEW m \in past.scene.moments, WantsUser(m), detected(world[m.by]),
           world[m.by].status = "installed", world[m.by].commands # "stale"
    PROVE  Beeps(m)
  <1>1. m \in Moments
    BY RecordsAssumption DEF IInv, PastOK
  <1>2. BeepsRight(m)
    BY <1>1, AllBeeps
  <1>3. PICK f \in m.fires : f.cmd = m.by /\ Beeping(f)
    BY <1>2 DEF BeepsRight
  <1>4. f \in ConfiguredFires(m)
    BY <1>3 DEF ConfiguredFires, Live, CONFIGURED_STATUSES
  <1> QED  BY <1>3, <1>4 DEF Beeps, Beeping, Sends, Accepted, HandlerOf, Heard

\* When every check of doctor passes the machine is paired, the backend is there, the
\* account has a device and a quota if the backend says anything of them, no event was
\* lost since the pairing that the count can know of, and every harness that is there
\* has a command that runs and beeps for each moment that wants the user.
THEOREM GreenIsRight == Spec => []GreenMeansBeeps
  <1>1. IInv /\ MapsInv => GreenMeansBeeps
    <2> SUFFICES ASSUME IInv, MapsInv PROVE GreenMeansBeeps
      OBVIOUS
    <2> DEFINE seen == View(NoAnswer)
               lit == /\ paired
                      /\ Sure("missed") => past.counted["missed"] = Empty
                      /\ \A m \in past.scene.moments :
                           WantsUser(m) /\ detected(world[m.by]) => Beeps(m)
    <2>3. ASSUME NEW b \in Backends, doctorOk([seen EXCEPT !.backend = b])
          PROVE  /\ b.up /\ lit
                 /\ b.answers => b.data.active > 0 /\ b.data.quota # "exhausted"
      <3>1. PICK view : view = [seen EXCEPT !.backend = b]
        OBVIOUS
      <3>2. /\ view.lookup = (IF paired THEN "present" ELSE "absent") /\ view.backend = b
            /\ view.missed = Cardinality(DOMAIN ReadTally("missed")) /\ view.world = world
        BY <3>1 DEF View
      <3>3. /\ view.lookup = "present" /\ b.up /\ view.missed = 0
            /\ b.answers => b.data.active > 0 /\ b.data.quota # "exhausted"
            /\ \A h \in DOMAIN world : ~Faulted(h, world[h], view.obs[h], view.lookup)
        BY <2>3, <3>1, <3>2, GreenIs, RecordsAssumption
      <3>4. Sure("missed") => past.counted["missed"] = Empty
        <4>1. PICK map : map = ReadTally("missed")
          OBVIOUS
        <4>2. "missed" \in Tallies
          BY DEF Tallies
        <4>3. IsFiniteSet(DOMAIN map)
          BY <4>1, <4>2, BackedEmpty DEF MapsInv, Backed, ReadTally
        <4>4. DOMAIN map = {}
          BY <3>2, <3>3, <4>1, <4>3, FS_EmptySet
        <4>5. Counts(map) = Empty
          BY <4>4 DEF Counts, Empty
        <4>6. Sure("missed") => Counts(map) = past.counted["missed"]
          BY <4>1, <4>2 DEF IInv, TallyInv, Undisturbed, Whole, Sure
        <4> QED  BY <4>5, <4>6
      <3>5. ASSUME NEW m \in past.scene.moments, WantsUser(m), detected(world[m.by])
            PROVE  Beeps(m)
        <4>1. m \in Moments /\ DOMAIN world = Harnesses
          BY RecordsAssumption DEF IInv, PastOK, TrustInv
        <4>2. m.by \in Harnesses
          BY <4>1, AllBeeps DEF BeepsRight
        <4>3. world[m.by].status = "installed" /\ world[m.by].commands # "stale"
          BY <3>3, <3>5, <4>1, <4>2, FaultedIs
        <4> QED  BY <3>5, <4>3, HeardLive
      <3>6. paired
        BY <3>2, <3>3
      <3> QED  BY <3>3, <3>4, <3>5, <3>6
    <2> HIDE DEF lit
    <2>4. \A b \in Backends : doctorOk([seen EXCEPT !.backend = b]) =>
            /\ b.up /\ lit
            /\ b.answers => b.data.active > 0 /\ b.data.quota # "exhausted"
      BY <2>3, Zenon
    <2> QED  BY <2>4, Zenon DEF GreenMeansBeeps, lit
  <1> QED  BY <1>1, Invariant, MapsHold, PTL

\* Whatever was recorded of which builds, where doctor misses hooks, trust, a restart or
\* a build's word in a harness that has a build, setup calls it neither ready nor
\* beeping; what setup complains of doctor does too unless it asks for trust or a
\* restart; and setup invites to try a turn only where a harness is there and each
\* moment of one with a build has a command that beeps, unless that command is gone.
THEOREM SetupAgreesWithDoctor == Spec => []SetupAgrees
  <1>1. IInv /\ Sites => SetupAgrees
    <2> SUFFICES ASSUME IInv, Sites PROVE SetupAgrees
      OBVIOUS
    <2>1. PICK view : view = View(NoAnswer)
      OBVIOUS
    <2>2. view.world = world /\ DOMAIN world = Harnesses
      BY <2>1 DEF View, IInv, TrustInv
    <2>3. PICK obs : obs = view.obs
      OBVIOUS
    <2>4. PICK report : report = setupReport(view, TRUE)
      OBVIOUS
    <2> DEFINE rows == UNION {{<<h, r>> : r \in harnessRows(h, view.world[h], view.obs[h])} :
                                h \in DOMAIN view.world}
               states == {r[2] : r \in rows}
    <2>5. rows = UNION {{<<h, r>> : r \in harnessRows(h, world[h], obs[h])} : h \in Harnesses}
      BY <2>2, <2>3
    <2>6. states = {r[2] : r \in rows}
      OBVIOUS
    <2> DEFINE installed == {h \in DOMAIN view.world :
                               detected(view.world[h]) /\ view.world[h].status # "throws"}
    <2>7. report = [rows |-> rows,
                    end |-> IF "failed" \in states \/ ~TRUE THEN "attention"
                            ELSE IF states \cap {"needs you", "not covered"} # {} THEN "pending"
                            ELSE IF installed # {} THEN "invitation" ELSE "nothing"]
      BY <2>4, Zenon DEF setupReport
    <2>8. PICK there : there = installed
      OBVIOUS
    <2> HIDE DEF rows, states
    <2>19. PICK T : T = {h \in Harnesses : Troubled(h, world[h], obs[h])}
      OBVIOUS
    <2>9. \A h \in Harnesses : \A r \in harnessRows(h, world[h], obs[h]) :
            \E x \in rows : x[1] = h /\ x[2] = r
      <3>1. ASSUME NEW h \in Harnesses, NEW r \in harnessRows(h, world[h], obs[h])
            PROVE  <<h, r>> \in rows
        BY <2>5
      <3> QED  BY <3>1
    <2>10. \A x \in rows : x[1] \in Harnesses /\ x[2] \in harnessRows(x[1], world[x[1]], obs[x[1]])
      BY <2>5
    <2>11. \A h \in Harnesses : detected(world[h]) =>
            /\ Missed(h, world[h], obs[h]) => h \in T \/ world[h].installs = {}
            /\ h \in T => \/ Faulted(h, world[h], obs[h], view.lookup)
                         \/ installResult(h) \in PENDING_STATUSES
            /\ harnessRows(h, world[h], obs[h]) \subseteq
                 {"ready", "beeping", "failed", "needs you", "not covered"}
      BY <2>19, SetupOfOne, FaultedIs DEF Sites
    <2>12. \A h \in Harnesses : ~detected(world[h]) =>
             harnessRows(h, world[h], obs[h]) = {"not installed"}
      BY DEF harnessRows
    <2>13. T = {} <=> states \cap {"failed", "needs you", "not covered"} = {}
      <3>1. \A r : r \in states <=> \E h \in Harnesses : r \in harnessRows(h, world[h], obs[h])
        BY <2>6, <2>9, <2>10
      <3>2. \A h \in Harnesses : h \in T <=> detected(world[h])
              /\ \E r \in harnessRows(h, world[h], obs[h]) : r \notin {"ready", "beeping"}
        BY <2>19 DEF Troubled
      <3>3. \A h \in Harnesses : h \in T <=>
              \E r \in harnessRows(h, world[h], obs[h]) :
                 r \in {"failed", "needs you", "not covered"}
        BY <2>11, <2>12, <3>2
      <3>4. T \subseteq Harnesses
        BY <2>19
      <3> QED  BY <3>1, <3>3, <3>4
    <2>14. report.end = "invitation" => T = {} /\ there # {}
      <3>1. SUFFICES ASSUME report.end = "invitation" PROVE T = {} /\ there # {}
        OBVIOUS
      <3>2. /\ "failed" \notin states /\ states \cap {"needs you", "not covered"} = {}
            /\ there # {}
        BY <2>7, <2>8, <3>1
      <3> QED  BY <2>13, <3>2
    <2>15. T = {h \in {g \in Harnesses : detected(world[g])} :
                  \E r \in report.rows : r[1] = h /\ r[2] \notin {"ready", "beeping"}}
      <3>1. \A h \in Harnesses :
              (\E r \in rows : r[1] = h /\ r[2] \notin {"ready", "beeping"}) <=>
              \E r \in harnessRows(h, world[h], obs[h]) : r \notin {"ready", "beeping"}
        BY <2>9, <2>10
      <3>2. report.rows = rows
        BY <2>7
      <3> QED  BY <2>19, <3>1, <3>2 DEF Troubled
    <2>16. \A h \in Harnesses : detected(world[h]) /\ world[h].installs # {} =>
             ((\E c \in hookRows(h, world[h]) \cup surfaceRows(h, world[h], obs[h]) : ~c.ok)
              => h \in T)
      BY <2>11, Zenon DEF Missed, Faults
    <2>17. \A h \in T :
             \/ \E c \in adapterRows(h, world[h], obs[h], view.lookup) : ~c.ok
             \/ installResult(h) \in PENDING_STATUSES
      BY <2>11, <2>19 DEF Troubled, Faulted, Faults
    <2>18. ASSUME report.end = "invitation"
           PROVE  /\ \E h \in Harnesses : detected(world[h])
                  /\ \A m \in past.scene.moments :
                       WantsUser(m) /\ m.by \in Harnesses /\ detected(world[m.by])
                       /\ world[m.by].installs # {}
                       => Beeps(m) \/ world[m.by].commands = "stale"
      <3>1. T = {} /\ there # {}
        BY <2>14, <2>18
      <3>2. \E h \in Harnesses : detected(world[h])
        BY <2>2, <2>8, <3>1
      <3>3. ASSUME NEW m \in past.scene.moments, WantsUser(m), m.by \in Harnesses,
                   detected(world[m.by]), world[m.by].installs # {},
                   world[m.by].commands # "stale"
            PROVE  Beeps(m)
        <4>1. ~Missed(m.by, world[m.by], obs[m.by])
          BY <2>11, <3>1, <3>3
        <4>2. world[m.by].status = "installed"
          BY <4>1, MissedIs
        <4> QED  BY <3>3, <4>2, HeardLive
      <3> QED  BY <3>2, <3>3
    <2> DEFINE present == {h \in DOMAIN world : detected(world[h])}
               built == {h \in present : world[h].installs # {}}
    <2>20. /\ \A h \in built :
                ((\E c \in hookRows(h, world[h]) \cup surfaceRows(h, world[h], obs[h]) : ~c.ok)
                 => h \in T)
           /\ report.end = "invitation" =>
                /\ present # {}
                /\ \A m \in past.scene.moments :
                     WantsUser(m) /\ m.by \in built => Beeps(m) \/ world[m.by].commands = "stale"
      BY <2>2, <2>16, <2>18
    <2>21. T = {h \in present :
                  \E r \in report.rows : r[1] = h /\ r[2] \notin {"ready", "beeping"}}
      BY <2>2, <2>15
    <2> QED
      BY <2>1, <2>3, <2>4, <2>17, <2>20, <2>21, ZenonT(60) DEF SetupAgrees
  <1> QED  BY <1>1, Invariant, SitesHold, PTL

-----------------------------------------------------------------------------
(* What a fire does to the record of its moment.                           *)

\* Only that record changes, and not what it owes.
Rewrites(p) ==
    /\ DOMAIN happened' = DOMAIN happened
    /\ \A k \in DOMAIN happened \ {fires[p].n} : happened'[k] = happened[k]
    /\ fires[p].n \in DOMAIN happened
    /\ happened'[fires[p].n].due = happened[fires[p].n].due
Record(p) == happened[fires[p].n]
Beeped(p, n) == happened'[fires[p].n].beeps = n
Marked(p, marks) == happened'[fires[p].n].marks = marks
Soiled(p) == ~happened'[fires[p].n].clean
Cleans(p, c) == happened'[fires[p].n].clean => c

LEMMA RewritesTo ==
    ASSUME HappenedOK, NEW p \in Procs, Active(p), NEW r2,
           happened' = [happened EXCEPT ![fires[p].n] = r2], r2.due = Record(p).due
    PROVE  Rewrites(p) /\ happened'[fires[p].n] = r2
  <1>1. fires[p].n \in DOMAIN happened
    BY DEF HappenedOK
  <1>2. happened = [k \in DOMAIN happened |-> happened[k]]
    BY DEF HappenedOK
  <1>3. happened' = [k \in DOMAIN happened |-> IF k = fires[p].n THEN r2 ELSE happened[k]]
    BY <1>2
  <1> QED  BY <1>1, <1>3 DEF Rewrites, Record

LEMMA LessIs ==
    ASSUME NEW r, MomentRecord(r), NEW less, less = [r EXCEPT !.left = @ - 1]
    PROVE  /\ MomentRecord(less) /\ less.due = r.due /\ less.beeps = r.beeps
           /\ less.marks = r.marks /\ less.clean = r.clean
  BY DEF MomentRecord

LEMMA WellEnds ==
    ASSUME FiresOK, HappenedOK, NEW p \in Procs, Active(p), EndsWell(p)
    PROVE  /\ OthersStay(p) /\ fires'[p] = Idle /\ Rewrites(p)
           /\ Beeped(p, Record(p).beeps) /\ Marked(p, Record(p).marks) /\ Cleans(p, Record(p).clean)
  <1>1. PICK r : r = Record(p)
    OBVIOUS
  <1>2. MomentRecord(r) /\ fires[p].n \in DOMAIN happened
    BY <1>1 DEF HappenedOK, Record
  <1>3. PICK r2 : r2 = [r EXCEPT !.left = @ - 1]
    OBVIOUS
  <1>4. happened' = [happened EXCEPT ![fires[p].n] = r2]
    BY <1>1, <1>3 DEF EndsWell, MomentLeft, Record
  <1>5. r2.due = r.due /\ r2.beeps = r.beeps /\ r2.marks = r.marks /\ r2.clean = r.clean
    BY <1>2, <1>3, LessIs
  <1>6. Rewrites(p) /\ happened'[fires[p].n] = r2
    BY <1>1, <1>4, <1>5, RewritesTo
  <1>7. OthersStay(p) /\ fires'[p] = Idle
    BY Replaced DEF EndsWell, Ends
  <1> QED  BY <1>1, <1>5, <1>6, <1>7, Zenon DEF Beeped, Marked, Cleans

LEMMA BadlyEnds ==
    ASSUME FiresOK, HappenedOK, NEW p \in Procs, Active(p), EndsBadly(p)
    PROVE  OthersStay(p) /\ fires'[p] = Idle /\ Rewrites(p) /\ Soiled(p)
  <1>1. PICK r : r = Record(p)
    OBVIOUS
  <1>2. MomentRecord(r) /\ fires[p].n \in DOMAIN happened
    BY <1>1 DEF HappenedOK, Record
  <1>3. PICK r1 : r1 = [r EXCEPT !.left = @ - 1]
    OBVIOUS
  <1>4. PICK r2 : r2 = [r1 EXCEPT !.clean = FALSE]
    OBVIOUS
  <1>5. happened' = [happened EXCEPT ![fires[p].n] = r2]
    BY <1>1, <1>2, <1>3, <1>4 DEF EndsBadly, MomentLeft, Record
  <1>6. MomentRecord(r1) /\ r1.due = r.due
    BY <1>2, <1>3, LessIs
  <1>7. r2.due = r.due /\ r2.clean = FALSE
    BY <1>4, <1>6 DEF MomentRecord
  <1>8. Rewrites(p) /\ happened'[fires[p].n] = r2
    BY <1>1, <1>5, <1>7, RewritesTo
  <1>9. OthersStay(p) /\ fires'[p] = Idle
    BY Replaced DEF EndsBadly, Ends
  <1> QED  BY <1>7, <1>8, <1>9, Zenon DEF Soiled

LEMMA DedupMoves ==
    ASSUME FiresOK, HappenedOK, NEW p \in Procs, Dedup(p)
    PROVE  /\ fires[p].at = "dedup" /\ Active(p) /\ OthersStay(p) /\ Rewrites(p)
           /\ Beeped(p, Record(p).beeps) /\ Cleans(p, Record(p).clean /\ Twins(p) = {})
           /\ \/ /\ fires'[p] = Idle /\ Marked(p, Record(p).marks)
                 /\ Twins(p) = {} => Duplicate(p)
              \/ /\ fires'[p].at = "send" /\ Kin(fires'[p], fires[p])
                 /\ fires'[p].file = fires[p].file
                 /\ Marked(p, Record(p).marks \cup {fires[p].ev})
                 /\ Twins(p) = {} => ~Duplicate(p)
  <1>1. fires[p].at = "dedup"
    BY DEF Dedup, At
  <1>2. Active(p) /\ Shape(fires[p])
    BY <1>1, AtWork DEF WorkerOK
  <1>3. PICK r : r = Record(p)
    OBVIOUS
  <1>4. MomentRecord(r) /\ fires[p].n \in DOMAIN happened
    BY <1>2, <1>3 DEF HappenedOK, Record
  <1>5. PICK c \in BOOLEAN : c = (r.clean /\ Twins(p) = {})
    OBVIOUS
  <1>6. CASE /\ Ends(p) /\ (Twins(p) = {} => Duplicate(p))
             /\ happened' = [MomentLeft(fires[p].n, happened) EXCEPT
                               ![fires[p].n].clean = @ /\ Twins(p) = {}]
    <2>1. PICK r1 : r1 = [r EXCEPT !.left = @ - 1]
      OBVIOUS
    <2>2. PICK r2 : r2 = [r1 EXCEPT !.clean = c]
      OBVIOUS
    <2>3. /\ MomentRecord(r1) /\ r1.due = r.due /\ r1.beeps = r.beeps /\ r1.marks = r.marks
          /\ r1.clean = r.clean
      BY <1>4, <2>1, LessIs
    <2>4. MomentLeft(fires[p].n, happened) = [happened EXCEPT ![fires[p].n] = r1]
      BY <1>3, <2>1 DEF MomentLeft, Record
    <2>5. MomentLeft(fires[p].n, happened)[fires[p].n] = r1
      BY <1>4, <2>4
    <2>6. happened' = [MomentLeft(fires[p].n, happened) EXCEPT ![fires[p].n].clean = c]
      BY <1>5, <1>6, <2>3, <2>5, Zenon
    <2>7. happened' = [happened EXCEPT ![fires[p].n] = r2]
      BY <1>4, <2>2, <2>4, <2>5, <2>6
    <2>8. r2.due = r.due /\ r2.beeps = r.beeps /\ r2.marks = r.marks /\ r2.clean = c
      BY <2>2, <2>3 DEF MomentRecord
    <2>9. Rewrites(p) /\ happened'[fires[p].n] = r2
      BY <1>2, <1>3, <2>7, <2>8, RewritesTo
    <2>10. OthersStay(p) /\ fires'[p] = Idle
      BY <1>6, Replaced DEF Ends
    <2>11. Cleans(p, Record(p).clean /\ Twins(p) = {})
      BY <1>3, <1>5, <2>8, <2>9, Zenon DEF Cleans
    <2> QED
      BY <1>1, <1>2, <1>3, <1>6, <2>8, <2>9, <2>10, <2>11, Zenon DEF Beeped, Marked
  <1>7. CASE /\ Goto(p, "send") /\ (Twins(p) = {} => ~Duplicate(p))
             /\ happened' = [happened EXCEPT ![fires[p].n].marks = @ \cup {fires[p].ev},
                                             ![fires[p].n].clean = @ /\ Twins(p) = {}]
    <2>1. PICK marks : marks = r.marks \cup {fires[p].ev}
      OBVIOUS
    <2>2. PICK r2 : r2 = [r EXCEPT !.marks = marks, !.clean = c]
      OBVIOUS
    <2>3. PICK r1 : r1 = [r EXCEPT !.marks = marks]
      OBVIOUS
    <2>4. r1.clean = r.clean
      BY <1>4, <2>3 DEF MomentRecord
    <2>5. PICK h1 : h1 = [happened EXCEPT ![fires[p].n].marks = @ \cup {fires[p].ev}]
      OBVIOUS
    <2>6. h1 = [happened EXCEPT ![fires[p].n] = r1]
      BY <1>3, <2>1, <2>3, <2>5 DEF Record
    <2>7. h1[fires[p].n] = r1
      BY <1>4, <2>6
    <2>8. happened' = [h1 EXCEPT ![fires[p].n].clean = c]
      BY <1>5, <1>7, <2>4, <2>5, <2>7, Zenon
    <2>9. happened' = [happened EXCEPT ![fires[p].n] = r2]
      BY <1>3, <1>4, <2>2, <2>3, <2>6, <2>7, <2>8
    <2>10. r2.due = r.due /\ r2.beeps = r.beeps /\ r2.marks = marks /\ r2.clean = c
      BY <1>4, <2>2 DEF MomentRecord
    <2>11. Rewrites(p) /\ happened'[fires[p].n] = r2
      BY <1>2, <1>3, <2>9, <2>10, RewritesTo
    <2>12. PICK f, d : f = fires[p].file /\ d = fires[p].copy
      OBVIOUS
    <2>13. fires' = [fires EXCEPT ![p].at = "send", ![p].file = f, ![p].copy = d]
      BY <1>2, <1>7, <2>12 DEF Goto, FiresOK, Shape
    <2>14. /\ OthersStay(p) /\ Kin(fires'[p], fires[p]) /\ fires'[p].at = "send"
           /\ fires'[p].file = fires[p].file
      <3>1. fires[p].at \in Writing \cup {"dedup", "send"}
        BY <1>1
      <3>2. /\ OthersStay(p) /\ Kin(fires'[p], fires[p]) /\ fires'[p].at = "send"
            /\ fires'[p].file = f
        BY <2>13, <3>1, WorkMoves
      <3> QED  BY <2>12, <3>2
    <2>15. Cleans(p, Record(p).clean /\ Twins(p) = {})
      BY <1>3, <1>5, <2>10, <2>11, Zenon DEF Cleans
    <2> QED
      BY <1>1, <1>2, <1>3, <1>7, <2>1, <2>10, <2>11, <2>14, <2>15, Zenon DEF Beeped, Marked
  <1>8. PICK dup \in IF Twins(p) = {} THEN {Duplicate(p)} ELSE BOOLEAN :
          \/ /\ dup /\ Ends(p)
             /\ happened' = [MomentLeft(fires[p].n, happened) EXCEPT
                               ![fires[p].n].clean = @ /\ Twins(p) = {}]
          \/ /\ ~dup /\ Goto(p, "send")
             /\ happened' = [happened EXCEPT ![fires[p].n].marks = @ \cup {fires[p].ev},
                                             ![fires[p].n].clean = @ /\ Twins(p) = {}]
    BY Zenon DEF Dedup
  <1>9. Twins(p) = {} => (dup <=> Duplicate(p))
    BY <1>8, Zenon
  <1> QED  BY <1>6, <1>7, <1>8, <1>9, Zenon

LEMMA SendMoves ==
    ASSUME FiresOK, HappenedOK, NEW p \in Procs, Send(p)
    PROVE  /\ fires[p].at = "send" /\ Active(p) /\ OthersStay(p) /\ Rewrites(p)
           /\ \/ /\ fires'[p] = Idle
                 /\ Marked(p, Record(p).marks) /\ Cleans(p, Record(p).clean)
                 /\ Beeped(p, IF isNotifiableEventType(fires[p].ev.type) THEN Record(p).beeps + 1
                              ELSE Record(p).beeps)
              \/ /\ Soiled(p) /\ Kin(fires'[p], fires[p])
                 /\ fires'[p].at = "read" /\ fires'[p].file = "missed"
  <1>1. fires[p].at = "send"
    BY DEF Send, At
  <1>2. Active(p) /\ Shape(fires[p])
    BY <1>1, AtWork DEF WorkerOK
  <1>3. PICK r : r = Record(p)
    OBVIOUS
  <1>4. MomentRecord(r) /\ fires[p].n \in DOMAIN happened
    BY <1>2, <1>3 DEF HappenedOK, Record
  <1>5. CASE paired
    <2>1. PICK r1 : r1 = [r EXCEPT !.left = @ - 1]
      OBVIOUS
    <2>2. PICK b : b = IF isNotifiableEventType(fires[p].ev.type) THEN r.beeps + 1 ELSE r.beeps
      OBVIOUS
    <2>3. PICK r2 : r2 = [r1 EXCEPT !.beeps = b]
      OBVIOUS
    <2>4. /\ MomentRecord(r1) /\ r1.due = r.due /\ r1.beeps = r.beeps /\ r1.marks = r.marks
          /\ r1.clean = r.clean
      BY <1>4, <2>1, LessIs
    <2>5. MomentLeft(fires[p].n, happened) = [happened EXCEPT ![fires[p].n] = r1]
      BY <1>3, <2>1 DEF MomentLeft, Record
    <2>6. MomentLeft(fires[p].n, happened)[fires[p].n] = r1
      BY <1>4, <2>5
    <2>7. happened' = [MomentLeft(fires[p].n, happened) EXCEPT ![fires[p].n].beeps = b]
      BY <1>5, <2>2, <2>4, <2>6, Zenon DEF Send
    <2>8. happened' = [happened EXCEPT ![fires[p].n] = r2]
      BY <1>4, <2>3, <2>5, <2>6, <2>7
    <2>9. r2.due = r.due /\ r2.beeps = b /\ r2.marks = r.marks /\ r2.clean = r.clean
      BY <2>3, <2>4 DEF MomentRecord
    <2>10. Rewrites(p) /\ happened'[fires[p].n] = r2
      BY <1>2, <1>3, <2>8, <2>9, RewritesTo
    <2>11. OthersStay(p) /\ fires'[p] = Idle
      BY <1>5, Replaced DEF Send, Ends
    <2>12. Cleans(p, Record(p).clean)
      BY <1>3, <2>9, <2>10, Zenon DEF Cleans
    <2> QED
      BY <1>1, <1>2, <1>3, <2>2, <2>9, <2>10, <2>11, <2>12, Zenon DEF Beeped, Marked
  <1>6. CASE ~paired
    <2>1. PICK r2 : r2 = [r EXCEPT !.clean = FALSE]
      OBVIOUS
    <2>2. r2.due = r.due /\ r2.clean = FALSE
      BY <1>4, <2>1 DEF MomentRecord
    <2>3. happened' = [happened EXCEPT ![fires[p].n] = r2]
      BY <1>3, <1>6, <2>1 DEF Send, Record
    <2>4. Rewrites(p) /\ happened'[fires[p].n] = r2
      BY <1>2, <1>3, <2>2, <2>3, RewritesTo
    <2>5. PICK c : c = fires[p].copy
      OBVIOUS
    <2>6. fires' = [fires EXCEPT ![p].at = "read", ![p].file = "missed", ![p].copy = c]
      BY <1>2, <1>6, <2>5 DEF Send, FiresOK, Shape
    <2>7. /\ OthersStay(p) /\ Kin(fires'[p], fires[p])
          /\ fires'[p].at = "read" /\ fires'[p].file = "missed"
      BY <1>1, <2>6, WorkMoves
    <2> QED  BY <1>1, <1>2, <2>2, <2>4, <2>7, Zenon DEF Soiled
  <1> QED  BY <1>5, <1>6

-----------------------------------------------------------------------------
(* Where the observations come from.                                       *)

\* A fire comes from a build that its harness has, as long as none was updated.
Source(r) ==
    \E m \in Moments :
        /\ r.fire \in m.fires
        /\ r.id \in identitiesOf(m.by, r.install, r.fire)
        /\ ~Shadowed(r.install)
        /\ past.upgrades = 0 => r.install \in world[m.by].installs
        /\ r.h \in Harnesses => r.h = m.by
\* An observation names the version of the build, and its kind or none.
FiredAs(x) ==
    /\ x.h \in Harnesses /\ x.id = [surface |-> x.id.surface, version |-> x.install.version]
    /\ x.id.version # None
    /\ x.id.surface \in {"unknown", x.install.kind}
    /\ ~Shadowed(x.install)
    /\ past.upgrades = 0 => x.install \in world[x.h].installs
    /\ <<x.h, x.id>> \in DOMAIN past.counted["builds"]
EvidenceInv ==
    /\ past.upgrades \in Nat
    /\ \A p \in Procs : Active(p) => Source(fires[p])
    /\ \A x \in past.fired : FiredAs(x)

LEMMA IdentityIs ==
    ASSUME NEW h \in Harnesses, NEW i, NEW f, NEW id \in identitiesOf(h, i, f), id.version # None
    PROVE  /\ id = [surface |-> id.surface, version |-> i.version]
           /\ id.surface \in {"unknown", i.kind}
  BY DEF identitiesOf, Harnesses, None

\* A fire of the builds' tally is of the harness whose moment it is.
LEMMA ReadFiredAs ==
    ASSUME IInv, EvidenceInv, NEW p \in Procs, ReadFile(p), fires[p].file = "builds",
           fires[p].id.version # None, NEW x,
           x = [h |-> fires[p].h, install |-> fires[p].install, id |-> fires[p].id],
           past'.upgrades = past.upgrades,
           \A h \in Harnesses : world'[h].installs = world[h].installs
    PROVE  FiredAs(x)'
  <1>1. /\ fires[p].h \in Harnesses /\ Active(p)
    BY AtWork DEF ReadFile, At, IInv
  <1>2. PICK m \in Moments :
          /\ fires[p].id \in identitiesOf(m.by, fires[p].install, fires[p].fire)
          /\ ~Shadowed(fires[p].install)
          /\ past.upgrades = 0 => fires[p].install \in world[m.by].installs
          /\ fires[p].h = m.by
    BY <1>1 DEF EvidenceInv, Source
  <1>3. x.h = fires[p].h /\ x.install = fires[p].install /\ x.id = fires[p].id
    OBVIOUS
  <1>4. PICK h, i, id : h = fires[p].h /\ i = fires[p].install /\ id = fires[p].id
    OBVIOUS
  <1>5. /\ id = [surface |-> id.surface, version |-> i.version]
        /\ id.surface \in {"unknown", i.kind}
    BY <1>1, <1>2, <1>4, IdentityIs
  <1>6. past.upgrades = 0 => i \in world'[h].installs
    BY <1>1, <1>2, <1>4
  <1>7. <<h, id>> \in DOMAIN past'.counted["builds"]
    <2>1. PICK k : k = KeyFor(p)
      OBVIOUS
    <2>2. k = <<h, id>>
      BY <1>4, <2>1 DEF KeyFor
    <2>3. past'.counted = [past.counted EXCEPT !["builds"] = Tallied(past.counted["builds"], k)]
      BY <2>1, ReadFires
    <2>4. past'.counted["builds"] = Tallied(past.counted["builds"], k)
          /\ Natural(past.counted["builds"])
      BY <2>3 DEF IInv, TallyInv, FilesOK, Tallies
    <2>5. PICK counts : counts = past.counted["builds"]
      OBVIOUS
    <2>6. DOMAIN Tallied(counts, k) = DOMAIN counts \cup {k}
      BY <2>4, <2>5, TalliedTo, ZenonT(60)
    <2> QED  BY <2>2, <2>4, <2>5, <2>6
  <1>8. /\ x.h = h /\ x.install = i /\ x.id = id /\ h \in Harnesses /\ id.version # None
        /\ ~Shadowed(i)
    BY <1>1, <1>2, <1>3, <1>4
  <1>9. x.id = [surface |-> x.id.surface, version |-> x.install.version]
    BY <1>5, <1>8
  <1>10. x.id.surface \in {"unknown", x.install.kind}
    BY <1>5, <1>8
  <1>11. past'.upgrades = 0 => x.install \in world'[x.h].installs
    BY <1>6, <1>8
  <1>12. <<x.h, x.id>> \in DOMAIN past'.counted["builds"]
    BY <1>7, <1>8
  <1>13. x.h \in Harnesses /\ x.id.version # None /\ ~Shadowed(x.install)
    BY <1>8
  <1> QED  BY <1>9, <1>10, <1>11, <1>12, <1>13 DEF FiredAs

LEMMA FiredKept ==
    ASSUME IInv, EvidenceInv, NEW p \in Procs, Step(p),
           \A h \in Harnesses : world'[h].installs = world[h].installs
    PROVE  \A x \in past'.fired : FiredAs(x)'
  <1>1. past'.upgrades = past.upgrades
    BY PastStays
  <1>2. DOMAIN past.counted["builds"] \subseteq DOMAIN past'.counted["builds"]
    <2>1. CASE ReadFile(p)
      <3>1. PICK f, k : f \in Tallies /\ f = fires[p].file /\ k = KeyFor(p)
        BY <2>1, ReadFires
      <3>2. past'.counted = [past.counted EXCEPT ![f] = Tallied(past.counted[f], k)]
            /\ Natural(past.counted[f])
        BY <2>1, <3>1, ReadFires DEF IInv, TallyInv, FilesOK
      <3>3. DOMAIN past.counted[f] \subseteq DOMAIN Tallied(past.counted[f], k)
        <4>1. PICK counts : counts = past.counted[f]
          OBVIOUS
        <4>2. DOMAIN Tallied(counts, k) = DOMAIN counts \cup {k}
          BY <3>2, <4>1, TalliedTo
        <4> QED  BY <4>1, <4>2
      <3>4. past.counted \in [Tallies -> {past.counted[t] : t \in Tallies}]
        BY DEF IInv, TallyInv, FilesOK
      <3>5. CASE f = "builds"
        <4>1. past'.counted["builds"] = Tallied(past.counted["builds"], k)
          BY <3>2, <3>4, <3>5 DEF Tallies
        <4> QED  BY <3>3, <3>5, <4>1
      <3>6. CASE f # "builds"
        BY <3>2, <3>4, <3>6 DEF Tallies
      <3> QED  BY <3>5, <3>6
    <2> QED  BY <2>1, PastStays
  <1>3. ASSUME NEW x \in past.fired PROVE FiredAs(x)'
    <2>1. FiredAs(x)
      BY DEF EvidenceInv
    <2>2. x.h \in Harnesses /\ world'[x.h].installs = world[x.h].installs
      BY <2>1 DEF FiredAs
    <2> QED  BY <1>1, <1>2, <2>1, <2>2 DEF FiredAs
  <1>4. ASSUME NEW x \in past'.fired, x \notin past.fired PROVE FiredAs(x)'
    <2>1. ReadFile(p)
      BY <1>4, PastStays
    <2>2. /\ fires[p].file = "builds" /\ fires[p].id.version # None
          /\ x = [h |-> fires[p].h, install |-> fires[p].install, id |-> fires[p].id]
      BY <1>4, <2>1, ReadFires
    <2> QED  BY <1>1, <2>1, <2>2, ReadFiredAs
  <1> QED  BY <1>3, <1>4

LEMMA SourceKept ==
    ASSUME past'.upgrades = past.upgrades \/ past'.upgrades # 0,
           past'.upgrades = 0 => \A h \in Harnesses : world'[h].installs = world[h].installs,
           NEW r, Source(r), NEW s, Kin(s, r)
    PROVE  Source(s)'
  <1>1. PICK m \in Moments :
          /\ r.fire \in m.fires
          /\ r.id \in identitiesOf(m.by, r.install, r.fire)
          /\ ~Shadowed(r.install)
          /\ past.upgrades = 0 => r.install \in world[m.by].installs
          /\ r.h \in Harnesses => r.h = m.by
    BY DEF Source
  <1>2. m.by \in Harnesses
    BY AllBeeps DEF BeepsRight
  <1>3. past'.upgrades = 0 => s.install \in world'[m.by].installs
    BY <1>1, <1>2 DEF Kin
  <1>4. /\ s.fire \in m.fires /\ s.id \in identitiesOf(m.by, s.install, s.fire)
        /\ ~Shadowed(s.install) /\ (s.h \in Harnesses => s.h = m.by)
    BY <1>1 DEF Kin
  <1> QED  BY <1>3, <1>4 DEF Source

\* What a fire takes up is its moment's harness's.
LEMMA ReceivedBy ==
    ASSUME NEW p, ~Refused(p)
    PROVE  /\ Accepted(fires[p].fire) /\ Handler(p) = HandlerOf(fires[p].fire)
           /\ Mapped(p) = Heard(fires[p].fire)
           /\ \A m \in Moments : fires[p].fire \in m.fires => Handler(p) = m.by
  <1>1. Accepted(fires[p].fire) /\ Handler(p) = HandlerOf(fires[p].fire)
    BY DEF Refused, BadArgument, Handler, HandlerOf, Accepted
  <1>2. Mapped(p) = Heard(fires[p].fire)
    BY DEF Mapped, Heard, Handler, HandlerOf
  <1> QED  BY <1>1, <1>2, AllBeeps DEF BeepsRight, TakenFor

LEMMA SourcesKept ==
    ASSUME IInv, EvidenceInv, NEW p \in Procs, Step(p),
           \A h \in Harnesses : world'[h].installs = world[h].installs
    PROVE  \A q \in Procs : Active(q)' => Source(fires[q])'
  <1>1. /\ past'.upgrades = past.upgrades /\ FiresOK /\ HappenedOK /\ OthersStay(p)
    BY PastStays, StepEffects DEF IInv, Effects
  <1>2. ASSUME NEW q \in Procs \ {p}, Active(q)' PROVE Source(fires[q])'
    <2>1. fires'[q] = fires[q] /\ Active(q)
      BY <1>1, <1>2 DEF OthersStay, Active, At
    <2>2. PICK r : r = fires[q]
      OBVIOUS
    <2>3. Source(r) /\ Kin(r, r)
      BY <2>1, <2>2 DEF EvidenceInv, Kin
    <2>4. Source(r)'
      BY <1>1, <2>3, SourceKept
    <2> QED  BY <2>1, <2>2, <2>4 DEF Source
  <1>3. ASSUME Active(p)' PROVE Source(fires[p])'
    <2>1. PICK r, s : r = fires[p] /\ s = fires'[p]
      OBVIOUS
    <2>2. CASE Kin(s, r) /\ Active(p)
      <3>1. Source(s)'
        BY <1>1, <2>1, <2>2, SourceKept DEF EvidenceInv
      <3> QED  BY <2>1, <3>1 DEF Source
    <2>3. CASE Receive(p)
      <3>1. /\ ~Refused(p) /\ Active(p) /\ s.h = Handler(p)
            /\ s.fire = r.fire /\ s.install = r.install /\ s.id = r.id
        BY <1>1, <1>3, <2>1, <2>3, ReceiveMoves, WellEnds DEF Active, At, Idle
      <3>2. PICK m \in Moments :
              /\ r.fire \in m.fires /\ r.id \in identitiesOf(m.by, r.install, r.fire)
              /\ ~Shadowed(r.install) /\ (past.upgrades = 0 => r.install \in world[m.by].installs)
        <4>1. Source(r)
          BY <2>1, <3>1 DEF EvidenceInv
        <4> QED  BY <4>1 DEF Source
      <3>3. s.h = m.by /\ m.by \in Harnesses
        BY <2>1, <3>1, <3>2, ReceivedBy, AllBeeps DEF BeepsRight
      <3>4. past'.upgrades = 0 => s.install \in world'[m.by].installs
        BY <1>1, <3>1, <3>2, <3>3
      <3> QED  BY <2>1, <3>1, <3>2, <3>3, <3>4 DEF Source
    <2>4. CASE Moves(p)
      <3>1. Kin(s, r) /\ fires[p].at # "idle"
        BY <2>1, <2>4 DEF Moves, Ledgers
      <3>2. Active(p)
        BY <1>3, <2>1, <3>1 DEF Active, At, Kin
      <3> QED  BY <2>2, <3>1, <3>2
    <2>5. CASE RenameFile(p)
      <3>1. Kin(s, r) /\ Active(p)
        BY <1>1, <1>3, <2>1, <2>5, RenameMoves, WellEnds DEF Active, At, Idle
      <3> QED  BY <2>2, <3>1
    <2>6. CASE Dedup(p)
      <3>1. Active(p) /\ (fires'[p] = Idle \/ Kin(fires'[p], fires[p]))
        BY <1>1, <2>6, DedupMoves, Zenon
      <3>2. fires'[p] # Idle
        BY <1>3 DEF Active, At, Idle
      <3> QED  BY <2>1, <2>2, <3>1, <3>2
    <2>7. CASE Send(p)
      <3>1. Kin(s, r) /\ Active(p)
        BY <1>1, <1>3, <2>1, <2>7, SendMoves DEF Active, At, Idle
      <3> QED  BY <2>2, <3>1
    <2>8. CASE EndsBadly(p) /\ Active(p)
      BY <1>1, <1>3, <2>8, BadlyEnds DEF Active, At, Idle
    <2> QED
      BY <1>1, <1>3, <2>3, <2>4, <2>5, <2>6, <2>7, <2>8, StepMoves DEF Aside
  <1> QED  BY <1>2, <1>3

\* The processes of a moment come from the build it happens in.
LEMMA HappensFrom ==
    ASSUME NEW m, NEW i, NEW s, NEW titled, Happens(m, i, s, titled)
    PROVE  /\ i \in world[m.by].installs /\ ~Shadowed(i)
           /\ \A p \in Procs :
                \/ fires'[p] = fires[p]
                \/ /\ fires'[p].fire \in m.fires /\ fires'[p].install = i /\ fires'[p].h = None
                   /\ fires'[p].id \in identitiesOf(m.by, i, fires'[p].fire)
                   /\ fires'[p].file = "builds" /\ fires'[p].at \in Received
  <1> DEFINE runs == ConfiguredFires(m)
             n == Len(happened) + 1
  <1>1. PICK slot \in [runs -> {p \in Procs : At(p, "idle")}] :
          \E ids \in [runs -> UNION {identitiesOf(m.by, i, f) : f \in runs}] :
             /\ \A f \in runs : ids[f] \in identitiesOf(m.by, i, f)
             /\ fires' = [p \in Procs |->
                   IF \E f \in runs : slot[f] = p
                   THEN LET f == CHOOSE f \in runs : slot[f] = p
                        IN  Process(n, f, i, ids[f], s, titled)
                   ELSE fires[p]]
    BY DEF Happens
  <1> HIDE DEF runs, n
  <1>2. PICK ids :
          /\ \A f \in runs : ids[f] \in identitiesOf(m.by, i, f)
          /\ fires' = [p \in Procs |->
                      IF \E f \in runs : slot[f] = p
                      THEN LET f == CHOOSE f \in runs : slot[f] = p
                           IN  Process(n, f, i, ids[f], s, titled)
                      ELSE fires[p]]
    BY <1>1
  <1>3. ASSUME NEW p \in Procs, fires'[p] # fires[p]
        PROVE  /\ fires'[p].fire \in m.fires /\ fires'[p].install = i /\ fires'[p].h = None
               /\ fires'[p].id \in identitiesOf(m.by, i, fires'[p].fire)
               /\ fires'[p].file = "builds" /\ fires'[p].at \in Received
    <2>1. \E f \in runs : slot[f] = p
      BY <1>2, <1>3
    <2>2. PICK f : f = CHOOSE g \in runs : slot[g] = p
      OBVIOUS
    <2>3. f \in runs
      BY <2>1, <2>2
    <2>4. fires'[p] = Process(n, f, i, ids[f], s, titled)
      BY <1>2, <2>1, <2>2
    <2>5. PICK r, id : r = fires'[p] /\ id = ids[f]
      OBVIOUS
    <2>6. /\ r.fire = f /\ r.install = i /\ r.id = id /\ r.file = "builds" /\ r.h = None
          /\ r.at \in Received
      BY <2>4, <2>5 DEF Process, Received
    <2>7. f \in m.fires
      BY <2>3 DEF runs, ConfiguredFires
    <2> QED  BY <1>2, <2>3, <2>5, <2>6, <2>7
  <1>4. i \in world[m.by].installs /\ ~Shadowed(i)
    BY DEF Happens
  <1> QED  BY <1>3, <1>4

LEMMA InitEvidence == Init => EvidenceInv
  <1> SUFFICES ASSUME Init PROVE EvidenceInv
    OBVIOUS
  <1>1. past.upgrades = 0 /\ past.fired = {} /\ \A p \in Procs : ~Active(p)
    BY DEF Init, Idle, Active, At
  <1> QED  BY <1>1 DEF EvidenceInv

LEMMA NextEvidence == IInv /\ Sites /\ EvidenceInv /\ [Next]_vars => EvidenceInv'
  <1> SUFFICES ASSUME IInv, Sites, EvidenceInv, [Next]_vars PROVE EvidenceInv'
    OBVIOUS
  <1>1. world \in [Harnesses -> Worlds] /\ DOMAIN world = Harnesses /\ PastOK
    BY DEF IInv, TrustInv
  <1>2. CASE \E p \in Procs : Step(p)
    <2>1. PICK p \in Procs : Step(p)
      BY <1>2
    <2>2. \A h \in Harnesses : world'[h].installs = world[h].installs
      BY <1>1, <2>1, StepSees, SitedSeen
    <2>3. past'.upgrades \in Nat
      BY <2>1, PastStays DEF EvidenceInv
    <2> QED  BY <2>1, <2>2, <2>3, FiredKept, SourcesKept DEF EvidenceInv
  <1>3. CASE \E m \in past.scene.moments : \E i, s, titled : Happens(m, i, s, titled)
    <2>1. PICK m : m \in past.scene.moments /\ \E i, s, titled : Happens(m, i, s, titled)
      BY <1>3
    <2>2. PICK i, s, titled : Happens(m, i, s, titled)
      BY <2>1
    <2>3. m \in Moments /\ m.by \in Harnesses
      BY <1>1, <2>1, RecordsAssumption, AllBeeps DEF PastOK, BeepsRight
    <2>4. past' = past /\ world' = world
      BY <2>2 DEF Happens
    <2>5. ASSUME NEW p \in Procs, Active(p)' PROVE Source(fires[p])'
      <3>1. CASE fires'[p] = fires[p]
        <4>1. Source(fires[p])
          BY <2>5, <3>1 DEF EvidenceInv, Active, At
        <4> QED  BY <2>4, <3>1, <4>1 DEF Source
      <3>2. CASE fires'[p] # fires[p]
        <4>1. PICK r : r = fires'[p]
          OBVIOUS
        <4>2. /\ i \in world[m.by].installs /\ ~Shadowed(i) /\ r.fire \in m.fires
              /\ r.install = i /\ r.h = None /\ r.id \in identitiesOf(m.by, i, r.fire)
          BY <2>2, <3>2, <4>1, HappensFrom
        <4>3. r.h \notin Harnesses
          BY <4>2 DEF None, Harnesses
        <4>4. Source(r)'
          BY <2>3, <2>4, <4>2, <4>3 DEF Source
        <4> QED  BY <4>1, <4>4 DEF Source
      <3> QED  BY <3>1, <3>2
    <2> QED  BY <2>4, <2>5 DEF EvidenceInv, FiredAs
  <1>4. CASE \E h, i : Upgrade(h, i)
    <2>1. past' = [past EXCEPT !.upgrades = past.upgrades + 1] /\ fires' = fires
      BY <1>4 DEF Upgrade
    <2>2. past'.upgrades = past.upgrades + 1 /\ past'.fired = past.fired
          /\ past'.counted = past.counted
      BY <1>1, <2>1 DEF PastOK
    <2>3. past'.upgrades \in Nat /\ past'.upgrades # 0
      BY <2>2 DEF EvidenceInv
    <2>4. ASSUME NEW p \in Procs, Active(p)' PROVE Source(fires[p])'
      <3>1. Source(fires[p]) /\ fires'[p] = fires[p]
        BY <2>1, <2>4 DEF EvidenceInv, Active, At
      <3> QED  BY <2>3, <3>1 DEF Source
    <2>5. ASSUME NEW x \in past'.fired PROVE FiredAs(x)'
      <3>1. FiredAs(x)
        BY <2>2, <2>5 DEF EvidenceInv
      <3> QED  BY <2>2, <2>3, <3>1 DEF FiredAs
    <2> QED  BY <2>3, <2>4, <2>5 DEF EvidenceInv
  <1>5. CASE fires' = fires /\ past' = past /\ world' = world
    BY <1>5 DEF EvidenceInv, Active, At, Source, FiredAs
  <1> QED  BY <1>2, <1>3, <1>4, <1>5 DEF Next, Logout, vars

LEMMA EvidenceHolds == Spec => []EvidenceInv
  BY Invariant, SitesHold, InitEvidence, NextEvidence, PTL DEF Spec

-----------------------------------------------------------------------------
(* What grading makes of the observations.                                 *)

\* What is observed of a harness fired, and all that fired is, of a tally that
\* lost nothing.
LEMMA ObservedIs ==
    ASSUME IInv, MapsInv, EvidenceInv, NEW h \in Harnesses
    PROVE  /\ \A b \in DOMAIN ObservedOf(h) :
                \E x \in past.fired : x.h = h /\ x.id = b
           /\ Sure("builds") => \A x \in past.fired : x.h = h => x.id \in DOMAIN ObservedOf(h)
  <1>1. PICK map : map = ReadTally("builds")
    OBVIOUS
  <1>2. "builds" \in Tallies
    BY DEF Tallies
  <1>3. Proven(map)
    BY <1>1, <1>2, BackedEmpty DEF MapsInv, Backed, ReadTally
  <1>4. PICK mine : mine = {k \in DOMAIN map : k[1] = h /\ k[2].version # None}
    OBVIOUS
  <1>5. DOMAIN ObservedOf(h) = {k[2] : k \in mine}
    BY <1>1, <1>4 DEF ObservedOf
  <1>6. ASSUME NEW b \in DOMAIN ObservedOf(h)
        PROVE  \E x \in past.fired : x.h = h /\ x.id = b
    <2>1. PICK k \in mine : b = k[2]
      BY <1>5
    <2> QED  BY <1>3, <1>4, <2>1 DEF Proven
  <1>7. ASSUME Sure("builds"), NEW x \in past.fired, x.h = h
        PROVE  x.id \in DOMAIN ObservedOf(h)
    <2>1. PICK id : id = x.id
      OBVIOUS
    <2>2. <<h, id>> \in DOMAIN past.counted["builds"] /\ id.version # None
      BY <1>7, <2>1 DEF EvidenceInv, FiredAs
    <2>3. Counts(map) = past.counted["builds"]
      BY <1>1, <1>2, <1>7 DEF IInv, TallyInv, Undisturbed, Whole, Sure
    <2>4. <<h, id>> \in DOMAIN map
      BY <2>2, <2>3 DEF Counts
    <2>5. PICK k : k = <<h, id>>
      OBVIOUS
    <2>6. k \in mine /\ k[2] = id
      BY <1>4, <2>2, <2>4, <2>5
    <2> QED  BY <1>5, <2>1, <2>6
  <1> QED  BY <1>6, <1>7

\* A build that runs and whose version cannot be read is the only app of its
\* harness.
LEMMA Nameless ==
    ASSUME NEW h, NEW w, Sited(h, w), w \in Worlds, NEW i \in w.installs,
           surfaceOf(h, i).version = None, ~Shadowed(i)
    PROVE  /\ i.kind = "desktop"
           /\ \A j \in w.installs : j.kind = i.kind => j = i
  <1>1. i \in Builds
    BY DEF Worlds
  <1>2. i.version # None /\ i.kind \in {"terminal", "desktop"}
    BY <1>1 DEF Builds, Versions, None, HARNESS_SURFACE_KINDS
  <1>3. ~Readable(h, i) /\ i.kind = "desktop"
    BY <1>2 DEF surfaceOf
  <1> QED  BY <1>3 DEF Sited

LEMMA SurfaceIs ==
    ASSUME NEW h, NEW w \in Worlds, NEW i \in w.installs
    PROVE  /\ surfaceOf(h, i) \in surfacesOf(h, w.installs)
           /\ surfaceOf(h, i).kind = i.kind /\ surfaceOf(h, i).shadowed = Shadowed(i)
           /\ surfaceOf(h, i).version \in {i.version, None}
           /\ i.kind # "unknown" /\ i.version # None
  <1>1. i \in Builds
    BY DEF Worlds
  <1> QED  BY <1>1 DEF surfaceOf, surfacesOf, Builds, Versions, None, HARNESS_SURFACE_KINDS

LEMMA MatchedIs ==
    ASSUME NEW s, NEW ss, NEW obs
    PROVE  /\ s.version # None => \A b \in matched(s, ss, obs) :
                b.version = s.version /\ b.surface \in {"unknown", s.kind}
           /\ s.version = None => matched(s, ss, obs) = soleOfKind(s, ss, obs)
           /\ s.version # None /\ ~ambiguous(s, ss, obs) => \A b \in DOMAIN obs :
                b.version = s.version /\ b.surface \in {"unknown", s.kind}
                => b \in matched(s, ss, obs)
  BY DEF matched, exact, soleOfKind, unattributed

\* A build called covered fired, or one that cannot be told from it.
LEMMA ActiveFired ==
    ASSUME IInv, Sites, MapsInv, EvidenceInv, NEW h \in Harnesses, NEW i \in world[h].installs,
           NEW s, s = surfaceOf(h, i), NEW ss, ss = surfacesOf(h, world[h].installs),
           NEW b \in matched(s, ss, ObservedOf(h)), s.version # None \/ past.upgrades = 0
    PROVE  \E x \in past.fired : Alike(h, i, x)
  <1>1. PICK w \in Worlds : w = world[h] /\ Sited(h, w)
    BY DEF IInv, TrustInv, Sites
  <1>2. /\ s.kind = i.kind /\ s.version \in {i.version, None} /\ i.kind # "unknown"
    BY <1>1, SurfaceIs
  <1>3. PICK obs : obs = ObservedOf(h)
    OBVIOUS
  <1>4. b \in DOMAIN obs
    BY <1>3 DEF matched, exact, soleOfKind, unattributed
  <1>5. PICK x \in past.fired : x.h = h /\ x.id = b
    BY <1>3, <1>4, ObservedIs
  <1>6. FiredAs(x) /\ b.version = x.install.version
    <2>1. FiredAs(x)
      BY <1>5 DEF EvidenceInv
    <2> QED  BY <1>5, <2>1 DEF FiredAs
  <1>7. CASE s.version # None
    <2>1. b.version = s.version /\ b.surface \in {"unknown", s.kind}
      BY <1>3, <1>7, MatchedIs
    <2> QED  BY <1>2, <1>5, <1>6, <1>7, <2>1 DEF Alike
  <1>8. CASE s.version = None
    <2>1. b \in soleOfKind(s, ss, obs)
      BY <1>3, <1>8, MatchedIs
    <2>2. b.surface = s.kind /\ b.version \notin Claimed(ss, s.kind)
      BY <2>1 DEF soleOfKind
    <2>3. PICK j : j = x.install
      OBVIOUS
    <2>4. /\ j \in w.installs /\ ~Shadowed(j) /\ j.kind = i.kind /\ b.version = j.version
      BY <1>1, <1>2, <1>5, <1>6, <1>8, <2>2, <2>3 DEF FiredAs
    <2>5. surfaceOf(h, j).version = None
      <3>1. PICK t : t = surfaceOf(h, j)
        OBVIOUS
      <3>2. t \in ss /\ t.kind = s.kind /\ t.version \in {b.version, None}
        BY <1>1, <1>2, <2>4, <3>1, SurfaceIs
      <3> QED  BY <2>2, <3>1, <3>2 DEF Claimed
    <2>6. i = j
      BY <1>1, <2>4, <2>5, Nameless
    <2> QED  BY <1>2, <1>5, <2>2, <2>3, <2>4, <2>6 DEF Alike
  <1> QED  BY <1>7, <1>8

\* A build that fired, of a tally that lost nothing, is matched.
LEMMA FiredMatched ==
    ASSUME IInv, Sites, MapsInv, EvidenceInv, NEW h \in Harnesses, NEW i \in world[h].installs,
           NEW s, s = surfaceOf(h, i), NEW ss, ss = surfacesOf(h, world[h].installs),
           ~s.shadowed, ~ambiguous(s, ss, ObservedOf(h)), Sure("builds"),
           NEW x \in past.fired, Alike(h, i, x), x.install = i,
           s.version # None \/ (past.upgrades = 0 /\ x.id.surface = i.kind)
    PROVE  matched(s, ss, ObservedOf(h)) # {}
  <1>1. PICK w \in Worlds : w = world[h] /\ Sited(h, w)
    BY DEF IInv, TrustInv, Sites
  <1>2. /\ s.kind = i.kind /\ s.version \in {i.version, None} /\ i.kind # "unknown"
        /\ s \in ss /\ ~Shadowed(i) /\ i.version # None
    BY <1>1, SurfaceIs
  <1>3. PICK obs : obs = ObservedOf(h)
    OBVIOUS
  <1>4. PICK b : b = x.id
    OBVIOUS
  <1>5. FiredAs(x) /\ x.h = h /\ b.version = i.version /\ b.surface \in {"unknown", i.kind}
    BY <1>4 DEF Alike, EvidenceInv, FiredAs
  <1>6. b \in DOMAIN obs
    BY <1>3, <1>4, <1>5, ObservedIs
  <1>7. CASE s.version # None
    BY <1>2, <1>3, <1>5, <1>6, <1>7, MatchedIs
  <1>8. CASE s.version = None
    <2>1. /\ i.kind = "desktop" /\ \A j \in w.installs : j.kind = i.kind => j = i
      BY <1>1, <1>2, <1>8, Nameless
    <2>2. ASSUME NEW t \in ss, t.kind = s.kind PROVE t = s
      <3>1. PICK j \in w.installs : t = surfaceOf(h, j)
        BY <1>1 DEF surfacesOf
      <3>2. j.kind = i.kind
        BY <1>1, <1>2, <2>2, <3>1, SurfaceIs
      <3> QED  BY <2>1, <3>1, <3>2
    <2>3. Claimed(ss, s.kind) = {}
      BY <1>8, <2>2 DEF Claimed
    <2>4. {y \in ss : y.version = None /\ y.kind = s.kind} = {s}
      BY <1>2, <1>8, <2>2
    <2>5. b.surface = s.kind
      BY <1>2, <1>4, <1>8
    <2>6. ASSUME NEW c \in DOMAIN obs, c.surface = s.kind PROVE c = b
      <3>1. PICK y \in past.fired : y.h = h /\ y.id = c
        BY <1>3, <2>6, ObservedIs
      <3>2. /\ c = [surface |-> c.surface, version |-> y.install.version]
            /\ y.install \in w.installs /\ c.surface = y.install.kind
        BY <1>1, <1>2, <1>8, <2>1, <2>6, <3>1 DEF EvidenceInv, FiredAs
      <3>3. y.install = i
        BY <1>2, <2>1, <2>6, <3>2
      <3>4. b = [surface |-> b.surface, version |-> i.version]
        BY <1>4, <1>5 DEF FiredAs
      <3> QED  BY <2>5, <2>6, <3>2, <3>3, <3>4
    <2>7. PICK unclaimed :
            unclaimed = {c \in DOMAIN obs : c.surface = s.kind /\ c.version \notin Claimed(ss, s.kind)}
      OBVIOUS
    <2>8. unclaimed = {b}
      BY <1>6, <2>3, <2>5, <2>6, <2>7
    <2>9. Cardinality({s}) = 1 /\ Cardinality({b}) = 1
      BY FS_Singleton
    <2>10. soleOfKind(s, ss, obs) = {b}
      BY <1>8, <2>4, <2>7, <2>8, <2>9 DEF soleOfKind
    <2> QED  BY <1>3, <1>8, <2>10, MatchedIs
  <1> QED  BY <1>7, <1>8

\* A build is called covered only if it fired, or another did that the hooks cannot
\* tell from it, and one that fired is not called uncovered while the tally has all of
\* its events, whatever the vendors update, the processes race and the cap evicts.
THEOREM CoverageIsSound == Spec => []CoverageSound
  <1>1. IInv /\ Sites /\ MapsInv /\ EvidenceInv => CoverageSound
    <2> SUFFICES ASSUME IInv, Sites, MapsInv, EvidenceInv,
                        NEW h \in DOMAIN world, NEW i \in world[h].installs,
                        NEW s, s = surfaceOf(h, i),
                        NEW ss, ss = surfacesOf(h, world[h].installs),
                        NEW v, v = coverage(s, ss, world[h].status, ObservedOf(h))
                 PROVE  /\ v = "active" /\ (s.version # None \/ past.upgrades = 0)
                             => \E x \in past.fired : Alike(h, i, x)
                        /\ v = "uncovered" /\ Sure("builds")
                           /\ world[h].status \in CONFIGURED_STATUSES
                             => ~\E x \in past.fired :
                                  /\ Alike(h, i, x) /\ x.install = i
                                  /\ s.version # None
                                     \/ (past.upgrades = 0 /\ x.id.surface = i.kind)
      BY DEF CoverageSound
    <2>1. h \in Harnesses
      BY DEF IInv, TrustInv
    <2>2. ASSUME v = "active", s.version # None \/ past.upgrades = 0
          PROVE  \E x \in past.fired : Alike(h, i, x)
      <3>1. matched(s, ss, ObservedOf(h)) # {}
        BY <2>2 DEF coverage
      <3> QED  BY <2>1, <2>2, <3>1, ActiveFired
    <2>3. ASSUME v = "uncovered", Sure("builds"), world[h].status \in CONFIGURED_STATUSES,
                 NEW x \in past.fired, Alike(h, i, x), x.install = i,
                 s.version # None \/ (past.upgrades = 0 /\ x.id.surface = i.kind)
          PROVE  FALSE
      <3>1. matched(s, ss, ObservedOf(h)) = {} /\ ~s.shadowed /\ ~ambiguous(s, ss, ObservedOf(h))
        BY <2>3 DEF coverage
      <3> QED  BY <2>1, <2>3, <3>1, FiredMatched
    <2> QED  BY <2>2, <2>3
  <1> QED  BY <1>1, Invariant, SitesHold, MapsHold, EvidenceHolds, PTL

-----------------------------------------------------------------------------
(* What the ledger has of a moment that no process upset.                  *)

\* A fire at work was accepted, and its event decides where it goes.
Stage(r) ==
    /\ r.h \notin Harnesses => r.file = "builds"
    /\ r.h \in Harnesses =>
         /\ Accepted(r.fire) /\ r.ev = Heard(r.fire) /\ r.ev # Unmapped
         /\ r.at \in {"dedup", "send"} => shouldSendEventType(r.ev.type)
         /\ r.file = "filtered" => ~shouldSendEventType(r.ev.type)
\* The beeps that are marked and no longer on their way.
Delivered(n) ==
    {e \in happened[n].marks :
        isNotifiableEventType(e.type) /\ \A p \in Running(n) : fires[p].at = "send" => fires[p].ev # e}
Covered(f, marks) == Heard(f) \in marks \/ (Approval(Heard(f)) /\ \E x \in marks : Approval(x))
Marks(marks, R) ==
    /\ IsFiniteSet(marks)
    /\ \A e \in marks : \E f \in R : Sends(f) /\ e = Heard(f)
    /\ \A x, y \in marks : Approval(x) /\ Approval(y) => x = y
\* Every fire that sends is marked or still runs, and the beeps are those of the marks.
Kept(n, R) ==
    /\ Marks(happened[n].marks, R)
    /\ \A f \in R : Sends(f) =>
         Covered(f, happened[n].marks) \/ \E p \in Running(n) : fires[p].fire = f
    /\ \A p \in Running(n) :
         /\ fires[p].file # "missed"
         /\ fires[p].at = "send" => fires[p].ev \in happened[n].marks
    /\ \A p, q \in Running(n) :
         fires[p].at = "send" /\ fires[q].at = "send" /\ fires[p].ev = fires[q].ev => p = q
    /\ happened[n].beeps = Cardinality(Delivered(n))
Configured(m, R) == R # {} /\ \A f \in R : \A g \in m.fires : g.cmd = f.cmd => g \in R
Ledger(n) ==
    \E m \in Moments : \E R \in SUBSET m.fires :
        /\ Configured(m, R) /\ happened[n].due = BeepsDue(m, R)
        /\ \A p \in Running(n) : fires[p].fire \in R
        /\ happened[n].clean => Kept(n, R)
LedgerInv ==
    /\ \A p \in Procs : Active(p) => Stage(fires[p])
    /\ \A n \in DOMAIN happened : Ledger(n)

LEMMA LedgerOn ==
    ASSUME NEW n, Ledger(n), happened'[n].due = happened[n].due,
           \A q \in Running(n)' : q \in Running(n) /\ fires'[q].fire = fires[q].fire,
           happened'[n].clean => happened[n].clean,
           \A R : (\A q \in Running(n) : fires[q].fire \in R) /\ Kept(n, R) /\ happened'[n].clean
                  => Kept(n, R)'
    PROVE  Ledger(n)'
  <1>1. PICK m \in Moments : \E R \in SUBSET m.fires :
          /\ Configured(m, R) /\ happened[n].due = BeepsDue(m, R)
          /\ \A p \in Running(n) : fires[p].fire \in R
          /\ happened[n].clean => Kept(n, R)
    BY DEF Ledger
  <1>2. PICK R \in SUBSET m.fires :
          /\ Configured(m, R) /\ happened[n].due = BeepsDue(m, R)
          /\ \A p \in Running(n) : fires[p].fire \in R
          /\ happened[n].clean => Kept(n, R)
    BY <1>1
  <1>3. \A p \in Running(n)' : fires'[p].fire \in R
    BY <1>2
  <1>4. happened'[n].clean => Kept(n, R)'
    BY <1>2, Zenon
  <1>5. happened'[n].due = BeepsDue(m, R)
    BY <1>2
  <1> QED  BY <1>2, <1>3, <1>4, <1>5, Zenon DEF Ledger

\* The fires of the moment go on and meet nobody.
LEMMA KeptMoves ==
    ASSUME NEW n, NEW R, Kept(n, R), Running(n)' = Running(n),
           happened'[n].beeps = happened[n].beeps, happened'[n].marks = happened[n].marks,
           \A q \in Running(n) :
             /\ fires'[q].fire = fires[q].fire /\ fires'[q].file # "missed"
             /\ fires'[q].at = "send" <=> fires[q].at = "send"
             /\ fires[q].at = "send" => fires'[q].ev = fires[q].ev
    PROVE  Kept(n, R)'
  <1>1. PICK marks : marks = happened[n].marks
    OBVIOUS
  <1>2. Marks(marks, R)
    BY <1>1 DEF Kept
  <1>3. Delivered(n)' = Delivered(n)
    BY DEF Delivered
  <1>4. \A f \in R : Sends(f) => Covered(f, marks) \/ \E p \in Running(n)' : fires'[p].fire = f
    BY <1>1 DEF Kept
  <1>5. \A p \in Running(n)' :
          /\ fires'[p].file # "missed"
          /\ fires'[p].at = "send" => fires'[p].ev \in marks
    BY <1>1 DEF Kept
  <1>6. \A p, q \in Running(n)' :
          fires'[p].at = "send" /\ fires'[q].at = "send" /\ fires'[p].ev = fires'[q].ev => p = q
    BY DEF Kept
  <1>7. happened'[n].beeps = Cardinality(Delivered(n)')
    BY <1>3 DEF Kept
  <1> QED  BY <1>1, <1>2, <1>4, <1>5, <1>6, <1>7 DEF Kept

\* One fire ends: it delivered its event, or another has marked it.
LEMMA KeptEnds ==
    ASSUME NEW n, NEW R, Kept(n, R), NEW p \in Running(n), Running(n)' = Running(n) \ {p},
           \A q \in Running(n) \ {p} : fires'[q] = fires[q],
           happened'[n].marks = happened[n].marks, happened[n].beeps \in Nat,
           happened'[n].beeps =
              (IF fires[p].at = "send" /\ isNotifiableEventType(fires[p].ev.type)
               THEN happened[n].beeps + 1 ELSE happened[n].beeps),
           Sends(fires[p].fire) => Covered(fires[p].fire, happened[n].marks)
    PROVE  Kept(n, R)'
  <1>1. PICK marks : marks = happened[n].marks
    OBVIOUS
  <1>2. Marks(marks, R)
    BY <1>1 DEF Kept
  <1>3. \A f \in R : Sends(f) => Covered(f, marks) \/ \E q \in Running(n)' : fires'[q].fire = f
    BY <1>1 DEF Kept
  <1>4. \A q \in Running(n)' :
          /\ fires'[q].file # "missed"
          /\ fires'[q].at = "send" => fires'[q].ev \in marks
    BY <1>1 DEF Kept
  <1>5. \A q, r \in Running(n)' :
          fires'[q].at = "send" /\ fires'[r].at = "send" /\ fires'[q].ev = fires'[r].ev => q = r
    BY DEF Kept
  <1>6. PICK D, e : D = Delivered(n) /\ e = fires[p].ev
    OBVIOUS
  <1>7. happened'[n].beeps = Cardinality(Delivered(n)')
    <2>1. CASE fires[p].at = "send" /\ isNotifiableEventType(e.type)
      <3>1. e \in marks /\ e \notin D
        BY <1>1, <1>6, <2>1 DEF Kept, Delivered
      <3>2. Delivered(n)' = D \cup {e}
        <4>1. \A q \in Running(n) \ {p} : fires[q].at = "send" => fires[q].ev # e
          BY <1>6, <2>1 DEF Kept
        <4> QED  BY <1>1, <1>6, <2>1, <3>1, <4>1 DEF Delivered
      <3>3. IsFiniteSet(D)
        <4>1. D \subseteq marks
          BY <1>1, <1>6 DEF Delivered
        <4> QED  BY <1>2, <4>1, FS_Subset DEF Marks
      <3>4. Cardinality(D \cup {e}) = Cardinality(D) + 1
        BY <3>1, <3>3, FS_AddElement
      <3> QED  BY <1>6, <2>1, <3>2, <3>4 DEF Kept
    <2>2. CASE ~(fires[p].at = "send" /\ isNotifiableEventType(e.type))
      <3>1. Delivered(n)' = D
        BY <1>1, <1>6, <2>2 DEF Delivered
      <3> QED  BY <1>6, <2>2, <3>1 DEF Kept
    <2> QED  BY <2>1, <2>2
  <1> QED  BY <1>1, <1>2, <1>3, <1>4, <1>5, <1>7 DEF Kept

\* One fire marks its event, which no mark of the moment suppresses.
LEMMA KeptMarks ==
    ASSUME NEW n, NEW R, Kept(n, R), NEW p \in Running(n), Running(n)' = Running(n),
           \A q \in Running(n) \ {p} : fires'[q] = fires[q],
           NEW e, e = fires[p].ev, e = Heard(fires[p].fire),
           Sends(fires[p].fire), fires[p].fire \in R,
           fires[p].at = "dedup", fires'[p].at = "send", fires'[p].ev = e,
           fires'[p].fire = fires[p].fire, fires'[p].file = fires[p].file,
           happened'[n].marks = happened[n].marks \cup {e},
           happened'[n].beeps = happened[n].beeps,
           e \notin happened[n].marks,
           ~(Approval(e) /\ \E x \in happened[n].marks : Approval(x))
    PROVE  Kept(n, R)'
  <1>1. PICK marks : marks = happened[n].marks
    OBVIOUS
  <1>2. PICK more : more = marks \cup {e}
    OBVIOUS
  <1>3. Marks(marks, R)
    BY <1>1 DEF Kept
  <1>4. Marks(more, R)
    <2>1. IsFiniteSet(more)
      BY <1>2, <1>3, FS_AddElement DEF Marks
    <2>2. \A x, y \in more : Approval(x) /\ Approval(y) => x = y
      BY <1>1, <1>2, <1>3 DEF Marks
    <2>3. \A x \in more : \E f \in R : Sends(f) /\ x = Heard(f)
      BY <1>2, <1>3 DEF Marks
    <2> QED  BY <2>1, <2>2, <2>3 DEF Marks
  <1>5. \A f \in R : Sends(f) => Covered(f, more) \/ \E q \in Running(n)' : fires'[q].fire = f
    <2>1. \A f \in R : Sends(f) => Covered(f, marks) \/ \E q \in Running(n) : fires[q].fire = f
      BY <1>1 DEF Kept
    <2>2. \A f : Covered(f, marks) => Covered(f, more)
      BY <1>2 DEF Covered
    <2>3. \A q \in Running(n) : fires'[q].fire = fires[q].fire
      OBVIOUS
    <2> QED  BY <2>1, <2>2, <2>3
  <1>6. \A q \in Running(n)' :
          /\ fires'[q].file # "missed"
          /\ fires'[q].at = "send" => fires'[q].ev \in more
    BY <1>1, <1>2 DEF Kept
  <1>7. \A q \in Running(n) \ {p} : fires[q].at = "send" => fires[q].ev # e
    BY DEF Kept
  <1>8. \A q, r \in Running(n)' :
          fires'[q].at = "send" /\ fires'[r].at = "send" /\ fires'[q].ev = fires'[r].ev => q = r
    BY <1>7 DEF Kept
  <1>9. Delivered(n)' = Delivered(n)
    <2>1. \A x \in marks : x # e
      BY <1>1
    <2> QED  BY <1>1, <2>1 DEF Delivered
  <1>10. happened'[n].beeps = Cardinality(Delivered(n)')
    BY <1>9 DEF Kept
  <1>11. happened'[n].marks = more
    BY <1>1, <1>2
  <1>12. Marks(happened'[n].marks, R)
    BY <1>4, <1>11
  <1>13. \A f \in R : Sends(f) =>
           Covered(f, happened'[n].marks) \/ \E q \in Running(n)' : fires'[q].fire = f
    BY <1>5, <1>11
  <1>14. \A q \in Running(n)' :
           /\ fires'[q].file # "missed"
           /\ fires'[q].at = "send" => fires'[q].ev \in happened'[n].marks
    BY <1>6, <1>11
  <1> QED  BY <1>8, <1>10, <1>12, <1>13, <1>14 DEF Kept

-----------------------------------------------------------------------------
(* The ledger through a step.                                              *)

LEMMA OtherLedger ==
    ASSUME NEW p \in Procs, OthersStay(p), NEW n, Ledger(n), happened'[n] = happened[n],
           Active(p) => fires[p].n # n, Active(p)' => fires'[p].n # n
    PROVE  Ledger(n)'
  <1>1. \A q \in Procs \ {p} : fires'[q] = fires[q] /\ (Active(q)' <=> Active(q))
    BY DEF OthersStay, Active, At
  <1>2. Running(n)' = Running(n) /\ \A q \in Running(n) : fires'[q] = fires[q]
    BY <1>1 DEF Running
  <1>3. ASSUME NEW R, Kept(n, R) PROVE Kept(n, R)'
    <2>1. \A q \in Running(n) : fires'[q].file # "missed"
      BY <1>2, <1>3 DEF Kept
    <2> QED  BY <1>2, <1>3, <2>1, KeptMoves
  <1> QED  BY <1>2, <1>3, LedgerOn

LEMMA RunningOn ==
    ASSUME NEW p \in Procs, OthersStay(p), Active(p), NEW n, n = fires[p].n
    PROVE  /\ p \in Running(n) /\ Running(n) \subseteq Procs
           /\ \A q \in Running(n) \ {p} : fires'[q] = fires[q]
           /\ fires'[p] = Idle => Running(n)' = Running(n) \ {p}
           /\ Kin(fires'[p], fires[p]) /\ fires'[p].at # "idle" => Running(n)' = Running(n)
           /\ fires'[p].at # "idle" /\ fires'[p].h # "pair" /\ fires'[p].n = n
                => Running(n)' = Running(n)
  <1>1. \A q \in Procs \ {p} : fires'[q] = fires[q] /\ (Active(q)' <=> Active(q))
    BY DEF OthersStay, Active, At
  <1>2. fires'[p] = Idle => ~Active(p)'
    BY DEF Idle, Active, At
  <1>3. fires'[p].at # "idle" /\ fires'[p].h # "pair" /\ fires'[p].n = n
          => Running(n)' = Running(n)
    BY <1>1 DEF Active, At, Running
  <1>4. Kin(fires'[p], fires[p]) /\ fires'[p].at # "idle" => Running(n)' = Running(n)
    BY <1>3 DEF Active, At, Kin
  <1>5. fires'[p] = Idle => Running(n)' = Running(n) \ {p}
    BY <1>1, <1>2 DEF Running
  <1> QED  BY <1>1, <1>3, <1>4, <1>5 DEF Running

\* A moment that the process upset owes nothing.
LEMMA SoiledLedger ==
    ASSUME NEW p \in Procs, OthersStay(p), Active(p), NEW n, n = fires[p].n, Ledger(n),
           Rewrites(p), Soiled(p),
           fires'[p] = Idle \/ (Kin(fires'[p], fires[p]) /\ fires'[p].at # "idle")
    PROVE  Ledger(n)'
  <1>1. \A q \in Running(n)' : q \in Running(n) /\ fires'[q].fire = fires[q].fire
    BY RunningOn DEF Kin
  <1>2. ~happened'[n].clean /\ happened'[n].due = happened[n].due
    BY DEF Soiled, Rewrites
  <1> QED  BY <1>1, <1>2, LedgerOn, Zenon

\* The fire goes on away from the ledger.
LEMMA MovedLedger ==
    ASSUME NEW p \in Procs, OthersStay(p), Active(p), NEW n, n = fires[p].n, Ledger(n),
           happened' = happened, fires'[p].at \notin {"idle", "send"}, fires[p].at # "send",
           fires'[p].h # "pair", fires'[p].n = n, fires'[p].fire = fires[p].fire,
           fires'[p].file = fires[p].file \/ fires'[p].file = "filtered"
    PROVE  Ledger(n)'
  <1>1. /\ Running(n)' = Running(n) /\ p \in Running(n)
        /\ \A q \in Running(n) \ {p} : fires'[q] = fires[q]
    BY RunningOn
  <1>2. ASSUME NEW R, Kept(n, R) PROVE Kept(n, R)'
    <2>1. \A q \in Running(n) : fires[q].file # "missed"
      BY <1>2 DEF Kept
    <2>2. \A q \in Running(n) :
             /\ fires'[q].fire = fires[q].fire /\ fires'[q].file # "missed"
             /\ fires'[q].at = "send" <=> fires[q].at = "send"
             /\ fires[q].at = "send" => fires'[q].ev = fires[q].ev
      BY <1>1, <2>1
    <2> QED  BY <1>1, <1>2, <2>2, KeptMoves
  <1> QED  BY <1>1, <1>2, LedgerOn

\* The fire ends with what the moment has marked.
LEMMA EndedLedger ==
    ASSUME HappenedOK, NEW p \in Procs, OthersStay(p), Active(p), NEW n, n = fires[p].n, Ledger(n),
           fires'[p] = Idle, Rewrites(p), Marked(p, Record(p).marks), Cleans(p, Record(p).clean),
           Beeped(p, IF fires[p].at = "send" /\ isNotifiableEventType(fires[p].ev.type)
                     THEN Record(p).beeps + 1 ELSE Record(p).beeps),
           \A R : Kept(n, R) /\ happened'[n].clean /\ Sends(fires[p].fire)
                  => Covered(fires[p].fire, happened[n].marks)
    PROVE  Ledger(n)'
  <1>1. /\ Running(n)' = Running(n) \ {p} /\ p \in Running(n)
        /\ \A q \in Running(n) \ {p} : fires'[q] = fires[q]
    BY RunningOn
  <1>2. /\ happened'[n].due = happened[n].due /\ happened'[n].marks = happened[n].marks
        /\ happened'[n].beeps = IF fires[p].at = "send" /\ isNotifiableEventType(fires[p].ev.type)
                                THEN happened[n].beeps + 1 ELSE happened[n].beeps
    BY DEF Rewrites, Marked, Beeped, Record
  <1>3. happened[n].beeps \in Nat
    BY DEF HappenedOK, MomentRecord
  <1>4. happened'[n].clean => happened[n].clean
    BY Zenon DEF Cleans, Record
  <1>5. ASSUME NEW R, Kept(n, R), happened'[n].clean PROVE Kept(n, R)'
    <2>1. Sends(fires[p].fire) => Covered(fires[p].fire, happened[n].marks)
      BY <1>5, Zenon
    <2> QED  BY <1>1, <1>2, <1>3, <1>5, <2>1, KeptEnds
  <1>6. \A q \in Running(n)' : q \in Running(n) /\ fires'[q].fire = fires[q].fire
    BY <1>1
  <1> QED  BY <1>2, <1>4, <1>5, <1>6, LedgerOn, Zenon

LEMMA DedupLedger ==
    ASSUME FiresOK, HappenedOK, NEW p \in Procs, Dedup(p), Stage(fires[p]),
           NEW n, n = fires[p].n, Ledger(n)
    PROVE  Ledger(n)'
  <1>1. /\ fires[p].at = "dedup" /\ Active(p) /\ OthersStay(p) /\ Rewrites(p)
        /\ Beeped(p, Record(p).beeps) /\ Cleans(p, Record(p).clean /\ Twins(p) = {})
        /\ \/ /\ fires'[p] = Idle /\ Marked(p, Record(p).marks)
              /\ Twins(p) = {} => Duplicate(p)
           \/ /\ fires'[p].at = "send" /\ Kin(fires'[p], fires[p])
              /\ fires'[p].file = fires[p].file
              /\ Marked(p, Record(p).marks \cup {fires[p].ev})
              /\ Twins(p) = {} => ~Duplicate(p)
    BY DedupMoves, Zenon
  <1>2. fires[p].h \in Harnesses
    BY <1>1, AtWork
  <1>3. PICK f, e : f = fires[p].fire /\ e = fires[p].ev
    OBVIOUS
  <1>4. Accepted(f) /\ e = Heard(f) /\ Sends(f)
    BY <1>1, <1>2, <1>3 DEF Stage, Sends
  <1>5. (happened'[n].clean => happened[n].clean) /\ (happened'[n].clean => Twins(p) = {})
    BY <1>1, Zenon DEF Cleans, Record
  <1>6. PICK marks : marks = happened[n].marks
    OBVIOUS
  <1>7. Duplicate(p) <=> e \in marks \/ (Approval(e) /\ \E x \in marks : Approval(x))
    BY <1>3, <1>6 DEF Duplicate, Approval
  <1>8. CASE /\ fires'[p] = Idle /\ Marked(p, Record(p).marks)
             /\ Twins(p) = {} => Duplicate(p)
    <2>1. happened'[n].clean => Covered(f, marks)
      BY <1>4, <1>5, <1>7, <1>8, Zenon DEF Covered
    <2>2. Beeped(p, IF fires[p].at = "send" /\ isNotifiableEventType(fires[p].ev.type)
                    THEN Record(p).beeps + 1 ELSE Record(p).beeps)
      BY <1>1
    <2>3. Cleans(p, Record(p).clean)
      BY <1>1, Zenon DEF Cleans
    <2> QED  BY <1>1, <1>3, <1>6, <1>8, <2>1, <2>2, <2>3, EndedLedger, Zenon
  <1>9. CASE /\ fires'[p].at = "send" /\ Kin(fires'[p], fires[p])
             /\ fires'[p].file = fires[p].file
             /\ Marked(p, Record(p).marks \cup {fires[p].ev})
             /\ Twins(p) = {} => ~Duplicate(p)
    <2>1. /\ Running(n)' = Running(n) /\ p \in Running(n)
          /\ \A q \in Running(n) \ {p} : fires'[q] = fires[q]
      BY <1>1, <1>9, RunningOn
    <2>2. /\ happened'[n].due = happened[n].due /\ happened'[n].marks = marks \cup {e}
          /\ happened'[n].beeps = happened[n].beeps
      BY <1>1, <1>3, <1>6, <1>9 DEF Rewrites, Marked, Beeped, Record
    <2>3. fires'[p].fire = f /\ fires'[p].ev = e
      BY <1>3, <1>9 DEF Kin
    <2>4. ASSUME NEW R, \A q \in Running(n) : fires[q].fire \in R, Kept(n, R), happened'[n].clean
          PROVE  Kept(n, R)'
      <3>1. ~Duplicate(p)
        BY <1>5, <1>9, <2>4, Zenon
      <3>2. e \notin marks /\ ~(Approval(e) /\ \E x \in marks : Approval(x))
        BY <1>7, <3>1
      <3>3. f \in R
        BY <1>3, <2>1, <2>4
      <3>4. /\ e = fires[p].ev /\ e = Heard(fires[p].fire) /\ Sends(fires[p].fire)
            /\ fires[p].fire \in R /\ fires[p].at = "dedup" /\ fires'[p].at = "send"
            /\ fires'[p].ev = e /\ fires'[p].fire = fires[p].fire
            /\ fires'[p].file = fires[p].file
        BY <1>1, <1>3, <1>4, <1>9, <2>3, <3>3
      <3>5. /\ e \notin happened[n].marks
            /\ ~(Approval(e) /\ \E x \in happened[n].marks : Approval(x))
            /\ happened'[n].marks = happened[n].marks \cup {e}
            /\ happened'[n].beeps = happened[n].beeps
        BY <1>6, <2>2, <3>2
      <3>6. Kept(n, R)
        BY <2>4
      <3> QED  BY <2>1, <3>4, <3>5, <3>6, KeptMarks
    <2>5. \A q \in Running(n)' : q \in Running(n) /\ fires'[q].fire = fires[q].fire
      BY <1>3, <2>1, <2>3
    <2> QED  BY <1>5, <2>2, <2>4, <2>5, LedgerOn, Zenon
  <1> QED  BY <1>1, <1>8, <1>9, Zenon

LEMMA SendLedger ==
    ASSUME FiresOK, HappenedOK, NEW p \in Procs, Send(p), Stage(fires[p]),
           NEW n, n = fires[p].n, Ledger(n)
    PROVE  Ledger(n)'
  <1>1. /\ fires[p].at = "send" /\ Active(p) /\ OthersStay(p) /\ Rewrites(p)
        /\ \/ /\ fires'[p] = Idle
              /\ Marked(p, Record(p).marks) /\ Cleans(p, Record(p).clean)
              /\ Beeped(p, IF isNotifiableEventType(fires[p].ev.type) THEN Record(p).beeps + 1
                           ELSE Record(p).beeps)
           \/ /\ Soiled(p) /\ Kin(fires'[p], fires[p])
              /\ fires'[p].at = "read" /\ fires'[p].file = "missed"
    BY SendMoves, Zenon
  <1>2. CASE Soiled(p) /\ Kin(fires'[p], fires[p]) /\ fires'[p].at = "read"
    BY <1>1, <1>2, SoiledLedger
  <1>3. CASE /\ fires'[p] = Idle
             /\ Marked(p, Record(p).marks) /\ Cleans(p, Record(p).clean)
             /\ Beeped(p, IF isNotifiableEventType(fires[p].ev.type) THEN Record(p).beeps + 1
                          ELSE Record(p).beeps)
    <2>1. fires[p].ev = Heard(fires[p].fire)
      BY <1>1, AtWork DEF Stage
    <2>2. p \in Running(n)
      BY <1>1, RunningOn
    <2>3. \A R : Kept(n, R) => Covered(fires[p].fire, happened[n].marks)
      BY <1>1, <2>1, <2>2 DEF Kept, Covered
    <2>4. Beeped(p, IF fires[p].at = "send" /\ isNotifiableEventType(fires[p].ev.type)
                    THEN Record(p).beeps + 1 ELSE Record(p).beeps)
      BY <1>1, <1>3
    <2> QED  BY <1>1, <1>3, <2>3, <2>4, EndedLedger, Zenon
  <1> QED  BY <1>1, <1>2, <1>3, Zenon

LEMMA ReceiveLedger ==
    ASSUME FiresOK, HappenedOK, NEW p \in Procs, Receive(p), Stage(fires[p]),
           NEW n, n = fires[p].n, Ledger(n)
    PROVE  /\ Ledger(n)' /\ OthersStay(p) /\ Active(p) /\ (happened' = happened \/ Rewrites(p))
           /\ (fires'[p] = Idle \/ (fires'[p].n = n /\ Stage(fires'[p])))
  <1>1. /\ fires[p].at = "recv" /\ OthersStay(p) /\ Active(p)
        /\ \/ EndsWell(p) /\ (Refused(p) \/ Mapped(p) = Unmapped)
           \/ /\ ~Refused(p) /\ Mapped(p) # Unmapped /\ happened' = happened
              /\ fires'[p].h = Handler(p) /\ fires'[p].ev = Mapped(p)
              /\ fires'[p].at \in {"name", "salt"} /\ fires'[p].file = fires[p].file
              /\ fires'[p].n = fires[p].n /\ fires'[p].fire = fires[p].fire
    BY ReceiveMoves, Zenon
  <1>2. /\ Refused(p) <=> ~Accepted(fires[p].fire)
        /\ Mapped(p) = Heard(fires[p].fire)
    BY DEF Refused, BadArgument, Handler, HandlerOf, Accepted, Mapped, Heard
  <1>3. fires[p].h = None /\ Origin(fires[p])
    BY <1>1, Worker DEF WorkerOK, AtSalt, Pairs, Handles, AtNames, Writing
  <1>4. Handler(p) \in Harnesses
    BY <1>3, Handled DEF Handler
  <1>5. CASE EndsWell(p) /\ (Refused(p) \/ Mapped(p) = Unmapped)
    <2>1. /\ fires'[p] = Idle /\ Rewrites(p)
          /\ Beeped(p, Record(p).beeps) /\ Marked(p, Record(p).marks) /\ Cleans(p, Record(p).clean)
      BY <1>1, <1>5, WellEnds
    <2>2. ~Sends(fires[p].fire)
      BY <1>2, <1>5 DEF Sends
    <2>3. Beeped(p, IF fires[p].at = "send" /\ isNotifiableEventType(fires[p].ev.type)
                    THEN Record(p).beeps + 1 ELSE Record(p).beeps)
      BY <1>1, <2>1
    <2> QED  BY <1>1, <2>1, <2>2, <2>3, EndedLedger, Zenon
  <1>6. CASE /\ ~Refused(p) /\ Mapped(p) # Unmapped /\ happened' = happened
             /\ fires'[p].h = Handler(p) /\ fires'[p].ev = Mapped(p)
             /\ fires'[p].at \in {"name", "salt"} /\ fires'[p].file = fires[p].file
             /\ fires'[p].n = fires[p].n /\ fires'[p].fire = fires[p].fire
    <2>1. fires[p].file = "builds"
      BY <1>3 DEF Stage, None, Harnesses
    <2>2. Stage(fires'[p])
      BY <1>2, <1>4, <1>6, <2>1 DEF Stage
    <2>3. Ledger(n)'
      BY <1>1, <1>4, <1>6, MovedLedger DEF Harnesses
    <2> QED  BY <1>1, <1>6, <2>2, <2>3
  <1> QED  BY <1>1, <1>5, <1>6, Zenon

LEMMA RenameLedger ==
    ASSUME FiresOK, HappenedOK, NEW p \in Procs, RenameFile(p), Stage(fires[p]),
           NEW n, n = fires[p].n, Ledger(n)
    PROVE  /\ Ledger(n)' /\ OthersStay(p) /\ Active(p) /\ (happened' = happened \/ Rewrites(p))
           /\ (fires'[p] = Idle \/ (fires'[p].n = n /\ Stage(fires'[p])))
  <1>1. /\ fires[p].at = "rename" /\ OthersStay(p) /\ Active(p)
        /\ \/ fires[p].file # "builds" /\ EndsWell(p)
           \/ /\ fires[p].file = "builds" /\ happened' = happened /\ Kin(fires'[p], fires[p])
              /\ \/ /\ fires'[p].at = "dedup" /\ fires'[p].file = "builds"
                    /\ shouldSendEventType(fires[p].ev.type)
                 \/ /\ fires'[p].at = "read" /\ fires'[p].file = "filtered"
                    /\ ~shouldSendEventType(fires[p].ev.type)
    BY RenameMoves
  <1>2. fires[p].h \in Harnesses /\ fires[p].file \in Tallies
    BY <1>1, AtWork DEF Writing, WorkerOK
  <1>3. CASE fires[p].file # "builds" /\ EndsWell(p)
    <2>1. /\ fires'[p] = Idle /\ Rewrites(p)
          /\ Beeped(p, Record(p).beeps) /\ Marked(p, Record(p).marks) /\ Cleans(p, Record(p).clean)
      BY <1>1, <1>3, WellEnds
    <2>2. p \in Running(n)
      BY <1>1, RunningOn
    <2>3. ASSUME NEW R, Kept(n, R) PROVE ~Sends(fires[p].fire)
      <3>1. fires[p].file = "filtered"
        BY <1>2, <1>3, <2>2, <2>3 DEF Kept, Tallies
      <3> QED  BY <1>2, <3>1 DEF Stage, Sends
    <2>4. Beeped(p, IF fires[p].at = "send" /\ isNotifiableEventType(fires[p].ev.type)
                    THEN Record(p).beeps + 1 ELSE Record(p).beeps)
      BY <1>1, <2>1
    <2> QED  BY <1>1, <2>1, <2>3, <2>4, EndedLedger, Zenon
  <1>4. CASE /\ fires[p].file = "builds" /\ happened' = happened /\ Kin(fires'[p], fires[p])
             /\ \/ /\ fires'[p].at = "dedup" /\ fires'[p].file = "builds"
                   /\ shouldSendEventType(fires[p].ev.type)
                \/ /\ fires'[p].at = "read" /\ fires'[p].file = "filtered"
                   /\ ~shouldSendEventType(fires[p].ev.type)
    <2>1. /\ fires'[p].n = fires[p].n /\ fires'[p].fire = fires[p].fire
          /\ fires'[p].h = fires[p].h /\ fires'[p].ev = fires[p].ev
          /\ fires'[p].at \in {"dedup", "read"}
          /\ fires'[p].file = fires[p].file \/ fires'[p].file = "filtered"
      BY <1>4 DEF Kin
    <2>2. Stage(fires'[p])
      BY <1>2, <1>4, <2>1 DEF Stage
    <2>3. Ledger(n)'
      BY <1>1, <1>2, <1>4, <2>1, MovedLedger DEF Harnesses
    <2> QED  BY <1>1, <1>4, <2>1, <2>2, <2>3
  <1> QED  BY <1>1, <1>3, <1>4, Zenon

LEMMA KinStage ==
    ASSUME NEW r, NEW s, Kin(s, r), Stage(r),
           s.at \in {"dedup", "send"} => r.at \in {"dedup", "send"},
           s.file = r.file \/ (s.file = "missed" /\ r.h \in Harnesses)
    PROVE  Stage(s)
  BY DEF Kin, Stage

LEMMA StepLedger ==
    ASSUME IInv, LedgerInv, NEW p \in Procs, Step(p)
    PROVE  LedgerInv'
  <1>1. FiresOK /\ HappenedOK
    BY DEF IInv
  <1>2. CASE Aside(p)
    <2>1. OthersStay(p) /\ ~Active(p) /\ ~Active(p)' /\ happened' = happened
      BY <1>2 DEF Aside
    <2>2. \A q \in Procs : Active(q)' => fires'[q] = fires[q] /\ Active(q)
      BY <2>1 DEF OthersStay, Active, At
    <2>3. \A q \in Procs : Active(q)' => Stage(fires'[q])
      BY <2>2 DEF LedgerInv
    <2>4. ASSUME NEW k \in DOMAIN happened' PROVE Ledger(k)'
      BY <2>1, <2>4, OtherLedger DEF LedgerInv
    <2> QED  BY <2>3, <2>4 DEF LedgerInv, Stage
  <1>3. ASSUME ~Aside(p)
        PROVE  \E n : /\ n = fires[p].n /\ Ledger(n)' /\ OthersStay(p) /\ Active(p)
                      /\ (happened' = happened \/ Rewrites(p))
                      /\ (fires'[p] = Idle \/ (fires'[p].n = n /\ Stage(fires'[p])))
    <2>1. Active(p)
      <3>1. Moves(p) => Active(p)
        <4>1. CASE Moves(p) /\ fires[p].h = "pair"
          <5>1. Aside(p)
            BY <4>1 DEF Moves, Aside, Active, Kin
          <5> QED  BY <1>3, <5>1
        <4> QED  BY <4>1 DEF Moves, Active, At, Ledgers
      <3> QED
        BY <1>1, <1>3, <3>1, StepMoves, ReceiveMoves, RenameMoves, DedupMoves, SendMoves, Zenon
    <2>2. PICK n : n = fires[p].n
      OBVIOUS
    <2>3. Stage(fires[p]) /\ Ledger(n)
      BY <1>1, <2>1, <2>2 DEF LedgerInv, HappenedOK
    <2>4. CASE Moves(p)
      <3>1. /\ OthersStay(p) /\ Kin(fires'[p], fires[p]) /\ fires'[p].file = fires[p].file
            /\ happened' = happened /\ fires[p].at \notin {"idle", "dedup", "send"}
            /\ fires'[p].at \notin {"idle", "dedup", "send"}
        BY <2>4 DEF Moves, Ledgers
      <3>2. fires'[p].n = n /\ fires'[p].fire = fires[p].fire /\ fires'[p].h # "pair"
        BY <2>1, <2>2, <3>1 DEF Kin, Active
      <3>3. Stage(fires'[p])
        <4>1. PICK r, s : r = fires[p] /\ s = fires'[p]
          OBVIOUS
        <4> QED  BY <2>3, <3>1, <4>1, KinStage
      <3>4. Ledger(n)'
        BY <2>1, <2>2, <2>3, <3>1, <3>2, MovedLedger
      <3> QED  BY <2>1, <2>2, <3>1, <3>2, <3>3, <3>4
    <2>5. CASE EndsBadly(p)
      <3>1. OthersStay(p) /\ fires'[p] = Idle /\ Rewrites(p) /\ Soiled(p)
        BY <1>1, <2>1, <2>5, BadlyEnds
      <3>2. Ledger(n)'
        BY <2>1, <2>2, <2>3, <3>1, SoiledLedger
      <3> QED  BY <2>1, <2>2, <3>1, <3>2
    <2>6. CASE Receive(p)
      BY <1>1, <2>2, <2>3, <2>6, ReceiveLedger, Zenon
    <2>7. CASE RenameFile(p)
      BY <1>1, <2>2, <2>3, <2>7, RenameLedger, Zenon
    <2>8. CASE Dedup(p)
      <3>1. /\ fires[p].at = "dedup" /\ OthersStay(p) /\ Rewrites(p)
            /\ \/ fires'[p] = Idle
               \/ /\ fires'[p].at = "send" /\ Kin(fires'[p], fires[p])
                  /\ fires'[p].file = fires[p].file
        BY <1>1, <2>8, DedupMoves, Zenon
      <3>2. Ledger(n)'
        BY <1>1, <2>2, <2>3, <2>8, DedupLedger
      <3>3. (fires'[p] = Idle \/ (fires'[p].n = n /\ Stage(fires'[p])))
        <4>1. PICK r, s : r = fires[p] /\ s = fires'[p]
          OBVIOUS
        <4>2. fires'[p] = Idle \/ (s.n = n /\ Stage(s))
          BY <2>2, <2>3, <3>1, <4>1, KinStage DEF Kin
        <4> QED  BY <4>1, <4>2
      <3> QED  BY <2>1, <2>2, <3>1, <3>2, <3>3
    <2>9. CASE Send(p)
      <3>1. /\ fires[p].at = "send" /\ OthersStay(p) /\ Rewrites(p)
            /\ \/ fires'[p] = Idle
               \/ /\ fires'[p].at = "read" /\ Kin(fires'[p], fires[p])
                  /\ fires'[p].file = "missed"
        BY <1>1, <2>9, SendMoves, Zenon
      <3>2. Ledger(n)'
        BY <1>1, <2>2, <2>3, <2>9, SendLedger
      <3>3. fires[p].h \in Harnesses
        BY <1>1, <3>1, AtWork
      <3>4. (fires'[p] = Idle \/ (fires'[p].n = n /\ Stage(fires'[p])))
        <4>1. PICK r, s : r = fires[p] /\ s = fires'[p]
          OBVIOUS
        <4>2. fires'[p] = Idle \/ (s.n = n /\ Stage(s))
          BY <2>2, <2>3, <3>1, <3>3, <4>1, KinStage DEF Kin
        <4> QED  BY <4>1, <4>2
      <3> QED  BY <2>1, <2>2, <3>1, <3>2, <3>4
    <2> QED
      BY <1>1, <1>3, <2>4, <2>5, <2>6, <2>7, <2>8, <2>9, StepMoves, Zenon
  <1>4. CASE ~Aside(p)
    <2>1. PICK n : /\ n = fires[p].n /\ Ledger(n)' /\ OthersStay(p) /\ Active(p)
                   /\ (happened' = happened \/ Rewrites(p))
                   /\ (fires'[p] = Idle \/ (fires'[p].n = n /\ Stage(fires'[p])))
      BY <1>3, <1>4
    <2>2. ASSUME NEW q \in Procs, Active(q)' PROVE Stage(fires'[q])
      <3>1. CASE q = p
        BY <2>1, <2>2, <3>1 DEF Idle, Active, At
      <3>2. CASE q # p
        BY <2>1, <2>2, <3>2 DEF OthersStay, Active, At, LedgerInv
      <3> QED  BY <3>1, <3>2
    <2>3. DOMAIN happened' = DOMAIN happened
      BY <2>1 DEF Rewrites
    <2>4. ASSUME NEW k \in DOMAIN happened', k # n PROVE Ledger(k)'
      <3>1. happened'[k] = happened[k] /\ Ledger(k)
        BY <2>1, <2>3, <2>4 DEF Rewrites, LedgerInv
      <3>2. Active(p)' => fires'[p].n # k
        BY <2>1, <2>4 DEF Active, At, Idle
      <3> QED  BY <2>1, <2>4, <3>1, <3>2, OtherLedger
    <2> QED  BY <2>1, <2>2, <2>4 DEF LedgerInv, Stage
  <1> QED  BY <1>2, <1>4

LEMMA InitLedger == Init => LedgerInv
  <1> SUFFICES ASSUME Init PROVE LedgerInv
    OBVIOUS
  <1>1. happened = <<>> /\ \A p \in Procs : ~Active(p)
    BY DEF Init, Idle, Active, At
  <1> QED  BY <1>1 DEF LedgerInv

LEMMA HappensLedger ==
    ASSUME IInv, LedgerInv, NEW m \in past.scene.moments, NEW i, NEW s, NEW titled,
           Happens(m, i, s, titled)
    PROVE  LedgerInv'
  <1>1. PICK R, n : R = ConfiguredFires(m) /\ n = Len(happened) + 1
    OBVIOUS
  <1>2. PICK slot : Starting(m, s, R, slot)
    BY <1>1, HappensStarts
  <1>3. m \in Moments /\ R \in SUBSET m.fires
    BY <1>1, RecordsAssumption DEF IInv, PastOK, ConfiguredFires
  <1>4. Configured(m, R)
    <2>1. R # {}
      BY <1>1 DEF Happens
    <2> QED  BY <1>1, <2>1 DEF Configured, ConfiguredFires
  <1>5. ASSUME NEW f \in R
        PROVE  /\ slot[f] \in Procs /\ fires[slot[f]].at = "idle"
               /\ Active(slot[f])' /\ fires'[slot[f]].at \in Received
               /\ fires'[slot[f]].n = n /\ fires'[slot[f]].fire = f
    BY <1>1, <1>2 DEF Starting, Injection, Active, At, Received, None
  <1>6. ASSUME NEW p \in Procs
        PROVE  \/ fires'[p] = fires[p]
               \/ /\ \E f \in R : slot[f] = p
                  /\ fires'[p].file = "builds" /\ fires'[p].h \notin Harnesses
    <2>1. CASE \A f \in R : slot[f] # p
      BY <1>2, <2>1 DEF Starting
    <2>2. CASE (\E f \in R : slot[f] = p) /\ fires'[p] # fires[p]
      BY <2>2, HappensFrom DEF None, Harnesses
    <2> QED  BY <2>1, <2>2
  <1>7. \A p \in Procs : Active(p)' => Stage(fires'[p])
    BY <1>6 DEF LedgerInv, Stage, Active, At
  <1>8. PICK r : /\ happened' = Append(happened, r)
                 /\ r = [due |-> BeepsDue(m, R), beeps |-> 0, clean |-> TRUE,
                         left |-> Cardinality(R), marks |-> {}]
    BY <1>1 DEF Happens
  <1>9. r.due = BeepsDue(m, R) /\ r.beeps = 0 /\ r.marks = {}
    BY <1>8
  <1>10. /\ DOMAIN happened' = DOMAIN happened \cup {n} /\ n \notin DOMAIN happened
         /\ happened'[n] = r /\ \A k \in DOMAIN happened : happened'[k] = happened[k]
    <2>1. MomentRecord(r)
      BY <1>3, <1>8, FewCommands DEF MomentRecord
    <2> QED  BY <1>1, <1>8, <2>1, Grown DEF IInv, HappenedOK
  <1>11. Running(n)' = {p \in Procs : \E f \in R : slot[f] = p}
    <2>1. \A p \in Procs : Active(p) => fires[p].n # n
      BY <1>10 DEF IInv, HappenedOK
    <2> QED  BY <1>2, <1>5, <2>1 DEF Running, Starting, Active, At
  <1>12. Kept(n, R)'
    <2>1. \A p \in Running(n)' : fires'[p].file = "builds" /\ fires'[p].at \in Received
      <3>1. ASSUME NEW p \in Running(n)'
            PROVE  fires'[p].file = "builds" /\ fires'[p].at \in Received
        <4>1. PICK f \in R : slot[f] = p
          BY <1>11, <3>1
        <4>2. p \in Procs /\ fires[p].at = "idle" /\ fires'[p].at \in Received
          BY <1>5, <4>1
        <4>3. fires'[p] # fires[p]
          BY <4>2 DEF Received
        <4> QED  BY <1>6, <4>2, <4>3
      <3> QED  BY <3>1
    <2>2. \A p \in Running(n)' : fires'[p].file # "missed" /\ fires'[p].at # "send"
      BY <2>1 DEF Received
    <2>3. Marks({}, R)
      BY FS_EmptySet DEF Marks
    <2>4. \A f \in R : \E p \in Running(n)' : fires'[p].fire = f
      BY <1>5, <1>11
    <2>5. Delivered(n)' = {}
      BY <1>9, <1>10 DEF Delivered
    <2>6. happened'[n].beeps = Cardinality(Delivered(n)')
      BY <1>9, <1>10, <2>5, FS_EmptySet
    <2>7. happened'[n].marks = {}
      BY <1>9, <1>10
    <2> QED  BY <2>2, <2>3, <2>4, <2>6, <2>7 DEF Kept
  <1>13. Ledger(n)'
    <2>1. \A p \in Running(n)' : fires'[p].fire \in R
      BY <1>5, <1>11
    <2>2. happened'[n].due = BeepsDue(m, R)
      BY <1>9, <1>10
    <2> QED  BY <1>3, <1>4, <1>12, <2>1, <2>2, Zenon DEF Ledger
  <1>14. ASSUME NEW k \in DOMAIN happened PROVE Ledger(k)'
    <2>1. Ledger(k) /\ k # n /\ happened'[k] = happened[k]
      BY <1>10, <1>14 DEF LedgerInv
    <2>2. ASSUME NEW p \in Procs
          PROVE  /\ p \in Running(k)' <=> p \in Running(k)
                 /\ p \in Running(k) => fires'[p] = fires[p]
      <3>1. CASE \A f \in R : slot[f] # p
        BY <1>2, <3>1 DEF Starting, Running, Active, At
      <3>2. CASE \E f \in R : slot[f] = p
        BY <1>5, <2>1, <3>2 DEF Running, Active, At
      <3> QED  BY <3>1, <3>2
    <2>3. Running(k)' = Running(k) /\ \A p \in Running(k) : fires'[p] = fires[p]
      BY <2>2 DEF Running
    <2>4. ASSUME NEW X, Kept(k, X) PROVE Kept(k, X)'
      <3>1. \A q \in Running(k) : fires'[q].file # "missed"
        BY <2>3, <2>4 DEF Kept
      <3> QED  BY <2>1, <2>3, <2>4, <3>1, KeptMoves
    <2> QED  BY <2>1, <2>3, <2>4, LedgerOn
  <1> QED  BY <1>7, <1>10, <1>13, <1>14 DEF LedgerInv, Stage

LEMMA NextLedger == IInv /\ LedgerInv /\ [Next]_vars => LedgerInv'
  <1> SUFFICES ASSUME IInv, LedgerInv, [Next]_vars PROVE LedgerInv'
    OBVIOUS
  <1>1. CASE \E p \in Procs : Step(p)
    BY <1>1, StepLedger
  <1>2. CASE \E m \in past.scene.moments : \E i, s, titled : Happens(m, i, s, titled)
    BY <1>2, HappensLedger
  <1>3. CASE fires' = fires /\ happened' = happened
    <2>1. \A n \in DOMAIN happened : Ledger(n)'
      <3>1. ASSUME NEW n, Ledger(n) PROVE Ledger(n)'
        <4>1. Running(n)' = Running(n)
          BY <1>3 DEF Running, Active, At
        <4>2. ASSUME NEW R, Kept(n, R) PROVE Kept(n, R)'
          <5>1. \A q \in Running(n) : fires[q].file # "missed"
            BY <4>2 DEF Kept
          <5> QED  BY <1>3, <4>1, <4>2, <5>1, KeptMoves
        <4> QED  BY <1>3, <3>1, <4>1, <4>2, LedgerOn
      <3> QED  BY <3>1 DEF LedgerInv
    <2> QED  BY <1>3, <2>1 DEF LedgerInv, Stage, Active, At
  <1> QED  BY <1>1, <1>2, <1>3 DEF Next, Upgrade, Logout, vars

LEMMA LedgerHolds == Spec => []LedgerInv
  BY Invariant, InitLedger, NextLedger, PTL DEF Spec

\* What a moment without a process left has marked is what it owes.
LEMMA BeepsOwed ==
    ASSUME NEW m, BeepsRight(m), NEW R \in SUBSET m.fires, Configured(m, R),
           NEW marks, Marks(marks, R), \A f \in R : Sends(f) => Covered(f, marks),
           NEW D, D = {e \in marks : isNotifiableEventType(e.type)}
    PROVE  Cardinality(D) = BeepsDue(m, R)
  <1>1. R # {} /\ \A f \in R : \A g \in m.fires : g.cmd = f.cmd => g \in R
    BY DEF Configured
  <1>2. ASSUME NEW e \in D PROVE \E f \in R : Beeping(f) /\ e = Heard(f)
    BY <1>2 DEF Marks, Beeping
  <1>3. \A x : Approval(x) => isNotifiableEventType(x.type)
    BY DEF Approval, isNotifiableEventType, Notified
  <1>4. CASE ~WantsUser(m)
    <2>1. D = {}
      BY <1>2, <1>4 DEF BeepsRight
    <2> QED  BY <1>4, <2>1, FS_EmptySet DEF BeepsDue
  <1>5. CASE WantsUser(m) /\ ~Twice(m)
    <2>1. PICK f \in R : TRUE
      BY <1>1
    <2>2. PICK g \in m.fires : g.cmd = f.cmd /\ Beeping(g)
      BY <1>5, <2>1 DEF BeepsRight
    <2>3. g \in R /\ Sends(g) /\ isNotifiableEventType(Heard(g).type)
      BY <1>1, <2>1, <2>2 DEF Beeping
    <2>4. Covered(g, marks)
      BY <2>3
    <2>5. PICK e : e \in D
      BY <1>3, <2>3, <2>4 DEF Covered
    <2>6. ASSUME NEW x \in D PROVE x = e
      <3>1. PICK a \in R : Beeping(a) /\ x = Heard(a)
        BY <1>2, <2>6
      <3>2. PICK b \in R : Beeping(b) /\ e = Heard(b)
        BY <1>2, <2>5
      <3>3. Heard(a) = Heard(b) \/ (Approval(Heard(a)) /\ Approval(Heard(b)))
        BY <1>5, <3>1, <3>2 DEF BeepsRight
      <3> QED  BY <2>5, <2>6, <3>1, <3>2, <3>3 DEF Marks
    <2>7. D = {e}
      BY <2>5, <2>6
    <2> QED  BY <1>1, <1>5, <2>7, FS_Singleton DEF BeepsDue, Twice
  <1>6. CASE WantsUser(m) /\ Twice(m)
    <2>1. PICK f, g : m.fires = {f, g} /\ Heard(f) # Heard(g)
      BY <1>6 DEF BeepsRight
    <2>2. \A a, b \in m.fires : a.cmd = b.cmd /\ Beeping(a) /\ ~Approval(Heard(a))
      BY <1>6 DEF BeepsRight
    <2>3. R = {f, g}
      BY <1>1, <2>1, <2>2
    <2>4. \A a \in R : Heard(a) \in D
      BY <2>1, <2>2, <2>3 DEF Covered, Beeping
    <2>5. D = {Heard(f)} \cup {Heard(g)}
      BY <1>2, <2>3, <2>4
    <2>6. IsFiniteSet({Heard(f)}) /\ Cardinality({Heard(f)}) = 1
      BY FS_Singleton
    <2>7. Cardinality({Heard(f)} \cup {Heard(g)}) = 2
      BY <2>1, <2>6, FS_AddElement
    <2> QED  BY <1>1, <1>6, <2>5, <2>7 DEF BeepsDue, Twice
  <1> QED  BY <1>4, <1>5, <1>6

\* A moment that wants the user beeps once, whichever of the harnesses' commands fire
\* for it in whatever order, and no other moment beeps, if every process ran to its
\* end, none lacked a pairing and none met another at the ledger.
THEOREM BeepsOnce == Spec => []OneBeepPerMoment
  <1>1. IInv /\ LedgerInv => OneBeepPerMoment
    <2> SUFFICES ASSUME IInv, LedgerInv, NEW n \in DOMAIN happened, happened[n].left = 0,
                        happened[n].clean
                 PROVE  happened[n].beeps = happened[n].due
      BY DEF OneBeepPerMoment
    <2>1. Running(n) = {}
      BY FS_EmptySet DEF IInv, MomentInv
    <2>2. PICK m \in Moments : \E R \in SUBSET m.fires :
            /\ Configured(m, R) /\ happened[n].due = BeepsDue(m, R) /\ Kept(n, R)
      BY Zenon DEF LedgerInv, Ledger
    <2>3. PICK R \in SUBSET m.fires :
            /\ Configured(m, R) /\ happened[n].due = BeepsDue(m, R) /\ Kept(n, R)
      BY <2>2
    <2>4. PICK marks : marks = happened[n].marks
      OBVIOUS
    <2>5. PICK D : D = {e \in marks : isNotifiableEventType(e.type)}
      OBVIOUS
    <2>6. Delivered(n) = D
      BY <2>1, <2>4, <2>5 DEF Delivered
    <2>7. Marks(marks, R) /\ \A f \in R : Sends(f) => Covered(f, marks)
      BY <2>1, <2>3, <2>4 DEF Kept
    <2>8. Cardinality(D) = BeepsDue(m, R)
      BY <2>3, <2>5, <2>7, AllBeeps, BeepsOwed
    <2> QED  BY <2>3, <2>6, <2>8 DEF Kept
  <1> QED  BY <1>1, Invariant, LedgerHolds, PTL
=============================================================================
