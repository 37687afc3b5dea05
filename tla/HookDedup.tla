------------------------------ MODULE HookDedup ------------------------------
(***************************************************************************)
(* The filter and the dedup ledger in front of the sender: runAgentHook    *)
(* (hook.ts) over RecentEventLedger (dedup.ts).  Every fire is a process   *)
(* of its own; they share recent-events.json, which each rewrites through  *)
(* one common recent-events.json.tmp.  The write of the .tmp is not atomic *)
(* either: beside another update it can be published half-done, which      *)
(* reads as an empty ledger.                                               *)
(***************************************************************************)
EXTENDS Naturals, FiniteSets

CONSTANTS
    Fires,           \* hook fires with a mappable payload
    Sessions,        \* pairs of a harness and a source_session_id
    Types,           \* event types, "approval" (approval_required) among them
    LocalOnly,       \* LOCAL_ONLY_EVENT_TYPES
    Bodies,          \* digests of title and body
    Window,          \* DEFAULT_DEDUP_WINDOW_MS
    CollapseWindow,  \* APPROVAL_COLLAPSE_WINDOW_MS
    MaxTime          \* bound: last value of the clock

ASSUME TypesAssumption == LocalOnly \subseteq Types
ASSUME BodiesAssumption == "any" \notin Bodies
ASSUME WindowsAssumption ==
    {Window, CollapseWindow, MaxTime} \subseteq Nat /\ CollapseWindow <= Window

VARIABLES
    now,        \* the shared wall clock
    ledger,     \* what #read makes of recent-events.json
    tmp,        \* {} without a recent-events.json.tmp, else the set of its content
    fire,       \* the state of each fire, see FireState
    disturbed   \* some update of the ledger failed or began during another check

vars == <<now, ledger, tmp, fire, disturbed>>

Time == 0 .. MaxTime
Never == MaxTime + 1
Beeps == [session: Sessions, type: Types, body: Bodies]
Checks == {"content", "approval"}

eventIdentity(b) == <<b.session, b.type, b.body>>

approvalCollapseIdentity(b) == <<b.session, "approval", "any">>

Identity(b, check) ==
    IF check = "content" THEN eventIdentity(b) ELSE approvalCollapseIdentity(b)

Ids == {Identity(b, c) : b \in Beeps, c \in Checks}
Entries == [id: Ids, ts: Time]

Labels == {"check", "read", "write", "rename", "done"}
Outcomes == {"none", "filtered", "deduped", "sent"}

\* clock is what a check read of the clock before it read the ledger, at[c] what the
\* clock said to check c once that was made, dup whether any said duplicate.
FireState == [pc: Labels, beep: Beeps, check: Checks, clock: Time \cup {Never},
              draft: SUBSET Entries, at: [Checks -> Time \cup {Never}], dup: BOOLEAN,
              outcome: Outcomes]

At(f, label) == fire[f].pc = label

Init ==
    /\ now = 0
    /\ ledger = {}
    /\ tmp = {}
    /\ fire \in [Fires -> {[pc |-> "check", beep |-> b, check |-> "content",
                            clock |-> Never, draft |-> {}, at |-> [c \in Checks |-> Never],
                            dup |-> FALSE, outcome |-> "none"] :
                                b \in Beeps}]
    /\ disturbed = FALSE

files == <<ledger, tmp>>

-----------------------------------------------------------------------------
(* runAgentHook                                                            *)

\* A type the backend can never push is tallied and goes no further.
Filter(f) ==
    /\ At(f, "check") /\ fire[f].beep.type \in LocalOnly
    /\ fire' = [fire EXCEPT ![f].pc = "done", ![f].outcome = "filtered"]
    /\ UNCHANGED <<now, files, disturbed>>

Outcome(isDup) == IF isDup THEN "deduped" ELSE "sent"

\* A check of r is answered.  The approval check follows the content check of an
\* approval, whatever that one said; then the fire is suppressed or sent, and
\* whatever becomes of the send, the marks are not taken back.
Answered(r, isDup) ==
    IF r.check = "content" /\ r.beep.type = "approval"
    THEN [r EXCEPT !.pc = "check", !.check = "approval", !.dup = isDup, !.draft = {}]
    ELSE [r EXCEPT !.pc = "done", !.check = "content", !.dup = FALSE, !.draft = {},
                   !.outcome = Outcome(r.dup \/ isDup)]

-----------------------------------------------------------------------------
(* RecentEventLedger.markAndCheck                                          *)

Older(a, b) == IF a <= b THEN a ELSE b

WindowOf(check) == IF check = "content" THEN Window ELSE Older(CollapseWindow, Window)

\* Mutated form: pruning uses the window of the check at hand.
FreshForCheck(S, check, time) == {n \in S : n.ts + WindowOf(check) >= time}

\* Pruning always uses the ledger's own window, the widest one.
Fresh(S, check, time) == {n \in S : n.ts + Window >= time}

\* Mutated form: every entry left after pruning makes a duplicate.
DupInLedger(S, id, check, time) == \E n \in S : n.id = id

\* An entry of a later clock than the check's counts like any other.
Dup(S, id, check, time) == \E n \in S : n.id = id /\ n.ts + WindowOf(check) >= time

\* Mutated form: the entry carries the time it expires at.
MarkUntil(id, time) == [id |-> id, ts |-> time + Window]

Mark(id, time) == [id |-> id, ts |-> time]

Writing(f) == fire[f].pc \in {"write", "rename"}
Checking(f) == At(f, "read") \/ Writing(f)

\* The clock is read first: the ledger may be another by the time it is.
ReadClock(f) ==
    /\ At(f, "check") /\ fire[f].beep.type \notin LocalOnly
    /\ fire' = [fire EXCEPT ![f].pc = "read", ![f].clock = now]
    /\ UNCHANGED <<now, files, disturbed>>

ReadLedger(f) ==
    /\ At(f, "read")
    /\ LET time  == fire[f].clock
           r     == [fire[f] EXCEPT !.at[fire[f].check] = time, !.clock = Never]
           id    == Identity(r.beep, r.check)
           fresh == Fresh(ledger, r.check, time)
       IN  IF Dup(fresh, id, r.check, time)
           THEN /\ fire' = [fire EXCEPT ![f] = Answered(r, TRUE)]
                /\ UNCHANGED disturbed
           ELSE /\ fire' = [fire EXCEPT ![f] =
                        [r EXCEPT !.pc = "write", !.draft = fresh \cup {Mark(id, time)}]]
                /\ disturbed' = (disturbed \/ \E g \in Fires \ {f} : Checking(g))
    /\ UNCHANGED <<now, files>>

Beside(f) == {g \in Fires \ {f} : Writing(g)}

\* writeFileSync truncates and then writes: over what another process wrote in
\* between, the tail of the longer text stays and nothing parses.
WriteTmp(f) ==
    /\ At(f, "write")
    /\ \/ tmp' = {fire[f].draft}
       \/ Beside(f) # {} /\ tmp' = {{}}
    /\ fire' = [fire EXCEPT ![f].pc = "rename", ![f].draft = {}]
    /\ UNCHANGED <<now, ledger, disturbed>>

\* The rename fails when another process renamed the common .tmp first, and
\* publishes an empty file when another process has just truncated it.
RenameTmp(f) ==
    /\ At(f, "rename")
    /\ \/ tmp = {} /\ ledger' = ledger
       \/ ledger' \in tmp
       \/ tmp # {} /\ ledger' = {} /\ \E g \in Beside(f) : At(g, "write")
    /\ tmp' = {}
    /\ fire' = [fire EXCEPT ![f] = Answered(fire[f], FALSE)]
    /\ UNCHANGED <<now, disturbed>>

\* Fail open: an I/O error in the update allows the send.
LedgerFails(f) ==
    /\ Writing(f)
    /\ fire' = [fire EXCEPT ![f] = Answered(fire[f], FALSE)]
    /\ disturbed' = TRUE
    /\ UNCHANGED <<now, files>>

-----------------------------------------------------------------------------
(* The environment.  A hook its harness kills takes no further step: no    *)
(* fairness is assumed.                                                    *)

Tick ==
    /\ now < MaxTime
    /\ now' = now + 1
    /\ UNCHANGED <<files, fire, disturbed>>

Next ==
    \/ \E f \in Fires :
        \/ Filter(f) \/ ReadClock(f) \/ ReadLedger(f)
        \/ WriteTmp(f) \/ RenameTmp(f) \/ LedgerFails(f)
    \/ Tick

Spec == Init /\ [][Next]_vars

-----------------------------------------------------------------------------
(* Properties.                                                             *)

\* Type invariant of the hook's state.
TypeOK ==
    /\ now \in Time
    /\ ledger \subseteq Entries
    /\ tmp \subseteq SUBSET Entries /\ Cardinality(tmp) <= 1
    /\ fire \in [Fires -> FireState]
    /\ \A f \in Fires : At(f, "read") => fire[f].clock # Never
    /\ disturbed \in BOOLEAN

\* g is a twin of f by check c: the two have the same identity there, and f made that
\* check at most the window after g did.
TwinOf(f, g, c) ==
    /\ g # f /\ Never \notin {fire[f].at[c], fire[g].at[c]}
    /\ c = "approval" => "approval" \in {fire[f].beep.type} \cap {fire[g].beep.type}
    /\ c = "approval" => fire[f].beep.session = fire[g].beep.session
    /\ c = "content" => fire[f].beep = fire[g].beep
    /\ fire[f].at[c] <= fire[g].at[c] + (IF c = "content" THEN Window ELSE CollapseWindow)

Reported(f, outcome) == At(f, "done") /\ fire[f].outcome = outcome

\* A beep is suppressed, or about to be, only for a twin that has made its check:
\* "identical repeats collapse; DIFFERENT notifications of the same type both beep",
\* whatever the interleaving of the ledger updates, torn files and failures.
SuppressedOnlyForATwin ==
    \A f \in Fires : fire[f].dup \/ Reported(f, "deduped") =>
        \E g \in Fires \ {f}, c \in Checks : TwinOf(f, g, c)

\* As long as no update of the ledger failed or began while another check was under
\* way, no two beeps within the window of each other are both sent ("no double-beep").
DoubleBeepNeedsDisturbance ==
    ~disturbed =>
        \A f, g \in Fires :
            Reported(f, "sent") /\ Reported(g, "sent") =>
                \A c \in Checks : ~(TwinOf(f, g, c) /\ TwinOf(g, f, c))

\* A suppressed beep has a twin that was sent or still can be: "same beep already
\* sent", and the races of the ledger are "annoying, not lossy".
DedupedMeansSent ==
    \A f \in Fires : Reported(f, "deduped") =>
        \E g \in Fires \ {f}, c \in Checks :
            TwinOf(f, g, c) /\ (Reported(g, "sent") \/ ~At(g, "done"))

=============================================================================
