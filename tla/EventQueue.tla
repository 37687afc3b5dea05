----------------------------- MODULE EventQueue -----------------------------
(***************************************************************************)
(* The on-disk retry queue of agent-core (queue.ts), at the grain of its   *)
(* file-system calls.  There is no daemon: every hook invocation and every *)
(* CLI command is a process of its own, and all of them share one          *)
(* directory.  `dir' is the set of names in that directory; every action   *)
(* below is one file-system call of one process (readdir, read, write,     *)
(* rename, rm), so that the calls of several processes interleave.         *)
(***************************************************************************)
EXTENDS Naturals, FiniteSets

CONSTANTS
    Procs,          \* processes that share the queue directory
    Events,         \* events; each is enqueued at most once (randomUUID)
    NoProc,         \* placeholder for the absent claimant of a name
    NoEvent,        \* placeholder for the event of a null name
    Ops,            \* the queue operations the processes call
    MaxEntries,     \* #maxEntries
    Retention,      \* QUEUE_RETENTION_MS
    ClaimReclaim,   \* CLAIM_RECLAIM_MS
    SendBudget,     \* the sender's time budget for one delivery attempt
    DrainMax,       \* DEFAULT_DRAIN_MAX
    MaxTime,        \* bound: last value of the clock
    MaxFaults,      \* bound: crashes and lost answers in one behaviour
    MaxCount        \* bound: the overflow count stops growing here

ASSUME NoProcAssumption  == NoProc \notin Procs
ASSUME NoEventAssumption == NoEvent \notin Events
ASSUME NumbersAssumption ==
    /\ MaxEntries \in Nat
    /\ Retention \in Nat
    /\ ClaimReclaim \in Nat
    /\ SendBudget \in Nat
    /\ DrainMax \in Nat
    /\ MaxTime \in Nat
    /\ MaxFaults \in Nat
    /\ MaxCount \in Nat
\* queue.ts relies on it: a claim is reclaimed at an age far above the send budget.
ASSUME BudgetAssumption == SendBudget < ClaimReclaim

VARIABLES
    now,       \* the shared wall clock
    dir,       \* the set of names in the queue directory
    overflow,  \* the number in overflow.count (0 when the file is absent)
    used,      \* events whose enqueue has started
    proc,      \* proc[p]: what process p is doing, see ProcState
    accepted,  \* accepted[e]: how often the backend accepted e
    doubt,     \* doubt[e]: how often the answer to an accepted e was lost
    faults     \* crashes and lost answers so far

vars == <<now, dir, overflow, used, proc, accepted, doubt, faults>>

-----------------------------------------------------------------------------
(* Names.  `at' is the <enqueuedAt> prefix.  A claim carries its claim     *)
(* time and a random id; the claimant stands for the id.                   *)

Time == 0 .. MaxTime

Names == [ev: Events, at: Time, kind: {"tmp", "json", "claim"},
          since: Time, by: Procs \cup {NoProc}]

NoName == [ev |-> NoEvent, at |-> 0, kind |-> "none", since |-> 0, by |-> NoProc]

TmpName(e, t) == [ev |-> e, at |-> t, kind |-> "tmp", since |-> 0, by |-> NoProc]

JsonName(n) == [ev |-> n.ev, at |-> n.at, kind |-> "json", since |-> 0, by |-> NoProc]

\* Mutated form: the claim carries the time it may be reclaimed at.
ClaimStampedWithExpiry(n, p, t) ==
    [ev |-> n.ev, at |-> n.at, kind |-> "claim", since |-> t + ClaimReclaim, by |-> p]

ClaimName(n, p, t) == [ev |-> n.ev, at |-> n.at, kind |-> "claim", since |-> t, by |-> p]

Entries == {n \in dir : n.kind = "json"}
Claims  == {n \in dir : n.kind = "claim"}

\* Mutated form: the old name stays.
Copied(a, b) == dir \cup {b}

\* rename(a, b) for a name a that is in the directory
Renamed(a, b) == (dir \ {a}) \cup {b}

Expired(n, t) == n.at + Retention < t

\* a claim whose drainer must be dead (the cutoff of #reclaimOrphanedClaims)
Orphaned(n) == n.kind = "claim" /\ n.since + ClaimReclaim <= now

IsOldest(n, S) == \A m \in S : n.at <= m.at

\* the ways to take the k oldest names of S (ties are ordered by random id)
OldestOf(S, k) ==
    {V \in SUBSET S : /\ Cardinality(V) = k
                      /\ \A v \in V, r \in S \ V : v.at <= r.at}

-----------------------------------------------------------------------------
(* The local state of a process: the operation it runs and its locals.     *)
(*   "idle"     between operations                                         *)
(*   "publish"  enqueue wrote the .tmp `cur', will rename it               *)
(*   "cap"      before the readdir of #enforceCap                          *)
(*   "capRm"    removing the victims in `todo'                             *)
(*   "count"    wrote back nothing yet; `tally' is the new overflow count  *)
(*   "reclaim"  #reclaimOrphanedClaims over the names in `todo'            *)
(*   "read"     #readFresh over `todo', `fresh' holds what it kept         *)
(*   "unlink"   #readFresh is about to rm `cur'                            *)
(*   "drain"    the loop of drain over `todo'                              *)
(*   "send"     holds the claim `cur', awaits send                         *)
(*   "release"  send said retry;  "remove"  it said delivered or drop      *)
(*   "sweep"    clear or discardBefore removing the names in `todo'        *)

Labels == {"idle", "publish", "cap", "capRm", "count", "reclaim", "read",
           "unlink", "drain", "send", "release", "remove", "sweep"}

AllOps == {"enqueue", "drain", "prune", "size", "discard", "clear"}

ProcState == [pc: Labels, op: AllOps \cup {"none"}, todo: SUBSET Names,
              fresh: SUBSET Names, cur: Names \cup {NoName},
              mark: Time, tally: Nat]

Idle == [pc |-> "idle", op |-> "none", todo |-> {}, fresh |-> {},
         cur |-> NoName, mark |-> 0, tally |-> 0]

Holding == {"send", "release", "remove"}

At(p, label) == proc[p].pc = label

Init ==
    /\ now = 0
    /\ dir = {}
    /\ overflow = 0
    /\ used = {}
    /\ proc = [p \in Procs |-> Idle]
    /\ accepted = [e \in Events |-> 0]
    /\ doubt = [e \in Events |-> 0]
    /\ faults = 0

ghosts == <<accepted, doubt, faults>>

-----------------------------------------------------------------------------
(* enqueue: write the .tmp, rename it to .json, then apply the cap.        *)

WriteTmp(p, e) ==
    /\ At(p, "idle") /\ "enqueue" \in Ops
    /\ e \notin used
    /\ used' = used \cup {e}
    /\ dir' = dir \cup {TmpName(e, now)}
    /\ proc' = [proc EXCEPT ![p] =
                    [Idle EXCEPT !.pc = "publish", !.op = "enqueue", !.cur = TmpName(e, now)]]
    /\ UNCHANGED <<now, overflow, ghosts>>

\* The rename throws when clear or discardBefore removed the .tmp meanwhile:
\* enqueue then returns false without applying the cap.
PublishTmp(p) ==
    /\ At(p, "publish")
    /\ IF proc[p].cur \in dir
       THEN /\ dir' = Renamed(proc[p].cur, JsonName(proc[p].cur))
            /\ proc' = [proc EXCEPT ![p] = [Idle EXCEPT !.pc = "cap", !.op = "enqueue"]]
       ELSE /\ dir' = dir
            /\ proc' = [proc EXCEPT ![p] = Idle]
    /\ UNCHANGED <<now, overflow, used, ghosts>>

-----------------------------------------------------------------------------
(* #enforceCap, the tail of enqueue and of prune.                          *)

Victims(S) == OldestOf(S, Cardinality(S) - MaxEntries)

ListForCap(p) ==
    /\ At(p, "cap")
    /\ IF Cardinality(Entries) <= MaxEntries
       THEN proc' = [proc EXCEPT ![p] = Idle]
       ELSE \E V \in Victims(Entries) :
                proc' = [proc EXCEPT ![p].pc = "capRm", ![p].todo = V,
                                     ![p].tally = Cardinality(V)]
    /\ UNCHANGED <<now, dir, overflow, used, ghosts>>

\* rm with force succeeds, and counts, when the name is gone already
RemoveVictim(p) ==
    /\ At(p, "capRm")
    /\ \E n \in proc[p].todo :
        /\ IsOldest(n, proc[p].todo)
        /\ dir' = dir \ {n}
        /\ proc' = [proc EXCEPT ![p].todo = @ \ {n}]
    /\ UNCHANGED <<now, overflow, used, ghosts>>

ReadOverflow(p) ==
    /\ At(p, "capRm") /\ proc[p].todo = {}
    /\ proc' = [proc EXCEPT ![p].pc = "count",
                            ![p].tally = IF overflow + @ <= MaxCount THEN overflow + @
                                         ELSE MaxCount]
    /\ UNCHANGED <<now, dir, overflow, used, ghosts>>

WriteOverflow(p) ==
    /\ At(p, "count")
    /\ overflow' = proc[p].tally
    /\ proc' = [proc EXCEPT ![p] = Idle]
    /\ UNCHANGED <<now, dir, used, ghosts>>

-----------------------------------------------------------------------------
(* #readFresh, the head of drain, prune and size.                          *)

ReadOps == {"drain", "prune", "size"}

\* Mutated form: no claim is ever returned to the queue.
ReclaimNothing(p, op) ==
    /\ At(p, "idle") /\ op \in Ops \cap ReadOps
    /\ proc' = [proc EXCEPT ![p] =
                    [Idle EXCEPT !.pc = "reclaim", !.op = op, !.mark = now]]
    /\ UNCHANGED <<now, dir, overflow, used, ghosts>>

\* `mark' is the instant the retention cutoff is computed from.
StartRead(p, op) ==
    /\ At(p, "idle") /\ op \in Ops \cap ReadOps
    /\ proc' = [proc EXCEPT ![p] =
                    [Idle EXCEPT !.pc = "reclaim", !.op = op, !.mark = now,
                                 !.todo = {n \in dir : Orphaned(n)}]]
    /\ UNCHANGED <<now, dir, overflow, used, ghosts>>

\* The rename of a name another process reclaimed first fails and is ignored.
Reclaim(p) ==
    /\ At(p, "reclaim")
    /\ \E n \in proc[p].todo :
        /\ dir' = IF n \in dir THEN Renamed(n, JsonName(n)) ELSE dir
        /\ proc' = [proc EXCEPT ![p].todo = @ \ {n}]
    /\ UNCHANGED <<now, overflow, used, ghosts>>

Relist(p) ==
    /\ At(p, "reclaim") /\ proc[p].todo = {}
    /\ proc' = [proc EXCEPT ![p].pc = "read", ![p].todo = Entries]
    /\ UNCHANGED <<now, dir, overflow, used, ghosts>>

\* Mutated form: a file that cannot be read is skipped, and so is an expired one.
ReadKeepsExpired(p) ==
    /\ At(p, "read")
    /\ \E n \in proc[p].todo :
        proc' = [proc EXCEPT ![p].todo = @ \ {n}, ![p].fresh = @ \cup ({n} \cap dir)]
    /\ UNCHANGED <<now, dir, overflow, used, ghosts>>

\* An expired entry, and one whose read throws because another process
\* renamed or removed it, goes on to an rm; every other one is fresh.
ReadEntry(p) ==
    /\ At(p, "read")
    /\ \E n \in proc[p].todo :
        IF n \in dir /\ ~Expired(n, proc[p].mark)
        THEN proc' = [proc EXCEPT ![p].todo = @ \ {n}, ![p].fresh = @ \cup {n}]
        ELSE proc' = [proc EXCEPT ![p].todo = @ \ {n}, ![p].pc = "unlink", ![p].cur = n]
    /\ UNCHANGED <<now, dir, overflow, used, ghosts>>

Unlink(p) ==
    /\ At(p, "unlink")
    /\ dir' = dir \ {proc[p].cur}
    /\ proc' = [proc EXCEPT ![p].pc = "read", ![p].cur = NoName]
    /\ UNCHANGED <<now, overflow, used, ghosts>>

\* What follows #readFresh: size returns, prune applies the cap, drain goes
\* over the oldest DrainMax fresh entries.
EndRead(p) ==
    /\ At(p, "read") /\ proc[p].todo = {}
    /\ LET fresh == proc[p].fresh
           batch == IF Cardinality(fresh) <= DrainMax THEN Cardinality(fresh) ELSE DrainMax
       IN  \/ /\ proc[p].op = "size"
              /\ proc' = [proc EXCEPT ![p] = Idle]
           \/ /\ proc[p].op = "prune"
              /\ proc' = [proc EXCEPT ![p] = [Idle EXCEPT !.pc = "cap", !.op = "prune"]]
           \/ /\ proc[p].op = "drain"
              /\ \E V \in OldestOf(fresh, batch) :
                    proc' = [proc EXCEPT ![p].pc = "drain", ![p].todo = V, ![p].fresh = {}]
    /\ UNCHANGED <<now, dir, overflow, used, ghosts>>

-----------------------------------------------------------------------------
(* The loop of drain.                                                      *)

\* Mutated form: the entry is sent without the claiming rename having won.
ClaimWithoutOwning(p) ==
    /\ At(p, "drain")
    /\ \E n \in proc[p].todo :
        LET claim == ClaimName(n, p, now) IN
        /\ IsOldest(n, proc[p].todo)
        /\ dir' = IF n \in dir THEN Renamed(n, claim) ELSE dir
        /\ proc' = [proc EXCEPT ![p].todo = @ \ {n}, ![p].pc = "send", ![p].cur = claim]
    /\ UNCHANGED <<now, overflow, used, ghosts>>

\* The loser of the claiming rename skips the entry.
Claim(p) ==
    /\ At(p, "drain")
    /\ \E n \in proc[p].todo :
        LET claim == ClaimName(n, p, now) IN
        /\ IsOldest(n, proc[p].todo)
        /\ IF n \in dir
           THEN /\ dir' = Renamed(n, claim)
                /\ proc' = [proc EXCEPT ![p].todo = @ \ {n}, ![p].pc = "send",
                                        ![p].cur = claim]
           ELSE /\ dir' = dir
                /\ proc' = [proc EXCEPT ![p].todo = @ \ {n}]
    /\ UNCHANGED <<now, overflow, used, ghosts>>

\* The list is done, or stopWhen says that the hook's time is spent: once true
\* it stays true, and the entries not reached stay queued.
EndDrain(p) ==
    /\ At(p, "drain")
    /\ proc' = [proc EXCEPT ![p] = Idle]
    /\ UNCHANGED <<now, dir, overflow, used, ghosts>>

\* send returns: the backend took the event and said so, took it but the answer
\* was lost (a timeout: the sender says retry), or did not take it.
SendTaken(p) ==
    /\ At(p, "send")
    /\ accepted' = [accepted EXCEPT ![proc[p].cur.ev] = @ + 1]
    /\ proc' = [proc EXCEPT ![p].pc = "remove"]
    /\ UNCHANGED <<now, dir, overflow, used, doubt, faults>>

SendAnswerLost(p) ==
    /\ At(p, "send") /\ faults < MaxFaults
    /\ accepted' = [accepted EXCEPT ![proc[p].cur.ev] = @ + 1]
    /\ doubt' = [doubt EXCEPT ![proc[p].cur.ev] = @ + 1]
    /\ faults' = faults + 1
    /\ proc' = [proc EXCEPT ![p].pc = "release"]
    /\ UNCHANGED <<now, dir, overflow, used>>

SendRefused(p) ==
    /\ At(p, "send")
    /\ \E verdict \in {"release", "remove"} :
        proc' = [proc EXCEPT ![p].pc = verdict]
    /\ UNCHANGED <<now, dir, overflow, used, ghosts>>

\* Mutated form: the event is written back, whatever became of the claim.
ReleaseRewrites(p) ==
    /\ At(p, "release")
    /\ dir' = Renamed(proc[p].cur, JsonName(proc[p].cur))
    /\ proc' = [proc EXCEPT ![p].pc = "drain", ![p].cur = NoName]
    /\ UNCHANGED <<now, overflow, used, ghosts>>

\* retry: the claim is renamed back (a failing rename is ignored)
Release(p) ==
    /\ At(p, "release")
    /\ dir' = IF proc[p].cur \in dir
              THEN Renamed(proc[p].cur, JsonName(proc[p].cur))
              ELSE dir
    /\ proc' = [proc EXCEPT ![p].pc = "drain", ![p].cur = NoName]
    /\ UNCHANGED <<now, overflow, used, ghosts>>

\* Mutated form: a delivered event is put back like a retry.
RemoveKeepsFile(p) ==
    /\ At(p, "remove")
    /\ dir' = IF proc[p].cur \in dir
              THEN Renamed(proc[p].cur, JsonName(proc[p].cur))
              ELSE dir
    /\ proc' = [proc EXCEPT ![p].pc = "drain", ![p].cur = NoName]
    /\ UNCHANGED <<now, overflow, used, ghosts>>

\* delivered or drop: the claim is removed
Remove(p) ==
    /\ At(p, "remove")
    /\ dir' = dir \ {proc[p].cur}
    /\ proc' = [proc EXCEPT ![p].pc = "drain", ![p].cur = NoName]
    /\ UNCHANGED <<now, overflow, used, ghosts>>

-----------------------------------------------------------------------------
(* discardBefore (called by pair with the current time) and clear.         *)

StartDiscard(p) ==
    /\ At(p, "idle") /\ "discard" \in Ops
    /\ proc' = [proc EXCEPT ![p] = [Idle EXCEPT !.pc = "sweep", !.op = "discard",
                                                !.todo = {n \in dir : n.at <= now}]]
    /\ UNCHANGED <<now, dir, overflow, used, ghosts>>

StartClear(p) ==
    /\ At(p, "idle") /\ "clear" \in Ops
    /\ proc' = [proc EXCEPT ![p] = [Idle EXCEPT !.pc = "sweep", !.op = "clear",
                                                !.todo = dir]]
    /\ UNCHANGED <<now, dir, overflow, used, ghosts>>

Sweep(p) ==
    /\ At(p, "sweep")
    /\ \E n \in proc[p].todo :
        /\ dir' = dir \ {n}
        /\ proc' = [proc EXCEPT ![p].todo = @ \ {n}]
    /\ UNCHANGED <<now, overflow, used, ghosts>>

\* overflow.count is a name like any other to clear; the digits of the entries
\* sort before it.
EndSweep(p) ==
    /\ At(p, "sweep") /\ proc[p].todo = {}
    /\ overflow' = IF proc[p].op = "clear" THEN 0 ELSE overflow
    /\ proc' = [proc EXCEPT ![p] = Idle]
    /\ UNCHANGED <<now, dir, used, ghosts>>

-----------------------------------------------------------------------------
(* The environment.                                                        *)

\* Mutated form: a delivery attempt may outlive the claim.
TickUnbudgeted ==
    /\ now < MaxTime
    /\ now' = now + 1
    /\ UNCHANGED <<dir, overflow, used, proc, ghosts>>

\* Time passes, but no live attempt outlasts the sender's budget.
Tick ==
    /\ now < MaxTime
    /\ \A p \in Procs : proc[p].pc \in Holding => now < proc[p].cur.since + SendBudget
    /\ now' = now + 1
    /\ UNCHANGED <<dir, overflow, used, proc, ghosts>>

\* A process is killed between two file-system calls.  Killed in "send" the
\* request may have been taken; killed in "remove" the delivery may be done
\* with the claim still on disk.
Crash(p) ==
    /\ ~At(p, "idle") /\ faults < MaxFaults
    /\ faults' = faults + 1
    /\ proc' = [proc EXCEPT ![p] = Idle]
    /\ \/ /\ ~At(p, "remove")
          /\ UNCHANGED <<accepted, doubt>>
       \/ /\ At(p, "send")
          /\ accepted' = [accepted EXCEPT ![proc[p].cur.ev] = @ + 1]
          /\ doubt' = [doubt EXCEPT ![proc[p].cur.ev] = @ + 1]
       \/ /\ At(p, "remove")
          /\ doubt' = [doubt EXCEPT ![proc[p].cur.ev] = @ + 1]
          /\ UNCHANGED accepted
    /\ UNCHANGED <<now, dir, overflow, used>>

Step(p) ==
    \/ PublishTmp(p)
    \/ ListForCap(p) \/ RemoveVictim(p) \/ ReadOverflow(p) \/ WriteOverflow(p)
    \/ Reclaim(p) \/ Relist(p) \/ ReadEntry(p) \/ Unlink(p) \/ EndRead(p)
    \/ Claim(p) \/ EndDrain(p)
    \/ SendTaken(p) \/ SendAnswerLost(p) \/ SendRefused(p)
    \/ Release(p) \/ Remove(p)
    \/ Sweep(p) \/ EndSweep(p)

Start(p) ==
    \/ \E e \in Events : WriteTmp(p, e)
    \/ \E op \in ReadOps : StartRead(p, op)
    \/ StartDiscard(p)
    \/ StartClear(p)

Next ==
    \/ \E p \in Procs : Start(p) \/ Step(p) \/ Crash(p)
    \/ Tick

Spec == Init /\ [][Next]_vars

\* Processes run to their end unless killed, time passes, and hooks keep firing:
\* each process slot starts a drain again and again.
FairSpec ==
    /\ Spec
    /\ \A p \in Procs : WF_vars(Step(p)) /\ SF_vars(StartRead(p, "drain"))
    /\ WF_vars(Tick)

-----------------------------------------------------------------------------
(* Properties.                                                             *)

\* Type invariant of the queue's state.
TypeOK ==
    /\ now \in Time
    /\ dir \subseteq Names
    /\ overflow \in Nat
    /\ used \subseteq Events
    /\ proc \in [Procs -> ProcState]
    /\ accepted \in [Events -> Nat]
    /\ doubt \in [Events -> Nat]
    /\ faults \in 0 .. MaxFaults

\* An event is in the directory under at most one name: the renames of several
\* processes never fork it into a queued and a claimed copy.
OneFilePerEvent == \A m, n \in dir : m.ev = n.ev => m = n

\* Two concurrent drains never send the same event (drain: "so two concurrent
\* drains never double-send the same event"), reclaims and releases included.
ExclusiveSend ==
    \A p, q \in Procs :
        /\ p # q
        /\ proc[p].pc \in Holding
        /\ proc[q].pc \in Holding
        => proc[p].cur.ev # proc[q].cur.ev

\* Nobody takes a claim from under a live drainer: while it holds the claim,
\* the file has the claim's name or is gone (discarded or cleared), never back
\* in the queue for another drain.
ClaimNotStolen ==
    \A p \in Procs :
        (proc[p].pc \in Holding /\ \E n \in dir : n.ev = proc[p].cur.ev)
            => proc[p].cur \in dir

\* The backend accepts an event twice only after an answer was lost or a
\* drainer died with the delivery unrecorded: one duplicate per such fault.
DuplicatesOnlyAfterDoubt == \A e \in Events : accepted[e] <= 1 + doubt[e]

\* A drain never sends an event that was past retention when its pass began.
NeverSendsExpired ==
    \A p \in Procs : proc[p].pc \in Holding => ~Expired(proc[p].cur, proc[p].mark)

\* An unexpired queued entry leaves the queue only into a claim, by the cap, by
\* discardBefore or by clear (drain: "retry keeps it for next time").
NoSilentLoss ==
    [][\A n \in Entries :
        n \in dir' \/ Expired(n, now)
        \/ \E p \in Procs :
              \/ At(p, "drain") /\ ClaimName(n, p, now) \in dir'
              \/ proc[p].pc \in {"capRm", "sweep"} /\ n \in proc[p].todo
      ]_vars

\* A claim whose drainer died returns to the queue, or goes, once it is old
\* enough.  The bound on the clock excuses the claims of its last moments.
OrphansReturn ==
    \A e \in Events :
        (\E n \in Claims : n.ev = e /\ n.since + ClaimReclaim <= MaxTime)
            ~> ~(\E n \in Claims : n.ev = e /\ n.since + ClaimReclaim <= MaxTime)

\* No queued entry outlives its retention for good, whatever the backend says.
EntriesExpire ==
    \A e \in Events :
        <>[](\A n \in Entries : n.ev = e => ~Expired(n, MaxTime))

\* docs/security.md: the queue "retains events for up to 24 hours": nor does a
\* half-written file, which holds the event as well.
FilesExpire ==
    \A e \in Events :
        <>[](\A n \in dir \ Claims : n.ev = e => ~Expired(n, MaxTime))

(* The queue implements the spool of EventSpool.  An event being written is *)
(* not parked yet; a claim is held by the live process it names.            *)

StageOf(e) ==
    IF \E n \in dir : n.ev = e /\ n.kind = "json" THEN "parked"
    ELSE IF \E n \in dir : n.ev = e /\ n.kind = "claim" THEN "taken"
    ELSE IF e \in used /\ ~ \E n \in dir : n.ev = e THEN "gone"
    ELSE "new"

HeldBy(p) ==
    IF proc[p].pc \in Holding /\ proc[p].cur \in dir THEN proc[p].cur.ev ELSE NoEvent

Spool == INSTANCE EventSpool WITH
            stage <- [e \in Events |-> StageOf(e)],
            holds <- [p \in Procs |-> HeldBy(p)]

\* Every behaviour of the queue is one of the spool.
ImplementsSpool == Spool!SpoolSpec

=============================================================================
