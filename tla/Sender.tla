------------------------------- MODULE Sender -------------------------------
(***************************************************************************)
(* One delivery from hook fire to reported outcome: the budget of          *)
(* `birdybeep hook' (cli hook.ts), and send and drainNow of agent-core     *)
(* (sender.ts), over the retry queue as its abstract specification         *)
(* EventSpool promises it (EventQueue implements that).                    *)
(*                                                                         *)
(* Each fire is a process of its own and carries one event, named after    *)
(* it.  Drainers are `status' and `doctor', which call drainNow.  Time is  *)
(* kept in timers: `age' since the hook started, `left' until the deadline *)
(* of the call, `wait' until what the process awaits must have ended.      *)
(***************************************************************************)
EXTENDS Naturals, FiniteSets

CONSTANTS
    Fires,         \* hook fires, each with the event it carries
    Drainers,      \* CLI commands that drain the queue
    NoEvent,       \* placeholder: a process holds no event
    StdinTimeout,  \* STDIN_READ_TIMEOUT_MS
    HookBudget,    \* what hookRuntimeBudgetMs grants the whole invocation
    TotalBudget,   \* DEFAULT_TOTAL_BUDGET_MS
    MinAttempt,    \* MIN_DRAIN_ATTEMPT_MS
    LookupMax,     \* longest secure-store lookup (an assumption on the OS)
    DrainMax,      \* DEFAULT_DRAIN_MAX
    MaxMishaps     \* bound: processes killed, and claims that could not be settled, in one behaviour

ASSUME PartiesAssumption == Fires \cap Drainers = {} /\ NoEvent \notin Fires
ASSUME BudgetsAssumption ==
    /\ {StdinTimeout, HookBudget, LookupMax, DrainMax, MaxMishaps} \subseteq Nat
    /\ {TotalBudget, MinAttempt} \subseteq Nat \ {0}
    /\ StdinTimeout < HookBudget

Procs == Fires \cup Drainers

VARIABLES
    healthy,  \* from now on the machine is paired, the store and the backend answer
    stage,    \* the queue: see EventSpool
    holds,    \* the queue: see EventSpool
    proc,     \* the state of each process, see ProcState
    verdict,  \* verdict[e]: the final answers some process has received for e
    lapsed,   \* events whose claim outlived a final answer: its removal was cut off or failed
    evicted,  \* events the queue gave up (retention, cap, discard, clear)
    mishaps   \* processes killed, and claims that could not be settled, so far

vars == <<healthy, stage, holds, proc, verdict, lapsed, evicted, mishaps>>

Queue == INSTANCE EventSpool WITH Events <- Fires

Finals == {"delivered", "drop"}          \* answers that settle an event
Retries == {"backend", "transport"}      \* answers that keep it queued
Answers == Finals \cup Retries

\* An attempt that got an answer at all has an HTTP status.
HasStatus == Answers \ {"transport"}

Outcomes == {"delivered", "queued", "dropped", "unpaired", "failed", "skipped"}

Labels == {"rest", "stdin", "lookup", "attempt", "park", "list", "drain", "post",
           "settle", "done", "killed"}

\* bound: an age stops growing once it is past the budget
MaxAge == HookBudget + 1

Timer == 0 .. (TotalBudget + StdinTimeout + LookupMax)

ProcState == [pc: Labels, age: 0 .. MaxAge, left: Timer, wait: Timer,
              cur: Fires \cup {NoEvent}, got: Answers \cup {"none"}, todo: SUBSET Fires,
              first: Answers \cup {"none"}, watched: Answers \cup {"none"},
              parked: BOOLEAN, own: SUBSET Answers,
              outcome: Outcomes \cup {"none"}, cause: Retries \cup {"token_store", "none"}]

Resting == [pc |-> "rest", age |-> 0, left |-> 0, wait |-> 0, cur |-> NoEvent,
            got |-> "none", todo |-> {}, first |-> "none", watched |-> "none", parked |-> FALSE,
            own |-> {}, outcome |-> "none", cause |-> "none"]

At(p, label) == proc[p].pc = label
Running(p) == proc[p].pc \notin {"rest", "done", "killed"}

Least(a, b) == IF a <= b THEN a ELSE b
Greatest(a, b) == IF a >= b THEN a ELSE b
Minus(a, b) == IF a >= b THEN a - b ELSE 0

Init ==
    /\ healthy = FALSE
    /\ Queue!SpoolInit
    /\ proc = [p \in Procs |-> Resting]
    /\ verdict = [e \in Fires |-> {}]
    /\ lapsed = {}
    /\ evicted = {}
    /\ mishaps = 0

queueVars == <<stage, holds>>

\* The call is over and reports `outcome'; what it needed only on the way is
\* gone with its process.
Report(outcome, cause, own) ==
    [Resting EXCEPT !.pc = "done", !.outcome = outcome, !.cause = cause, !.own = own]

-----------------------------------------------------------------------------
(* The hook command: a bounded read of the payload, then the budget.       *)

StartHook(f) ==
    /\ At(f, "rest")
    /\ proc' = [proc EXCEPT ![f].pc = "stdin", ![f].wait = StdinTimeout]
    /\ UNCHANGED <<healthy, queueVars, verdict, lapsed, evicted, mishaps>>

\* Timed out, empty, not JSON, foreign, unmappable, filtered or deduped.
SkipPayload(f) ==
    /\ At(f, "stdin")
    /\ proc' = [proc EXCEPT ![f] = Report("skipped", "none", {})]
    /\ UNCHANGED <<healthy, queueVars, verdict, lapsed, evicted, mishaps>>

\* Mutated form: the time spent on stdin is not deducted.
FullBudget(elapsed) == TotalBudget

SendAllowance(elapsed) == Greatest(1, Least(TotalBudget, Minus(HookBudget, elapsed)))

ReadPayload(f) ==
    /\ At(f, "stdin")
    /\ proc' = [proc EXCEPT ![f].pc = "lookup", ![f].wait = LookupMax,
                            ![f].left = SendAllowance(proc[f].age)]
    /\ UNCHANGED <<healthy, queueVars, verdict, lapsed, evicted, mishaps>>

-----------------------------------------------------------------------------
(* send: the three answers of the token store, each possible at any lookup *)
(* until the machine is healthy.                                           *)

\* The store failed: the event is queued; if that fails too, it is lost.
TokenUnavailable(f) ==
    /\ At(f, "lookup") /\ ~healthy
    /\ \/ /\ Queue!Park(f)
          /\ proc' = [proc EXCEPT ![f] = Report("queued", "token_store", {})]
       \/ /\ proc' = [proc EXCEPT ![f] = Report("failed", "none", {})]
          /\ UNCHANGED queueVars
    /\ UNCHANGED <<healthy, verdict, lapsed, evicted, mishaps>>

TokenAbsent(f) ==
    /\ At(f, "lookup") /\ ~healthy
    /\ proc' = [proc EXCEPT ![f] = Report("unpaired", "none", {})]
    /\ UNCHANGED <<healthy, queueVars, verdict, lapsed, evicted, mishaps>>

\* Too little time left to make a useful request: it counts as a transport
\* failure and no request is made.
TokenPresent(f) ==
    /\ At(f, "lookup")
    /\ proc' = IF proc[f].left < MinAttempt
               THEN [proc EXCEPT ![f].pc = "park", ![f].wait = 0, ![f].first = "transport"]
               ELSE [proc EXCEPT ![f].pc = "attempt", ![f].wait = proc[f].left]
    /\ UNCHANGED <<healthy, queueVars, verdict, lapsed, evicted, mishaps>>

-----------------------------------------------------------------------------
(* attempt: the answers a request can get, "transport" when it fails or    *)
(* its abort timer fires.  A healthy backend answers in time.              *)

AnswersNow == IF healthy THEN Finals ELSE Answers

\* verdict with the answer a to a request for e
Learned(e, a) == [verdict EXCEPT ![e] = @ \cup ({a} \cap Finals)]

FirstAnswer(f) ==
    /\ At(f, "attempt")
    /\ \E a \in AnswersNow :
        /\ verdict' = Learned(f, a)
        /\ proc' = [proc EXCEPT ![f].pc = IF a \in Retries THEN "park" ELSE "list",
                                ![f].first = a, ![f].own = @ \cup {a}, ![f].wait = 0]
    /\ UNCHANGED <<healthy, queueVars, lapsed, evicted, mishaps>>

\* Mutated form: the result of enqueue is not looked at.
ParkUnchecked(f) ==
    /\ At(f, "park")
    /\ Queue!Park(f) \/ UNCHANGED queueVars
    /\ proc' = [proc EXCEPT ![f].pc = "list", ![f].parked = TRUE]
    /\ UNCHANGED <<healthy, verdict, lapsed, evicted, mishaps>>

\* enqueue says whether it could write the event.
ParkOwn(f) ==
    /\ At(f, "park")
    /\ \/ /\ Queue!Park(f)
          /\ proc' = [proc EXCEPT ![f].pc = "list", ![f].parked = TRUE]
       \/ /\ proc' = [proc EXCEPT ![f].pc = "list"]
          /\ UNCHANGED queueVars
    /\ UNCHANGED <<healthy, verdict, lapsed, evicted, mishaps>>

-----------------------------------------------------------------------------
(* drainQueue, in the tail of send and in drainNow.                        *)

ListQueue(p) ==
    /\ At(p, "list")
    /\ LET queued == {e \in Fires : stage[e] = "parked"}
       IN  \E S \in SUBSET queued :
            /\ Cardinality(S) = Least(DrainMax, Cardinality(queued))
            /\ proc' = [proc EXCEPT ![p].pc = "drain", ![p].todo = S]
    /\ UNCHANGED <<healthy, queueVars, verdict, lapsed, evicted, mishaps>>

Take(p) ==
    /\ At(p, "drain") /\ proc[p].left >= MinAttempt
    /\ \E e \in proc[p].todo :
        \/ /\ Queue!Take(p, e)
           /\ proc' = [proc EXCEPT ![p].pc = "post", ![p].todo = @ \ {e}, ![p].cur = e,
                                   ![p].wait = Greatest(1, proc[p].left)]
        \/ /\ stage[e] # "parked"
           /\ proc' = [proc EXCEPT ![p].todo = @ \ {e}]
           /\ UNCHANGED queueVars
    /\ UNCHANGED <<healthy, verdict, lapsed, evicted, mishaps>>

\* send watches the event it has just queued.  Its claim is untouched until the
\* answer is acted on.
DrainAnswer(p) ==
    /\ At(p, "post")
    /\ \E a \in AnswersNow :
        LET mine == proc[p].parked /\ proc[p].cur = p IN
        /\ verdict' = Learned(proc[p].cur, a)
        /\ proc' = [proc EXCEPT ![p].pc = "settle", ![p].got = a, ![p].wait = 0,
                                ![p].watched = IF mine THEN a ELSE @,
                                ![p].own = IF mine THEN @ \cup {a} ELSE @]
    /\ UNCHANGED <<healthy, queueVars, lapsed, evicted, mishaps>>

\* Mutated form: a retry leaves the claim behind.
ReleaseKeepsClaim(p) ==
    IF proc[p].got \in Finals THEN Queue!Finish(holds[p]) ELSE UNCHANGED queueVars

\* Mutated form: a terminal refusal is retried.
ReleaseRetriesDrop(p) ==
    IF proc[p].got = "delivered" THEN Queue!Finish(holds[p]) ELSE Queue!GiveBack(p, holds[p])

Release(p) ==
    IF proc[p].got \in Finals THEN Queue!Finish(holds[p]) ELSE Queue!GiveBack(p, holds[p])

\* The claim of p stays behind, for a later pass to reclaim.
LeaveClaim(p) ==
    /\ Queue!Abandon(p)
    /\ lapsed' = IF proc[p].got \in Finals THEN lapsed \cup {holds[p]} ELSE lapsed

\* The claim is removed or renamed back; an error of either is swallowed and the
\* drain goes on.  The event may have been discarded in the meantime.
Settle(p) ==
    /\ At(p, "settle")
    /\ proc' = [proc EXCEPT ![p].pc = "drain", ![p].cur = NoEvent, ![p].got = "none"]
    /\ \/ holds[p] # proc[p].cur /\ UNCHANGED <<queueVars, lapsed, mishaps>>
       \/ holds[p] = proc[p].cur /\ Release(p) /\ UNCHANGED <<lapsed, mishaps>>
       \/ /\ holds[p] = proc[p].cur /\ mishaps < MaxMishaps
          /\ mishaps' = mishaps + 1
          /\ LeaveClaim(p)
    /\ UNCHANGED <<healthy, verdict, evicted>>

Drained(p) == At(p, "drain") /\ (proc[p].todo = {} \/ proc[p].left < MinAttempt)

-----------------------------------------------------------------------------
(* The result of send.                                                     *)

OutcomeOf(a) == CASE a = "delivered" -> "delivered"
                  [] a = "drop" -> "dropped"
                  [] a \in Retries -> "queued"

\* Mutated form: the outcome is decided before the drain.
OutcomeBeforeDrain(r) ==
    IF r.first \in Retries /\ ~r.parked THEN "failed" ELSE OutcomeOf(r.first)

Outcome(r) ==
    IF r.watched # "none" THEN OutcomeOf(r.watched)
    ELSE IF r.first \in Retries /\ ~r.parked THEN "failed"
    ELSE OutcomeOf(r.first)

LastAttempt(r) == IF r.watched # "none" THEN r.watched ELSE r.first

\* Mutated form: the last attempt is the evidence.
EvidenceLast(r) == LastAttempt(r)

\* The newest attempt that reached the backend.
Evidence(r) ==
    IF LastAttempt(r) \notin HasStatus /\ r.first \in HasStatus THEN r.first
    ELSE LastAttempt(r)

\* Mutated form: the cause is not tied to a queued outcome.
CauseAlways(r) == Evidence(r)

Cause(r) == IF Outcome(r) = "queued" THEN Evidence(r) ELSE "none"

Return(f) ==
    /\ f \in Fires /\ Drained(f)
    /\ proc' = [proc EXCEPT ![f] = Report(Outcome(proc[f]), Cause(proc[f]), proc[f].own)]
    /\ UNCHANGED <<healthy, queueVars, verdict, lapsed, evicted, mishaps>>

-----------------------------------------------------------------------------
(* drainNow: without a token it only prunes (see Evict).                   *)

StartDrain(d) ==
    /\ At(d, "rest")
    /\ proc' = [proc EXCEPT ![d].pc = "lookup", ![d].wait = LookupMax]
    /\ UNCHANGED <<healthy, queueVars, verdict, lapsed, evicted, mishaps>>

DrainLookup(d) ==
    /\ At(d, "lookup")
    /\ \/ proc' = [proc EXCEPT ![d] = [Resting EXCEPT !.pc = "list", !.left = TotalBudget]]
       \/ ~healthy /\ proc' = [proc EXCEPT ![d] = Resting]
    /\ UNCHANGED <<healthy, queueVars, verdict, lapsed, evicted, mishaps>>

EndDrainNow(d) ==
    /\ d \in Drainers /\ Drained(d)
    /\ proc' = [proc EXCEPT ![d] = Resting]
    /\ UNCHANGED <<healthy, queueVars, verdict, lapsed, evicted, mishaps>>

-----------------------------------------------------------------------------
(* The environment.                                                        *)

\* Processes only wait in these states; everything else takes no time.
Waits == {"stdin", "lookup", "attempt", "post"}

\* The age of a process matters only in a hook.
Older(p) ==
    [proc[p] EXCEPT !.age = IF p \in Fires THEN Least(@ + 1, MaxAge) ELSE @,
                    !.left = Minus(@, 1), !.wait = Minus(@, 1)]

\* The timers of stdin and of a request fire on time, and the secure store
\* answers within LookupMax.
Tick ==
    /\ \E p \in Procs : Running(p)
    /\ \A p \in Procs : Running(p) => proc[p].pc \in Waits /\ proc[p].wait > 0
    /\ proc' = [p \in Procs |-> IF Running(p) THEN Older(p) ELSE proc[p]]
    /\ UNCHANGED <<healthy, queueVars, verdict, lapsed, evicted, mishaps>>

\* The machine is paired, its token store unlocked and the backend up for good.
Heal ==
    /\ ~healthy
    /\ healthy' = TRUE
    /\ UNCHANGED <<queueVars, proc, verdict, lapsed, evicted, mishaps>>

\* Retention, the cap, discardBefore and clear, in whatever process runs them.
Evict(e) ==
    /\ stage[e] \in {"parked", "taken"}
    /\ Queue!Finish(e)
    /\ evicted' = evicted \cup {e}
    /\ UNCHANGED <<healthy, proc, verdict, lapsed, mishaps>>

\* Any pass over the queue returns the claim of a dead process.
Recover(e) ==
    /\ Queue!Recover(e)
    /\ UNCHANGED <<healthy, proc, verdict, lapsed, evicted, mishaps>>

\* The harness kills the process, or the machine goes down.
Kill(p) ==
    /\ Running(p) /\ mishaps < MaxMishaps
    /\ mishaps' = mishaps + 1
    /\ proc' = [proc EXCEPT ![p] =
                    [Resting EXCEPT !.pc = IF p \in Fires THEN "killed" ELSE "rest"]]
    /\ IF holds[p] # NoEvent THEN LeaveClaim(p) ELSE UNCHANGED <<queueVars, lapsed>>
    /\ UNCHANGED <<healthy, verdict, evicted>>

FireStep(f) ==
    \/ SkipPayload(f) \/ ReadPayload(f)
    \/ TokenUnavailable(f) \/ TokenAbsent(f) \/ TokenPresent(f)
    \/ FirstAnswer(f) \/ ParkOwn(f) \/ Return(f)

DrainStep(p) == ListQueue(p) \/ Take(p) \/ DrainAnswer(p) \/ Settle(p)

Step(p) ==
    \/ p \in Fires /\ FireStep(p)
    \/ p \in Drainers /\ (DrainLookup(p) \/ EndDrainNow(p))
    \/ DrainStep(p)

Next ==
    \/ \E f \in Fires : StartHook(f)
    \/ \E d \in Drainers : StartDrain(d)
    \/ \E p \in Procs : Step(p) \/ Kill(p)
    \/ \E e \in Fires : Evict(e) \/ Recover(e)
    \/ Tick \/ Heal

Spec == Init /\ [][Next]_vars

\* Processes run to their end unless killed, timers advance, dead claims are
\* recovered (EventQueue: OrphansReturn), and the user's status keeps draining.
FairSpec ==
    /\ Spec
    /\ \A p \in Procs : WF_vars(Step(p))
    /\ \A d \in Drainers : SF_vars(StartDrain(d))
    /\ \A e \in Fires : WF_vars(Recover(e))
    /\ WF_vars(Tick)

-----------------------------------------------------------------------------
(* Properties.                                                             *)

\* Type invariant of the delivery's state.
TypeOK ==
    /\ healthy \in BOOLEAN
    /\ stage \in [Fires -> Queue!Stages]
    /\ holds \in [Procs -> Fires \cup {NoEvent}]
    /\ proc \in [Procs -> ProcState]
    /\ verdict \in [Fires -> SUBSET Finals]
    /\ lapsed \subseteq Fires /\ evicted \subseteq Fires
    /\ mishaps \in 0 .. MaxMishaps

\* The outcome is reconciled with the drain (send: "the drain can deliver the
\* event this very call just enqueued"): delivered and dropped are reported
\* exactly when this call got that answer for its own event, in either attempt.
OutcomeHonest ==
    \A f \in Fires : At(f, "done") =>
        /\ proc[f].outcome = "delivered" <=> "delivered" \in proc[f].own
        /\ proc[f].outcome = "dropped" <=> "drop" \in proc[f].own
        /\ proc[f].outcome = "failed" => stage[f] = "new"

\* queueCause "transport" ("actually offline") is said only when no attempt of
\* the call reached the backend, "backend" only when one did.
CauseHonest ==
    \A f \in Fires : At(f, "done") /\ proc[f].outcome = "queued" =>
        /\ proc[f].cause = "backend" <=> "backend" \in proc[f].own
        /\ proc[f].cause # "none"

\* "queued is a promise that a later hook can retry": the event is in the queue
\* until somebody gets a final answer for it or the queue gives it up.
QueuedIsKept ==
    \A f \in Fires : At(f, "done") /\ proc[f].outcome = "queued" =>
        stage[f] \in {"parked", "taken"} \/ verdict[f] # {} \/ f \in evicted

\* Once any process has had a final answer for an event, the event cannot be sent
\* again: it is not in the queue, no dead claim of it is left for a pass to bring
\* back, and only the process that is about to remove its claim still has one.
\* Excepted are the events whose claim outlived the answer because the process was
\* killed, or its removal failed, between the two: those are sent again.
NoRepeatAfterVerdict ==
    \A e \in Fires : verdict[e] # {} /\ e \notin lapsed =>
        /\ stage[e] \in {"new", "gone"} \/ Queue!Holders(e) # {}
        /\ \A p \in Queue!Holders(e) : At(p, "settle") /\ proc[p].got \in Finals

\* A hook that is not killed returns within its budget ("never overrun a 10s
\* hook"), stdin, token lookup, request and drain together.
HookInBudget == \A f \in Fires : proc[f].age <= HookBudget

\* Once the machine is healthy, every event in the queue leaves it.
QueueDrains ==
    \A e \in Fires :
        (healthy /\ stage[e] \in {"parked", "taken"}) ~> stage[e] = "gone"

=============================================================================
