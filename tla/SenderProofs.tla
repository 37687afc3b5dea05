---------------------------- MODULE SenderProofs ----------------------------
(***************************************************************************)
(* Proofs about Sender, for any number of hook fires and drainers and any  *)
(* values of the time budgets.                                             *)
(***************************************************************************)
EXTENDS Sender, TLAPS

(* The inductive invariant.  What a call reports is decided from the locals  *)
(* `first', `watched' and `parked'; that it is the truth about the queue and *)
(* about the answers rests on when an event is new: until its own call parks *)
(* it nobody else can hold it, send it or learn a verdict for it.            *)

Fresh == {"rest", "stdin", "lookup", "attempt"}

\* What the record r of the fire f says of its event, which stands at stage s
\* with the final answers v.
FireOK(f, r, s, v) ==
    /\ r.pc \in Fresh \cup {"park"} => s = "new" /\ v = {}
    /\ r.pc \in Fresh => r.own = {} /\ r.first = "none"
    /\ r.pc \in Fresh \cup {"park"} => ~r.parked
    /\ r.pc \in Fresh \cup {"park", "list"} => r.watched = "none"
    /\ r.pc = "park" => r.first \in Retries
    /\ r.pc \in {"park", "list", "drain", "post", "settle"} =>
           /\ r.first \in Answers
           /\ r.own \ {"transport"} = {r.first, r.watched} \ {"none", "transport"}
           /\ r.first \in Retries /\ ~r.parked => s = "new"
    /\ r.parked => r.first \in Retries /\ s # "new"
    /\ r.watched # "none" => r.parked /\ f \notin r.todo /\ (r.cur = f => r.pc = "settle")
    /\ r.pc = "done" =>
           /\ r.outcome = "delivered" <=> "delivered" \in r.own
           /\ r.outcome = "dropped" <=> "drop" \in r.own
           /\ r.outcome = "failed" => s = "new"
           /\ r.outcome = "queued" =>
                  /\ s # "new"
                  /\ r.cause = "backend" <=> "backend" \in r.own
                  /\ r.cause # "none"

\* The request of a drain is about one event, which its list no longer has.
RequestOK(r) ==
    /\ r.pc \notin {"post", "settle"} => r.cur = NoEvent
    /\ r.pc \in {"post", "settle"} => r.cur \in Fires /\ r.cur \notin r.todo

\* A process holds the event it is sending, or settling, unless the queue gave it
\* up, and settles with the answer it learned.
HoldsOK(p) ==
    /\ RequestOK(proc[p])
    /\ holds[p] # NoEvent =>
           /\ proc[p].pc \in {"post", "settle"}
           /\ proc[p].cur = holds[p] /\ stage[holds[p]] = "taken"
    /\ proc[p].pc \in {"post", "settle"} =>
           holds[p] = proc[p].cur \/ stage[proc[p].cur] = "gone"
    /\ At(p, "settle") /\ proc[p].got \in Finals => verdict[proc[p].cur] # {}

OneHolder == \A p, q \in Procs : p # q /\ holds[p] # NoEvent => holds[q] # holds[p]

\* Some process is about to remove the claim of e.
Closing(e) ==
    \E p \in Procs : holds[p] = e /\ At(p, "settle") /\ proc[p].got \in Finals

EventOK(e) ==
    /\ verdict[e] # {} => stage[e] \in {"new", "gone"} \/ e \in lapsed \/ Closing(e)
    /\ stage[e] = "gone" => verdict[e] # {} \/ e \in evicted

IInv ==
    /\ TypeOK
    /\ OneHolder
    /\ \A p \in Procs : HoldsOK(p)
    /\ \A e \in Fires : EventOK(e) /\ FireOK(e, proc[e], stage[e], verdict[e])

-----------------------------------------------------------------------------
(* The constants and the records.                                          *)

LEMMA Numbers ==
    /\ StdinTimeout \in Nat /\ HookBudget \in Nat /\ LookupMax \in Nat /\ DrainMax \in Nat
    /\ MaxMishaps \in Nat /\ TotalBudget \in Nat /\ TotalBudget >= 1
    /\ MinAttempt \in Nat /\ MinAttempt >= 1 /\ StdinTimeout < HookBudget
  BY BudgetsAssumption

LEMMA Timers ==
    /\ {0, 1, StdinTimeout, LookupMax, TotalBudget} \subseteq Timer
    /\ Timer \subseteq Nat
  BY Numbers DEF Timer

LEMMA Parties == Fires \subseteq Procs /\ NoEvent \notin Fires /\ \A d \in Drainers : d \notin Fires
  BY PartiesAssumption DEF Procs

LEMMA RestingTyped ==
    /\ Resting \in ProcState /\ Resting.pc = "rest" /\ Resting.cur = NoEvent
    /\ Resting.got = "none"
    /\ Resting.own = {} /\ Resting.first = "none" /\ Resting.watched = "none"
    /\ Resting.parked = FALSE /\ Resting.age = 0 /\ Resting.left = 0
  BY Numbers DEF Resting, ProcState, Labels, Timer, MaxAge

LEMMA ReportTyped ==
    \A o \in Outcomes, c \in Retries \cup {"token_store", "none"}, w \in SUBSET Answers :
           /\ Report(o, c, w) \in ProcState
           /\ Report(o, c, w).pc = "done" /\ Report(o, c, w).outcome = o
           /\ Report(o, c, w).cause = c /\ Report(o, c, w).own = w
           /\ Report(o, c, w).cur = NoEvent /\ Report(o, c, w).watched = "none"
           /\ Report(o, c, w).parked = FALSE
  <1> SUFFICES ASSUME NEW o \in Outcomes, NEW c \in Retries \cup {"token_store", "none"},
                      NEW w \in SUBSET Answers
               PROVE  /\ Report(o, c, w) \in ProcState
                      /\ Report(o, c, w).pc = "done" /\ Report(o, c, w).outcome = o
                      /\ Report(o, c, w).cause = c /\ Report(o, c, w).own = w
                      /\ Report(o, c, w).cur = NoEvent /\ Report(o, c, w).watched = "none"
                      /\ Report(o, c, w).parked = FALSE
    OBVIOUS
  <1>1. PICK r \in ProcState : r = Resting
    BY RestingTyped
  <1>2. Report(o, c, w) = [r EXCEPT !.pc = "done", !.outcome = o, !.cause = c, !.own = w]
    BY <1>1 DEF Report
  <1>3. r.cur = NoEvent /\ r.watched = "none" /\ r.parked = FALSE
    BY <1>1, RestingTyped
  <1> QED  BY <1>2, <1>3, ZenonT(60) DEF ProcState, Labels

LEMMA CausesTyped ==
    /\ {"token_store", "none"} \subseteq Retries \cup {"token_store", "none"}
    /\ {} \in SUBSET Answers
  OBVIOUS

LEMMA ProcMoves ==
    ASSUME proc \in [Procs -> ProcState], NEW p \in Procs, NEW r \in ProcState,
           proc' = [proc EXCEPT ![p] = r]
    PROVE  /\ proc' \in [Procs -> ProcState]
           /\ proc'[p] = r
           /\ \A q \in Procs \ {p} : proc'[q] = proc[q]
  OBVIOUS

-----------------------------------------------------------------------------
(* The kinds of steps, by what they do to the queue.                       *)

\* Events other than f stand to their fires as before when no other event
\* leaves, or comes back to, being new.
LEMMA FireKept ==
    ASSUME NEW f, NEW r, NEW s, NEW v, NEW t, NEW w, FireOK(f, r, s, v), s # "new", t # "new"
    PROVE  FireOK(f, r, t, w)
  BY DEF FireOK

\* Who is about to remove a claim still is when nobody who holds the event moves.
LEMMA ClosingKept ==
    ASSUME NEW e \in Fires, Closing(e),
           \A q \in Procs : holds[q] = e => holds'[q] = e /\ proc'[q] = proc[q]
    PROVE  Closing(e)'
  BY DEF Closing, At

\* An event stands as before when its claim, if it has one, does.
LEMMA EventKept ==
    ASSUME NEW e \in Fires, EventOK(e), stage'[e] = stage[e], verdict'[e] = verdict[e],
           lapsed \subseteq lapsed', evicted \subseteq evicted',
           \A q \in Procs : holds[q] = e => holds'[q] = e /\ proc'[q] = proc[q]
    PROVE  EventOK(e)'
  <1>1. Closing(e) => Closing(e)'
    BY ClosingKept
  <1> QED  BY <1>1 DEF EventOK

\* p only changes its own record.
LEMMA OwnStep ==
    ASSUME IInv, NEW p \in Procs, NEW r \in ProcState, proc' = [proc EXCEPT ![p] = r],
           UNCHANGED <<healthy, stage, holds, verdict, lapsed, evicted>>, mishaps' \in 0 .. MaxMishaps,
           proc[p].pc \notin {"post", "settle"}, r.pc \notin {"post", "settle"}, r.cur = NoEvent,
           p \in Fires => FireOK(p, r, stage[p], verdict[p])
    PROVE  IInv'
  <1>0. proc' \in [Procs -> ProcState] /\ proc'[p] = r /\ \A q \in Procs \ {p} : proc'[q] = proc[q]
    BY ProcMoves DEF IInv, TypeOK
  <1>1. TypeOK'
    BY <1>0 DEF IInv, TypeOK
  <1>2. OneHolder'
    BY DEF IInv, OneHolder
  <1>3. \A q \in Procs : HoldsOK(q)'
    BY <1>0 DEF IInv, HoldsOK, RequestOK, At
  <1>4. \A e \in Fires : EventOK(e)'
    <2>1. holds[p] = NoEvent
      BY DEF IInv, HoldsOK
    <2>2. \A q \in Procs : holds[q] # NoEvent => holds'[q] = holds[q] /\ proc'[q] = proc[q]
      BY <1>0, <2>1
    <2> QED  BY <2>2, EventKept, Parties DEF IInv
  <1>5. \A e \in Fires : FireOK(e, proc[e], stage[e], verdict[e])'
    <2> SUFFICES ASSUME NEW e \in Fires
                 PROVE  FireOK(e, proc'[e], stage[e], verdict[e])
      BY DEF FireOK
    <2>1. CASE e = p
      BY <1>0, <2>1
    <2>2. CASE e # p
      BY <1>0, <2>2, Parties DEF IInv
    <2> QED  BY <2>1, <2>2
  <1> QED  BY <1>1, <1>2, <1>3, <1>4, <1>5 DEF IInv

LEMMA LocalStep ==
    ASSUME IInv, NEW p \in Procs, NEW r \in ProcState, proc' = [proc EXCEPT ![p] = r],
           UNCHANGED <<healthy, stage, holds, verdict, lapsed, evicted, mishaps>>,
           proc[p].pc \notin {"post", "settle"}, r.pc \notin {"post", "settle"}, r.cur = NoEvent,
           p \in Fires => FireOK(p, r, stage[p], verdict[p])
    PROVE  IInv'
  <1>1. mishaps' \in 0 .. MaxMishaps
    BY DEF IInv, TypeOK
  <1> QED  BY <1>1, OwnStep

\* f parks its event.
LEMMA ParkStep ==
    ASSUME IInv, NEW f \in Fires, NEW r \in ProcState, proc' = [proc EXCEPT ![f] = r],
           Queue!Park(f), UNCHANGED <<healthy, verdict, lapsed, evicted, mishaps>>,
           proc[f].pc \notin {"post", "settle"}, r.pc \notin {"post", "settle"}, r.cur = NoEvent, verdict[f] = {},
           FireOK(f, r, "parked", {})
    PROVE  IInv'
  <1>0. /\ f \in Procs /\ proc' \in [Procs -> ProcState] /\ proc'[f] = r
        /\ \A q \in Procs \ {f} : proc'[q] = proc[q]
    BY Parties, ProcMoves DEF IInv, TypeOK
  <1>1. /\ stage' \in [Fires -> Queue!Stages] /\ stage[f] = "new" /\ stage'[f] = "parked"
        /\ \A e \in Fires \ {f} : stage'[e] = stage[e]
        /\ holds' = holds
    BY DEF IInv, TypeOK, Queue!Park, Queue!Stages
  <1>2. TypeOK'
    BY <1>0, <1>1 DEF IInv, TypeOK
  <1>3. OneHolder'
    BY <1>1 DEF IInv, OneHolder
  <1>4. \A q \in Procs : HoldsOK(q)'
    <2> SUFFICES ASSUME NEW q \in Procs PROVE HoldsOK(q)'
      OBVIOUS
    <2>1. HoldsOK(q) /\ holds[q] \in Fires \cup {NoEvent}
      BY DEF IInv, TypeOK
    <2>2. CASE q = f
      BY <1>0, <1>1, <2>1, <2>2 DEF HoldsOK, RequestOK, At
    <2>3. CASE q # f
      BY <1>0, <1>1, <2>1, <2>3 DEF HoldsOK, RequestOK, At
    <2> QED  BY <2>2, <2>3
  <1>5. \A e \in Fires : EventOK(e)'
    <2>1. holds[f] = NoEvent
      BY <1>0 DEF IInv, HoldsOK
    <2>2. \A q \in Procs : holds[q] # NoEvent => holds'[q] = holds[q] /\ proc'[q] = proc[q]
      BY <1>0, <1>1, <2>1
    <2>3. ASSUME NEW e \in Fires \ {f} PROVE EventOK(e)'
      BY <1>1, <2>2, <2>3, EventKept, Parties DEF IInv
    <2>4. EventOK(f)'
      BY <1>1 DEF EventOK
    <2> QED  BY <2>3, <2>4
  <1>6. \A e \in Fires : FireOK(e, proc'[e], stage'[e], verdict'[e])
    <2> SUFFICES ASSUME NEW e \in Fires PROVE FireOK(e, proc'[e], stage'[e], verdict'[e])
      OBVIOUS
    <2>1. CASE e = f
      BY <1>0, <1>1, <2>1
    <2>2. CASE e # f
      BY <1>0, <1>1, <2>2, Parties DEF IInv
    <2> QED  BY <2>1, <2>2
  <1>7. \A e \in Fires : FireOK(e, proc[e], stage[e], verdict[e])'
    BY <1>6 DEF FireOK
  <1> QED  BY <1>2, <1>3, <1>4, <1>5, <1>7 DEF IInv

\* The queue moves an event that is new neither before nor after, and no process
\* changes but p, which comes out of it holding what its record says.
LEMMA QueueStep ==
    ASSUME IInv, NEW p \in Procs, NEW r \in ProcState, proc' = [proc EXCEPT ![p] = r],
           TypeOK', OneHolder', HoldsOK(p)', \A q \in Procs \ {p} : HoldsOK(q)',
           NEW x \in Fires, stage[x] # "new", stage'[x] # "new", EventOK(x)',
           \A e \in Fires \ {x} : stage'[e] = stage[e] /\ verdict'[e] = verdict[e],
           lapsed \subseteq lapsed', evicted \subseteq evicted',
           \A q \in Procs : holds[q] \notin {x, NoEvent} => holds'[q] = holds[q] /\ proc'[q] = proc[q],
           p \in Fires => FireOK(p, r, stage[p], verdict[p])
    PROVE  IInv'
  <1>0. proc'[p] = r /\ \A q \in Procs \ {p} : proc'[q] = proc[q]
    BY ProcMoves DEF IInv, TypeOK
  <1>1. \A e \in Fires : EventOK(e)'
    <2>1. ASSUME NEW e \in Fires \ {x} PROVE EventOK(e)'
      <3>1. \A q \in Procs : holds[q] = e => holds'[q] = e /\ proc'[q] = proc[q]
        BY <2>1, Parties
      <3> QED  BY <2>1, <3>1, EventKept DEF IInv
    <2> QED  BY <2>1
  <1>2. \A e \in Fires : FireOK(e, proc'[e], stage'[e], verdict'[e])
    <2> SUFFICES ASSUME NEW e \in Fires PROVE FireOK(e, proc'[e], stage'[e], verdict'[e])
      OBVIOUS
    <2>1. FireOK(e, proc'[e], stage[e], verdict[e])
      BY <1>0, Parties DEF IInv
    <2>2. CASE e = x
      BY <2>1, <2>2, FireKept
    <2>3. CASE e # x
      BY <2>1, <2>3
    <2> QED  BY <2>2, <2>3
  <1>3. \A e \in Fires : FireOK(e, proc[e], stage[e], verdict[e])'
    BY <1>2 DEF FireOK
  <1>4. \A q \in Procs : HoldsOK(q)'
    OBVIOUS
  <1> QED  BY <1>1, <1>3, <1>4 DEF IInv

-----------------------------------------------------------------------------
(* The hook command and the token lookup.                                  *)

\* What the invariant says of the fire f that takes the step.
LEMMA FireHas ==
    ASSUME IInv, NEW f \in Fires
    PROVE  /\ f \in Procs /\ proc[f] \in ProcState /\ proc \in [Procs -> ProcState]
           /\ FireOK(f, proc[f], stage[f], verdict[f])
           /\ proc[f].pc \notin {"post", "settle"} => proc[f].cur = NoEvent
  BY Parties DEF IInv, TypeOK, HoldsOK, RequestOK, At

LEMMA StartHookStep ==
    ASSUME IInv, NEW f \in Fires, StartHook(f)
    PROVE  IInv'
  <1> DEFINE r == [proc[f] EXCEPT !.pc = "stdin", !.wait = StdinTimeout]
  <1>0. /\ proc[f] \in ProcState /\ FireOK(f, proc[f], stage[f], verdict[f]) /\ f \in Procs
        /\ proc[f].pc = "rest" /\ proc[f].cur = NoEvent
    BY FireHas DEF StartHook, At
  <1>1. proc' = [proc EXCEPT ![f] = r]
    BY DEF StartHook
  <1>2. r \in ProcState /\ r.pc = "stdin" /\ r.cur = NoEvent
    BY <1>0, Timers DEF ProcState, Labels
  <1>3. FireOK(f, r, stage[f], verdict[f])
    BY <1>0 DEF FireOK, Fresh, ProcState
  <1> HIDE DEF r
  <1> QED  BY <1>0, <1>1, <1>2, <1>3, LocalStep DEF StartHook, At, queueVars

LEMMA SkipPayloadStep ==
    ASSUME IInv, NEW f \in Fires, SkipPayload(f)
    PROVE  IInv'
  <1> DEFINE r == Report("skipped", "none", {})
  <1>0. /\ FireOK(f, proc[f], stage[f], verdict[f]) /\ f \in Procs /\ proc[f].pc = "stdin"
    BY FireHas DEF SkipPayload, At
  <1>1. proc' = [proc EXCEPT ![f] = r]
    BY DEF SkipPayload
  <1>2. /\ r \in ProcState /\ r.pc = "done" /\ r.outcome = "skipped" /\ r.own = {} /\ r.cur = NoEvent
        /\ r.watched = "none" /\ r.parked = FALSE
    BY ReportTyped, CausesTyped DEF Outcomes
  <1> HIDE DEF r
  <1>3. FireOK(f, r, stage[f], verdict[f])
    BY <1>2 DEF FireOK, Fresh
  <1> QED  BY <1>0, <1>1, <1>2, <1>3, LocalStep DEF SkipPayload, At, queueVars

\* What is granted for the delivery fits both budgets.
LEMMA AllowanceFits ==
    ASSUME NEW t \in Nat
    PROVE  /\ SendAllowance(t) \in Timer /\ SendAllowance(t) >= 1
           /\ t < HookBudget => t + SendAllowance(t) <= HookBudget
  BY Numbers DEF SendAllowance, Timer, Greatest, Least, Minus

LEMMA ReadPayloadStep ==
    ASSUME IInv, NEW f \in Fires, ReadPayload(f)
    PROVE  IInv'
  <1> DEFINE r == [proc[f] EXCEPT !.pc = "lookup", !.wait = LookupMax,
                                  !.left = SendAllowance(proc[f].age)]
  <1>0. /\ proc[f] \in ProcState /\ FireOK(f, proc[f], stage[f], verdict[f]) /\ f \in Procs
        /\ proc[f].pc = "stdin" /\ proc[f].cur = NoEvent
    BY FireHas DEF ReadPayload, At
  <1>1. proc' = [proc EXCEPT ![f] = r]
    BY DEF ReadPayload
  <1>a. proc[f].age \in Nat
    BY <1>0, Numbers DEF ProcState, MaxAge
  <1>b. SendAllowance(proc[f].age) \in Timer
    BY <1>a, AllowanceFits
  <1>2. r \in ProcState /\ r.pc = "lookup" /\ r.cur = NoEvent
    BY <1>0, <1>b, Timers DEF ProcState, Labels
  <1>3. FireOK(f, r, stage[f], verdict[f])
    BY <1>0 DEF FireOK, Fresh, ProcState
  <1> HIDE DEF r
  <1> QED  BY <1>0, <1>1, <1>2, <1>3, LocalStep DEF ReadPayload, At, queueVars

LEMMA TokenUnavailableStep ==
    ASSUME IInv, NEW f \in Fires, TokenUnavailable(f)
    PROVE  IInv'
  <1>0. /\ FireOK(f, proc[f], stage[f], verdict[f]) /\ f \in Procs /\ proc[f].pc = "lookup"
        /\ stage[f] = "new" /\ verdict[f] = {}
    BY FireHas DEF TokenUnavailable, At, FireOK, Fresh
  <1>1. CASE Queue!Park(f) /\ proc' = [proc EXCEPT ![f] = Report("queued", "token_store", {})]
    <2> DEFINE r == Report("queued", "token_store", {})
    <2>1. /\ r \in ProcState /\ r.pc = "done" /\ r.outcome = "queued" /\ r.own = {} /\ r.cur = NoEvent
          /\ r.watched = "none" /\ r.parked = FALSE /\ r.cause = "token_store"
      BY ReportTyped, CausesTyped DEF Outcomes
    <2>2. proc' = [proc EXCEPT ![f] = r]
      BY <1>1
    <2> HIDE DEF r
    <2>3. FireOK(f, r, "parked", {})
      BY <2>1 DEF FireOK, Fresh
    <2> QED  BY <1>0, <1>1, <2>1, <2>2, <2>3, ParkStep DEF TokenUnavailable, At
  <1>2. CASE UNCHANGED queueVars /\ proc' = [proc EXCEPT ![f] = Report("failed", "none", {})]
    <2> DEFINE r == Report("failed", "none", {})
    <2>1. /\ r \in ProcState /\ r.pc = "done" /\ r.outcome = "failed" /\ r.own = {} /\ r.cur = NoEvent
          /\ r.watched = "none" /\ r.parked = FALSE
      BY ReportTyped, CausesTyped DEF Outcomes
    <2>2. proc' = [proc EXCEPT ![f] = r]
      BY <1>2
    <2> HIDE DEF r
    <2>3. FireOK(f, r, stage[f], verdict[f])
      BY <1>0, <2>1 DEF FireOK, Fresh
    <2> QED  BY <1>0, <1>2, <2>1, <2>2, <2>3, LocalStep DEF TokenUnavailable, At, queueVars
  <1> QED  BY <1>1, <1>2 DEF TokenUnavailable

LEMMA TokenAbsentStep ==
    ASSUME IInv, NEW f \in Fires, TokenAbsent(f)
    PROVE  IInv'
  <1> DEFINE r == Report("unpaired", "none", {})
  <1>0. FireOK(f, proc[f], stage[f], verdict[f]) /\ f \in Procs /\ proc[f].pc = "lookup"
    BY FireHas DEF TokenAbsent, At
  <1>1. proc' = [proc EXCEPT ![f] = r]
    BY DEF TokenAbsent
  <1>2. /\ r \in ProcState /\ r.pc = "done" /\ r.outcome = "unpaired" /\ r.own = {} /\ r.cur = NoEvent
        /\ r.watched = "none" /\ r.parked = FALSE
    BY ReportTyped, CausesTyped DEF Outcomes
  <1> HIDE DEF r
  <1>3. FireOK(f, r, stage[f], verdict[f])
    BY <1>2 DEF FireOK, Fresh
  <1> QED  BY <1>0, <1>1, <1>2, <1>3, LocalStep DEF TokenAbsent, At, queueVars

LEMMA TokenPresentStep ==
    ASSUME IInv, NEW f \in Fires, TokenPresent(f)
    PROVE  IInv'
  <1>0. /\ proc[f] \in ProcState /\ FireOK(f, proc[f], stage[f], verdict[f]) /\ f \in Procs
        /\ proc[f].pc = "lookup" /\ proc[f].cur = NoEvent
    BY FireHas DEF TokenPresent, At
  <1>1. CASE proc' = [proc EXCEPT ![f].pc = "park", ![f].wait = 0, ![f].first = "transport"]
    <2> DEFINE r == [proc[f] EXCEPT !.pc = "park", !.wait = 0, !.first = "transport"]
    <2>0. "transport" \in Answers /\ 0 \in Timer
      BY Timers DEF Answers, Retries
    <2>1. r \in ProcState /\ r.pc = "park" /\ r.cur = NoEvent
      BY <1>0, <2>0 DEF ProcState, Labels
    <2>2. proc' = [proc EXCEPT ![f] = r]
      BY <1>1
    <2>3. FireOK(f, r, stage[f], verdict[f])
      BY <1>0 DEF FireOK, Fresh, ProcState, Answers, Retries
    <2> HIDE DEF r
    <2> QED  BY <1>0, <2>1, <2>2, <2>3, LocalStep DEF TokenPresent, At, queueVars
  <1>2. CASE proc' = [proc EXCEPT ![f].pc = "attempt", ![f].wait = proc[f].left]
    <2> DEFINE r == [proc[f] EXCEPT !.pc = "attempt", !.wait = proc[f].left]
    <2>1. r \in ProcState /\ r.pc = "attempt" /\ r.cur = NoEvent
      BY <1>0 DEF ProcState, Labels
    <2>2. proc' = [proc EXCEPT ![f] = r]
      BY <1>2
    <2>3. FireOK(f, r, stage[f], verdict[f])
      BY <1>0 DEF FireOK, Fresh, ProcState
    <2> HIDE DEF r
    <2> QED  BY <1>0, <2>1, <2>2, <2>3, LocalStep DEF TokenPresent, At, queueVars
  <1> QED  BY <1>1, <1>2 DEF TokenPresent

-----------------------------------------------------------------------------
(* The answers of the first request, and what a failed one leads to.       *)

LEMMA FirstAnswerStep ==
    ASSUME IInv, NEW f \in Fires, FirstAnswer(f)
    PROVE  IInv'
  <1>0. /\ proc[f] \in ProcState /\ FireOK(f, proc[f], stage[f], verdict[f]) /\ f \in Procs
        /\ proc[f].pc = "attempt" /\ proc[f].cur = NoEvent /\ stage[f] = "new"
    BY FireHas DEF FirstAnswer, At, FireOK, Fresh
  <1>1. PICK a \in Answers :
            /\ verdict' = Learned(f, a)
            /\ proc' = [proc EXCEPT ![f].pc = IF a \in Retries THEN "park" ELSE "list",
                                    ![f].first = a, ![f].own = @ \cup {a}, ![f].wait = 0]
    BY DEF FirstAnswer, AnswersNow, Answers
  <1>2. PICK l \in {"park", "list"} : l = IF a \in Retries THEN "park" ELSE "list"
    OBVIOUS
  <1> DEFINE r == [proc[f] EXCEPT !.pc = l, !.first = a, !.own = @ \cup {a}, !.wait = 0]
  <1>3. proc' = [proc EXCEPT ![f] = r]
    BY <1>1, <1>2
  <1>4. r \in ProcState /\ r.pc = l /\ r.cur = NoEvent
    BY <1>0, <1>1, <1>2, Timers DEF ProcState, Labels
  <1>5. /\ verdict' \in [Fires -> SUBSET Finals]
        /\ \A e \in Fires \ {f} : verdict'[e] = verdict[e]
        /\ a \in Retries => verdict'[f] = verdict[f]
        /\ \A e \in Fires : verdict[e] # {} => verdict'[e] # {}
    BY <1>1 DEF IInv, TypeOK, Learned, Retries, Finals
  <1>6. FireOK(f, r, stage[f], verdict'[f])
    <2>1. /\ proc[f].own = {} /\ ~proc[f].parked /\ proc[f].watched = "none" /\ stage[f] = "new"
          /\ verdict[f] = {}
      BY <1>0 DEF FireOK, Fresh
    <2>2. r.own = {a} /\ r.first = a /\ r.watched = "none" /\ ~r.parked
      BY <1>0, <2>1 DEF ProcState
    <2>3. a # "none"
      BY DEF Answers, Finals, Retries
    <2> HIDE DEF r
    <2> QED  BY <1>2, <1>4, <1>5, <2>1, <2>2, <2>3 DEF FireOK, Fresh
  <1> HIDE DEF r
  <1>7. proc' \in [Procs -> ProcState] /\ proc'[f] = r /\ \A q \in Procs \ {f} : proc'[q] = proc[q]
    BY <1>0, <1>3, <1>4, ProcMoves DEF IInv, TypeOK
  <1>8. UNCHANGED <<healthy, stage, holds, lapsed, evicted, mishaps>>
    BY DEF FirstAnswer, queueVars
  <1>9. TypeOK' /\ OneHolder'
    BY <1>5, <1>7, <1>8 DEF IInv, TypeOK, OneHolder
  <1>10. \A q \in Procs : HoldsOK(q)'
    <2> SUFFICES ASSUME NEW q \in Procs PROVE HoldsOK(q)'
      OBVIOUS
    <2>1. HoldsOK(q) /\ (At(q, "settle") => proc[q].cur \in Fires)
      BY DEF IInv, HoldsOK, RequestOK, At
    <2>2. CASE q = f
      BY <1>0, <1>2, <1>4, <1>7, <1>8, <2>1, <2>2 DEF HoldsOK, RequestOK, At
    <2>3. CASE q # f
      BY <1>5, <1>7, <1>8, <2>1, <2>3 DEF HoldsOK, RequestOK, At
    <2> QED  BY <2>2, <2>3
  <1>11. \A e \in Fires : EventOK(e)'
    <2>1. holds[f] = NoEvent
      BY <1>0 DEF IInv, HoldsOK
    <2>2. \A q \in Procs : holds[q] # NoEvent => holds'[q] = holds[q] /\ proc'[q] = proc[q]
      BY <1>7, <1>8, <2>1
    <2>3. ASSUME NEW e \in Fires \ {f} PROVE EventOK(e)'
      BY <1>5, <1>8, <2>2, <2>3, EventKept, Parties DEF IInv
    <2>4. EventOK(f)'
      BY <1>0, <1>8 DEF EventOK
    <2> QED  BY <2>3, <2>4
  <1>12. \A e \in Fires : FireOK(e, proc'[e], stage'[e], verdict'[e])
    BY <1>5, <1>6, <1>7, <1>8, Parties DEF IInv
  <1>13. \A e \in Fires : FireOK(e, proc[e], stage[e], verdict[e])'
    BY <1>12 DEF FireOK
  <1> QED  BY <1>9, <1>10, <1>11, <1>13 DEF IInv

LEMMA ParkOwnStep ==
    ASSUME IInv, NEW f \in Fires, ParkOwn(f)
    PROVE  IInv'
  <1>0. /\ proc[f] \in ProcState /\ FireOK(f, proc[f], stage[f], verdict[f]) /\ f \in Procs
        /\ proc[f].pc = "park" /\ proc[f].cur = NoEvent /\ verdict[f] = {}
    BY FireHas DEF ParkOwn, At, FireOK, Fresh
  <1>1. CASE Queue!Park(f) /\ proc' = [proc EXCEPT ![f].pc = "list", ![f].parked = TRUE]
    <2> DEFINE r == [proc[f] EXCEPT !.pc = "list", !.parked = TRUE]
    <2>1. r \in ProcState /\ r.pc = "list" /\ r.cur = NoEvent
      BY <1>0 DEF ProcState, Labels
    <2>2. proc' = [proc EXCEPT ![f] = r]
      BY <1>1
    <2>3. FireOK(f, r, "parked", {})
      <3>1. /\ r.first = proc[f].first /\ r.own = proc[f].own /\ r.watched = proc[f].watched
            /\ r.parked = TRUE
        BY <1>0 DEF ProcState
      <3> HIDE DEF r
      <3> QED  BY <1>0, <2>1, <3>1 DEF FireOK, Fresh
    <2> HIDE DEF r
    <2> QED  BY <1>0, <1>1, <2>1, <2>2, <2>3, ParkStep DEF ParkOwn, At
  <1>2. CASE UNCHANGED queueVars /\ proc' = [proc EXCEPT ![f].pc = "list"]
    <2> DEFINE r == [proc[f] EXCEPT !.pc = "list"]
    <2>1. r \in ProcState /\ r.pc = "list" /\ r.cur = NoEvent
      BY <1>0 DEF ProcState, Labels
    <2>2. proc' = [proc EXCEPT ![f] = r]
      BY <1>2
    <2>3. FireOK(f, r, stage[f], verdict[f])
      <3>1. /\ r.first = proc[f].first /\ r.own = proc[f].own /\ r.watched = proc[f].watched
            /\ r.parked = proc[f].parked
        BY <1>0 DEF ProcState
      <3> HIDE DEF r
      <3> QED  BY <1>0, <2>1, <3>1 DEF FireOK, Fresh
    <2> HIDE DEF r
    <2> QED  BY <1>0, <1>2, <2>1, <2>2, <2>3, LocalStep DEF ParkOwn, At, queueVars
  <1> QED  BY <1>1, <1>2 DEF ParkOwn

-----------------------------------------------------------------------------
(* The drain.                                                              *)

\* What the invariant says of the process p that takes the step.
LEMMA ProcHas ==
    ASSUME IInv, NEW p \in Procs
    PROVE  /\ proc[p] \in ProcState /\ proc \in [Procs -> ProcState] /\ HoldsOK(p)
           /\ proc[p].pc \notin {"post", "settle"} => proc[p].cur = NoEvent
           /\ p \in Fires => FireOK(p, proc[p], stage[p], verdict[p])
  BY DEF IInv, TypeOK, HoldsOK, RequestOK, At

\* A process drains on: its record differs only in what the drain works on.
LEMMA DrainKept ==
    ASSUME NEW f, NEW r, NEW u, NEW s, NEW v, FireOK(f, r, s, v),
           r.pc \in {"list", "drain", "post", "settle"}, u.pc \in {"drain", "post", "settle"},
           u.first = r.first, u.own = r.own, u.watched = r.watched, u.parked = r.parked,
           r.watched # "none" => f \notin u.todo /\ (u.cur = f => u.pc = "settle")
    PROVE  FireOK(f, u, s, v)
  BY DEF FireOK, Fresh

LEMMA ListQueueStep ==
    ASSUME IInv, NEW p \in Procs, ListQueue(p)
    PROVE  IInv'
  <1>0. /\ proc[p] \in ProcState /\ proc[p].pc = "list" /\ proc[p].cur = NoEvent
        /\ p \in Fires => FireOK(p, proc[p], stage[p], verdict[p])
    BY ProcHas DEF ListQueue, At
  <1>1. PICK S \in SUBSET Fires : proc' = [proc EXCEPT ![p].pc = "drain", ![p].todo = S]
    BY DEF ListQueue
  <1> DEFINE r == [proc[p] EXCEPT !.pc = "drain", !.todo = S]
  <1>2. proc' = [proc EXCEPT ![p] = r]
    BY <1>1
  <1>3. /\ r \in ProcState /\ r.pc = "drain" /\ r.cur = NoEvent
        /\ r.first = proc[p].first /\ r.own = proc[p].own /\ r.watched = proc[p].watched
        /\ r.parked = proc[p].parked
    BY <1>0 DEF ProcState, Labels
  <1> HIDE DEF r
  <1>4. p \in Fires => proc[p].watched = "none"
    BY <1>0 DEF FireOK, Fresh
  <1>5. p \in Fires => FireOK(p, r, stage[p], verdict[p])
    BY <1>0, <1>3, <1>4, DrainKept
  <1> QED  BY <1>0, <1>2, <1>3, <1>5, LocalStep DEF ListQueue, At, queueVars

LEMMA TakeStep ==
    ASSUME IInv, NEW p \in Procs, Take(p)
    PROVE  IInv'
  <1>0. /\ proc[p] \in ProcState /\ proc[p].pc = "drain" /\ proc[p].cur = NoEvent
        /\ proc[p].todo \subseteq Fires
        /\ p \in Fires => FireOK(p, proc[p], stage[p], verdict[p])
    BY ProcHas DEF Take, At, ProcState
  <1>1. UNCHANGED <<healthy, verdict, lapsed, evicted, mishaps>>
    BY DEF Take
  <1>2. ASSUME NEW e \in proc[p].todo, Queue!Take(p, e),
               proc' = [proc EXCEPT ![p].pc = "post", ![p].todo = @ \ {e}, ![p].cur = e,
                                    ![p].wait = Greatest(1, proc[p].left)]
        PROVE  IInv'
    <2> DEFINE r == [proc[p] EXCEPT !.pc = "post", !.todo = @ \ {e}, !.cur = e,
                                    !.wait = Greatest(1, proc[p].left)]
    <2>1. proc' = [proc EXCEPT ![p] = r]
      BY <1>2
    <2>2. Greatest(1, proc[p].left) \in Timer
      BY <1>0, Timers DEF Greatest, ProcState
    <2>3. /\ r \in ProcState /\ r.pc = "post" /\ r.cur = e /\ r.todo = proc[p].todo \ {e}
          /\ r.first = proc[p].first /\ r.own = proc[p].own /\ r.watched = proc[p].watched
          /\ r.parked = proc[p].parked
      BY <1>0, <2>2 DEF ProcState, Labels
    <2> HIDE DEF r
    <2>4. p \in Fires => FireOK(p, r, stage[p], verdict[p])
      <3>1. p \in Fires /\ proc[p].watched # "none" => p \notin proc[p].todo
        BY <1>0 DEF FireOK
      <3> QED  BY <1>0, <2>3, <3>1, DrainKept
    <2>5. e \in Fires /\ e # NoEvent
      BY <1>0, Parties
    <2>6. /\ stage[e] = "parked" /\ stage'[e] = "taken"
          /\ \A d \in Fires \ {e} : stage'[d] = stage[d]
          /\ stage' \in [Fires -> Queue!Stages]
      BY <1>2, <2>5 DEF Queue!Take, Queue!Stages, IInv, TypeOK
    <2>7. /\ holds[p] = NoEvent /\ holds'[p] = e /\ \A q \in Procs \ {p} : holds'[q] = holds[q]
          /\ holds' \in [Procs -> Fires \cup {NoEvent}]
      BY <1>2, <2>5 DEF Queue!Take, IInv, TypeOK
    <2>8. \A q \in Procs : holds[q] # e
      BY <2>5, <2>6 DEF IInv, HoldsOK
    <2>9. proc'[p] = r /\ proc' \in [Procs -> ProcState] /\ \A q \in Procs \ {p} : proc'[q] = proc[q]
      BY <2>1, <2>3, ProcMoves DEF IInv, TypeOK
    <2>10. TypeOK' /\ OneHolder'
      BY <1>1, <2>5, <2>6, <2>7, <2>8, <2>9 DEF IInv, TypeOK, OneHolder
    <2>11. HoldsOK(p)'
      BY <2>3, <2>5, <2>6, <2>7, <2>9 DEF HoldsOK, RequestOK, At
    <2>12. ASSUME NEW q \in Procs \ {p}
           PROVE  HoldsOK(q)'
      <3>1. HoldsOK(q) /\ holds[q] \in Fires \cup {NoEvent}
        BY DEF IInv, TypeOK
      <3> QED  BY <1>1, <2>6, <2>7, <2>8, <2>9, <3>1 DEF HoldsOK, RequestOK, At
    <2>13. EventOK(e)'
      <3>1. ~Closing(e)
        BY <2>8 DEF Closing
      <3> QED  BY <1>1, <2>5, <2>6, <3>1 DEF EventOK, IInv
    <2>14. \A q \in Procs : holds[q] \notin {e, NoEvent} => holds'[q] = holds[q] /\ proc'[q] = proc[q]
      BY <2>7, <2>9
    <2> QED  BY <1>1, <2>1, <2>3, <2>4, <2>5, <2>6, <2>10, <2>11, <2>12, <2>13, <2>14, QueueStep
  <1>3. ASSUME NEW e \in proc[p].todo, UNCHANGED queueVars,
               proc' = [proc EXCEPT ![p].todo = @ \ {e}]
        PROVE  IInv'
    <2> DEFINE r == [proc[p] EXCEPT !.todo = @ \ {e}]
    <2>1. proc' = [proc EXCEPT ![p] = r]
      BY <1>3
    <2>2. /\ r \in ProcState /\ r.pc = "drain" /\ r.cur = NoEvent /\ r.todo = proc[p].todo \ {e}
          /\ r.first = proc[p].first /\ r.own = proc[p].own /\ r.watched = proc[p].watched
          /\ r.parked = proc[p].parked
      BY <1>0 DEF ProcState, Labels
    <2> HIDE DEF r
    <2>3. p \in Fires => FireOK(p, r, stage[p], verdict[p])
      <3>1. p \in Fires /\ proc[p].watched # "none" => p \notin proc[p].todo
        BY <1>0 DEF FireOK
      <3> QED  BY <1>0, <2>2, <3>1, Parties, DrainKept
    <2> QED  BY <1>0, <1>1, <1>3, <2>1, <2>2, <2>3, LocalStep DEF At, queueVars
  <1> QED  BY <1>2, <1>3 DEF Take

\* A process that has learned the answer to its request keeps its claim.
LEMMA DrainAnswerStep ==
    ASSUME IInv, NEW p \in Procs, DrainAnswer(p)
    PROVE  IInv'
  <1>0. /\ proc[p] \in ProcState /\ proc[p].pc = "post" /\ HoldsOK(p)
        /\ proc[p].cur \notin proc[p].todo
        /\ p \in Fires => FireOK(p, proc[p], stage[p], verdict[p])
    BY ProcHas DEF DrainAnswer, At, HoldsOK, RequestOK
  <1>1. PICK x \in Fires : x = proc[p].cur
    BY <1>0 DEF HoldsOK, RequestOK
  <1>2. PICK mine \in BOOLEAN : mine <=> (proc[p].parked /\ proc[p].cur = p)
    OBVIOUS
  <1>3. PICK a \in Answers :
            /\ verdict' = Learned(x, a)
            /\ proc' = [proc EXCEPT ![p].pc = "settle", ![p].got = a, ![p].wait = 0,
                                    ![p].watched = IF mine THEN a ELSE @,
                                    ![p].own = IF mine THEN @ \cup {a} ELSE @]
    BY <1>1, <1>2 DEF DrainAnswer, AnswersNow, Answers
  <1> DEFINE r == [proc[p] EXCEPT !.pc = "settle", !.got = a, !.wait = 0,
                                  !.watched = IF mine THEN a ELSE @,
                                  !.own = IF mine THEN @ \cup {a} ELSE @]
  <1>4. proc' = [proc EXCEPT ![p] = r]
    BY <1>3
  <1>5. /\ r \in ProcState /\ r.pc = "settle" /\ r.cur = x /\ r.todo = proc[p].todo
        /\ r.first = proc[p].first /\ r.parked = proc[p].parked /\ r.got = a
        /\ mine => r.watched = a /\ r.own = proc[p].own \cup {a}
        /\ ~mine => r.watched = proc[p].watched /\ r.own = proc[p].own
    <2>1. PICK w, o : /\ w = IF mine THEN a ELSE proc[p].watched
                      /\ o = IF mine THEN proc[p].own \cup {a} ELSE proc[p].own
      OBVIOUS
    <2>2. w \in Answers \cup {"none"} /\ o \in SUBSET Answers
      BY <1>0, <1>3, <2>1 DEF ProcState
    <2>3. r = [proc[p] EXCEPT !.pc = "settle", !.got = a, !.wait = 0, !.watched = w, !.own = o]
      BY <2>1
    <2>4. 0 \in Timer
      BY Timers
    <2> HIDE DEF r
    <2>5. r \in ProcState
      BY <1>0, <1>3, <2>2, <2>3, <2>4, ZenonT(60) DEF ProcState, Labels
    <2>6. /\ r.pc = "settle" /\ r.cur = proc[p].cur /\ r.todo = proc[p].todo /\ r.got = a
          /\ r.first = proc[p].first /\ r.parked = proc[p].parked /\ r.watched = w /\ r.own = o
      BY <1>0, <2>3 DEF ProcState
    <2> QED  BY <1>1, <2>1, <2>5, <2>6
  <1> HIDE DEF r
  <1>6. p \in Fires => FireOK(p, r, stage[p], verdict[p])
    <2> SUFFICES ASSUME p \in Fires PROVE FireOK(p, r, stage[p], verdict[p])
      OBVIOUS
    <2>1. CASE mine
      <3>1. /\ proc[p].cur = p /\ proc[p].watched = "none" /\ proc[p].parked
            /\ p \notin proc[p].todo
        BY <1>0, <1>2, <2>1 DEF FireOK
      <3>2. a # "none"
        BY DEF Answers, Finals, Retries
      <3>3. r.own \ {"transport"} = {r.first, a} \ {"none", "transport"}
        BY <1>0, <1>5, <2>1, <3>1, <3>2 DEF FireOK
      <3> QED  BY <1>0, <1>5, <2>1, <3>1, <3>3 DEF FireOK, Fresh
    <2>2. CASE ~mine
      <3>1. proc[p].watched # "none" => p \notin proc[p].todo
        BY <1>0 DEF FireOK
      <3> QED  BY <1>0, <1>5, <2>2, <3>1, DrainKept
    <2> QED  BY <2>1, <2>2
  <1>7. UNCHANGED <<healthy, stage, holds, lapsed, evicted, mishaps>>
    BY DEF DrainAnswer, queueVars
  <1>8. proc'[p] = r /\ proc' \in [Procs -> ProcState] /\ \A q \in Procs \ {p} : proc'[q] = proc[q]
    BY <1>4, <1>5, ProcMoves DEF IInv, TypeOK
  <1>9. /\ verdict' \in [Fires -> SUBSET Finals] /\ \A e \in Fires \ {x} : verdict'[e] = verdict[e]
        /\ a \in Finals => verdict'[x] # {}
        /\ a \notin Finals => verdict'[x] = verdict[x]
        /\ \A e \in Fires : verdict[e] # {} => verdict'[e] # {}
    BY <1>3 DEF IInv, TypeOK, Learned
  <1>10. TypeOK' /\ OneHolder'
    BY <1>7, <1>8, <1>9 DEF IInv, TypeOK, OneHolder
  <1>11. holds[p] \in {x, NoEvent} /\ stage[x] # "new" /\ (holds[p] = x \/ stage[x] = "gone")
    BY <1>0, <1>1, Parties DEF HoldsOK
  <1>12. HoldsOK(p)'
    BY <1>0, <1>1, <1>5, <1>7, <1>8, <1>9 DEF HoldsOK, RequestOK, At
  <1>13. ASSUME NEW q \in Procs \ {p}
         PROVE  HoldsOK(q)'
    <2>1. HoldsOK(q)
      BY DEF IInv
    <2> QED  BY <1>7, <1>8, <1>9, <2>1 DEF HoldsOK, RequestOK, At
  <1>14. EventOK(x)'
    <2>1. Closing(x) => Closing(x)'
      <3> SUFFICES ASSUME NEW q \in Procs, holds[q] = x, At(q, "settle"), proc[q].got \in Finals
                   PROVE  Closing(x)'
        BY DEF Closing
      <3>1. q # p
        BY <1>0 DEF At
      <3> QED  BY <1>7, <1>8, <3>1 DEF Closing, At
    <2>2. a \in Finals => stage[x] = "gone" \/ Closing(x)'
      BY <1>5, <1>7, <1>8, <1>11 DEF Closing, At
    <2>3. EventOK(x)
      BY DEF IInv
    <2> QED  BY <1>7, <1>9, <2>1, <2>2, <2>3 DEF EventOK
  <1>15. \A q \in Procs : holds[q] \notin {x, NoEvent} => holds'[q] = holds[q] /\ proc'[q] = proc[q]
    BY <1>7, <1>8, <1>11
  <1> QED  BY <1>4, <1>5, <1>6, <1>7, <1>9, <1>10, <1>11, <1>12, <1>13, <1>14, <1>15, QueueStep

\* What settling does to the event x that p holds: it leaves the queue, is given
\* back after a retry, or its claim stays behind.
LEMMA SettleQueue ==
    ASSUME IInv, NEW p \in Procs, Settle(p), NEW x, x = proc[p].cur, holds[p] = x
    PROVE  /\ stage[x] = "taken" /\ stage' \in [Fires -> Queue!Stages]
           /\ holds' \in [Procs -> Fires \cup {NoEvent}]
           /\ \A e \in Fires \ {x} : stage'[e] = stage[e]
           /\ holds'[p] = NoEvent /\ \A q \in Procs \ {p} : holds'[q] = holds[q] /\ holds[q] # x
           /\ lapsed \subseteq lapsed' /\ lapsed' \subseteq Fires /\ mishaps' \in 0 .. MaxMishaps
           /\ \/ proc[p].got \in Finals /\ stage'[x] = "gone"
              \/ proc[p].got \notin Finals /\ stage'[x] = "parked"
              \/ stage'[x] = "taken" /\ (proc[p].got \in Finals => x \in lapsed')
  <1>0. /\ x \in Fires /\ x # NoEvent /\ HoldsOK(p) /\ stage[x] = "taken"
        /\ stage \in [Fires -> Queue!Stages] /\ holds \in [Procs -> Fires \cup {NoEvent}]
        /\ lapsed \subseteq Fires /\ mishaps \in 0 .. MaxMishaps
    BY Parties DEF IInv, TypeOK, HoldsOK, RequestOK, At, Settle
  <1>1. \A q \in Procs \ {p} : holds[q] # x
    BY <1>0 DEF IInv, OneHolder
  <1>2. CASE Release(p) /\ UNCHANGED <<lapsed, mishaps>>
    <2>1. CASE proc[p].got \in Finals
      <3>1. Queue!Finish(x)
        BY <1>2, <2>1 DEF Release
      <3> QED  BY <1>0, <1>1, <1>2, <2>1, <3>1 DEF Queue!Finish, Queue!Stages
    <2>2. CASE proc[p].got \notin Finals
      <3>1. Queue!GiveBack(p, x)
        BY <1>2, <2>2 DEF Release
      <3> QED  BY <1>0, <1>1, <1>2, <2>2, <3>1 DEF Queue!GiveBack, Queue!Stages
    <2> QED  BY <2>1, <2>2
  <1>3. CASE mishaps < MaxMishaps /\ mishaps' = mishaps + 1 /\ LeaveClaim(p)
    <2>1. mishaps' \in 0 .. MaxMishaps
      BY <1>0, <1>3, Numbers
    <2>2. stage' = stage /\ holds' = [holds EXCEPT ![p] = NoEvent]
      BY <1>3 DEF LeaveClaim, Queue!Abandon
    <2>3. lapsed' = IF proc[p].got \in Finals THEN lapsed \cup {x} ELSE lapsed
      BY <1>3 DEF LeaveClaim
    <2> QED  BY <1>0, <1>1, <2>1, <2>2, <2>3
  <1> QED  BY <1>2, <1>3 DEF Settle

LEMMA SettleStep ==
    ASSUME IInv, NEW p \in Procs, Settle(p)
    PROVE  IInv'
  <1>0. /\ proc[p] \in ProcState /\ proc[p].pc = "settle" /\ HoldsOK(p) /\ EventOK(proc[p].cur)
        /\ p \in Fires => FireOK(p, proc[p], stage[p], verdict[p])
        /\ proc[p].cur \in Fires
    BY ProcHas DEF Settle, At, HoldsOK, RequestOK, IInv
  <1>1. PICK x \in Fires : x = proc[p].cur
    BY <1>0
  <1> DEFINE r == [proc[p] EXCEPT !.pc = "drain", !.cur = NoEvent, !.got = "none"]
  <1>2. proc' = [proc EXCEPT ![p] = r]
    BY DEF Settle
  <1>3. /\ r \in ProcState /\ r.pc = "drain" /\ r.cur = NoEvent /\ r.todo = proc[p].todo
        /\ r.first = proc[p].first /\ r.parked = proc[p].parked /\ r.got = "none"
        /\ r.watched = proc[p].watched /\ r.own = proc[p].own
    BY <1>0 DEF ProcState, Labels
  <1> HIDE DEF r
  <1>4. p \in Fires => FireOK(p, r, stage[p], verdict[p])
    <2>1. p \in Fires /\ proc[p].watched # "none" => p \notin proc[p].todo
      BY <1>0 DEF FireOK
    <2> QED  BY <1>0, <1>3, <2>1, Parties, DrainKept
  <1>5. UNCHANGED <<healthy, verdict, evicted>>
    BY DEF Settle
  <1>6. proc'[p] = r /\ proc' \in [Procs -> ProcState] /\ \A q \in Procs \ {p} : proc'[q] = proc[q]
    BY <1>2, <1>3, ProcMoves DEF IInv, TypeOK
  <1>7. /\ stage[x] # "new" /\ stage'[x] # "new" /\ holds[p] \in {x, NoEvent}
        /\ stage' \in [Fires -> Queue!Stages] /\ holds' \in [Procs -> Fires \cup {NoEvent}]
        /\ \A e \in Fires \ {x} : stage'[e] = stage[e]
        /\ holds'[p] = NoEvent /\ \A q \in Procs \ {p} : holds'[q] = holds[q]
        /\ \A q \in Procs \ {p} : holds[q] = x => stage'[x] = stage[x]
        /\ lapsed \subseteq lapsed' /\ lapsed' \subseteq Fires /\ mishaps' \in 0 .. MaxMishaps
        /\ stage[x] = "gone" => stage'[x] = "gone"
        /\ EventOK(x)'
    <2>1. CASE holds[p] # x
      <3>1. /\ stage[x] = "gone" /\ holds[p] = NoEvent
            /\ UNCHANGED <<stage, holds, lapsed, mishaps>>
        BY <1>0, <1>1, <2>1 DEF HoldsOK, Settle, queueVars
      <3>2. EventOK(x)'
        BY <1>0, <1>1, <1>5, <3>1 DEF EventOK
      <3> QED  BY <3>1, <3>2 DEF IInv, TypeOK
    <2>2. CASE holds[p] = x
      <3>1. /\ stage[x] = "taken" /\ stage' \in [Fires -> Queue!Stages]
            /\ holds' \in [Procs -> Fires \cup {NoEvent}]
            /\ \A e \in Fires \ {x} : stage'[e] = stage[e]
            /\ holds'[p] = NoEvent
            /\ \A q \in Procs \ {p} : holds'[q] = holds[q] /\ holds[q] # x
            /\ lapsed \subseteq lapsed' /\ lapsed' \subseteq Fires /\ mishaps' \in 0 .. MaxMishaps
            /\ \/ proc[p].got \in Finals /\ stage'[x] = "gone"
               \/ proc[p].got \notin Finals /\ stage'[x] = "parked"
               \/ stage'[x] = "taken" /\ (proc[p].got \in Finals => x \in lapsed')
        BY <1>1, <2>2, SettleQueue
      <3>2. Closing(x) => proc[p].got \in Finals
        BY <3>1 DEF Closing
      <3>3. proc[p].got \in Finals => verdict[x] # {}
        BY <1>0, <1>1 DEF HoldsOK, At
      <3>4. EventOK(x)'
        BY <1>0, <1>1, <1>5, <3>1, <3>2, <3>3 DEF EventOK
      <3> QED  BY <2>2, <3>1, <3>4
    <2> QED  BY <2>1, <2>2
  <1>8. TypeOK' /\ OneHolder'
    BY <1>5, <1>6, <1>7 DEF IInv, TypeOK, OneHolder
  <1>9. HoldsOK(p)'
    BY <1>3, <1>6, <1>7 DEF HoldsOK, RequestOK, At
  <1>10. ASSUME NEW q \in Procs \ {p}
         PROVE  HoldsOK(q)'
    <2>1. HoldsOK(q) /\ holds[q] \in Fires \cup {NoEvent}
      BY DEF IInv, TypeOK
    <2> QED  BY <1>5, <1>6, <1>7, <2>1 DEF HoldsOK, RequestOK, At
  <1>11. \A q \in Procs : holds[q] \notin {x, NoEvent} => holds'[q] = holds[q] /\ proc'[q] = proc[q]
    BY <1>6, <1>7
  <1> QED  BY <1>2, <1>3, <1>4, <1>5, <1>7, <1>8, <1>9, <1>10, <1>11, QueueStep

-----------------------------------------------------------------------------
(* What the call reports.                                                  *)

\* The outcome and the cause follow from the two attempts a call can make.
LEMMA OutcomeIs ==
    ASSUME NEW f, NEW r, NEW s, NEW v, FireOK(f, r, s, v), r \in ProcState, r.pc = "drain"
    PROVE  /\ Outcome(r) \in Outcomes /\ Cause(r) \in Retries \cup {"token_store", "none"}
           /\ Outcome(r) = "delivered" <=> "delivered" \in r.own
           /\ Outcome(r) = "dropped" <=> "drop" \in r.own
           /\ Outcome(r) = "failed" => s = "new"
           /\ Outcome(r) = "queued" =>
                  /\ s # "new"
                  /\ Cause(r) = "backend" <=> "backend" \in r.own
                  /\ Cause(r) # "none"
  <1>0. /\ r.first \in Answers /\ r.watched \in Answers \cup {"none"}
        /\ r.own \ {"transport"} = {r.first, r.watched} \ {"none", "transport"}
        /\ r.first \in Retries /\ ~r.parked => s = "new"
        /\ r.parked => r.first \in Retries /\ s # "new"
        /\ r.watched # "none" => r.parked
    BY DEF FireOK, ProcState
  <1>1. \A b \in {"delivered", "drop", "backend"} : b \in r.own <=> (r.first = b \/ r.watched = b)
    BY <1>0
  <1>2. Answers = {"delivered", "drop", "backend", "transport"} /\ Retries = {"backend", "transport"}
    BY DEF Answers, Finals, Retries
  <1>3. /\ OutcomeOf("delivered") = "delivered" /\ OutcomeOf("drop") = "dropped"
        /\ OutcomeOf("backend") = "queued" /\ OutcomeOf("transport") = "queued"
    BY DEF OutcomeOf, Retries
  <1>4. CASE r.watched # "none"
    <2>1. Outcome(r) = OutcomeOf(r.watched) /\ LastAttempt(r) = r.watched
      BY <1>4 DEF Outcome, LastAttempt
    <2>2. r.first \in Retries /\ s # "new"
      BY <1>0, <1>4
    <2>3. Evidence(r) = IF r.watched = "transport" /\ r.first = "backend" THEN "backend" ELSE r.watched
      BY <1>0, <1>2, <1>4, <2>1, <2>2 DEF Evidence, HasStatus
    <2>4. Cause(r) = IF Outcome(r) = "queued" THEN Evidence(r) ELSE "none"
      BY DEF Cause
    <2> QED  BY <1>0, <1>1, <1>2, <1>3, <1>4, <2>1, <2>2, <2>3, <2>4 DEF Outcomes
  <1>5. CASE r.watched = "none"
    <2>1. Outcome(r) = IF r.first \in Retries /\ ~r.parked THEN "failed" ELSE OutcomeOf(r.first)
      BY <1>5 DEF Outcome
    <2>2. Evidence(r) = r.first
      BY <1>0, <1>2, <1>5 DEF Evidence, HasStatus, LastAttempt
    <2>3. Cause(r) = IF Outcome(r) = "queued" THEN Evidence(r) ELSE "none"
      BY DEF Cause
    <2> QED  BY <1>0, <1>1, <1>2, <1>3, <1>5, <2>1, <2>2, <2>3 DEF Outcomes
  <1> QED  BY <1>4, <1>5

LEMMA ReturnStep ==
    ASSUME IInv, NEW f \in Fires, Return(f)
    PROVE  IInv'
  <1>0. /\ proc[f] \in ProcState /\ FireOK(f, proc[f], stage[f], verdict[f]) /\ f \in Procs
        /\ proc[f].pc = "drain"
    BY FireHas DEF Return, Drained, At
  <1>1. PICK o, c, w : o = Outcome(proc[f]) /\ c = Cause(proc[f]) /\ w = proc[f].own
    OBVIOUS
  <1>2. /\ o \in Outcomes /\ c \in Retries \cup {"token_store", "none"} /\ w \in SUBSET Answers
        /\ o = "delivered" <=> "delivered" \in w
        /\ o = "dropped" <=> "drop" \in w
        /\ o = "failed" => stage[f] = "new"
        /\ o = "queued" => stage[f] # "new" /\ (c = "backend" <=> "backend" \in w) /\ c # "none"
    BY <1>0, <1>1, OutcomeIs DEF ProcState
  <1> DEFINE r == Report(o, c, w)
  <1>3. proc' = [proc EXCEPT ![f] = r]
    BY <1>1 DEF Return
  <1>4. /\ r \in ProcState /\ r.pc = "done" /\ r.outcome = o /\ r.cause = c /\ r.own = w
        /\ r.cur = NoEvent /\ r.watched = "none" /\ r.parked = FALSE
    BY <1>2, ReportTyped
  <1> HIDE DEF r
  <1>5. FireOK(f, r, stage[f], verdict[f])
    BY <1>2, <1>4 DEF FireOK, Fresh
  <1> QED  BY <1>0, <1>3, <1>4, <1>5, LocalStep DEF Return, At, queueVars

-----------------------------------------------------------------------------
(* The drainers.                                                           *)

LEMMA DrainerStep ==
    ASSUME IInv, NEW d \in Drainers, StartDrain(d) \/ DrainLookup(d) \/ EndDrainNow(d)
    PROVE  IInv'
  <1>0. /\ d \in Procs /\ d \notin Fires /\ proc[d] \in ProcState /\ proc[d].pc \notin {"post", "settle"}
        /\ proc[d].cur = NoEvent
    BY Parties, ProcHas DEF Procs, StartDrain, DrainLookup, EndDrainNow, Drained, At
  <1>1. UNCHANGED <<healthy, stage, holds, verdict, lapsed, evicted, mishaps>>
    BY DEF StartDrain, DrainLookup, EndDrainNow, queueVars
  <1>2. \E r \in ProcState : proc' = [proc EXCEPT ![d] = r] /\ r.pc \notin {"post", "settle"} /\ r.cur = NoEvent
    <2>1. CASE proc' = [proc EXCEPT ![d].pc = "lookup", ![d].wait = LookupMax]
      <3> DEFINE r == [proc[d] EXCEPT !.pc = "lookup", !.wait = LookupMax]
      <3>1. r \in ProcState /\ r.pc = "lookup" /\ r.cur = NoEvent
        BY <1>0, Timers DEF ProcState, Labels
      <3>2. proc' = [proc EXCEPT ![d] = r]
        BY <2>1
      <3> HIDE DEF r
      <3> QED  BY <3>1, <3>2
    <2>2. CASE proc' = [proc EXCEPT ![d] = [Resting EXCEPT !.pc = "list", !.left = TotalBudget]]
      <3>0. PICK z \in ProcState : z = Resting
        BY RestingTyped
      <3> DEFINE r == [z EXCEPT !.pc = "list", !.left = TotalBudget]
      <3>1. r \in ProcState /\ r.pc = "list" /\ r.cur = NoEvent
        BY <3>0, RestingTyped, Timers, ZenonT(60) DEF ProcState, Labels
      <3>2. proc' = [proc EXCEPT ![d] = r]
        BY <2>2, <3>0
      <3> HIDE DEF r
      <3> QED  BY <3>1, <3>2
    <2>3. CASE proc' = [proc EXCEPT ![d] = Resting]
      BY <2>3, RestingTyped
    <2> QED  BY <2>1, <2>2, <2>3 DEF StartDrain, DrainLookup, EndDrainNow
  <1> QED  BY <1>0, <1>1, <1>2, LocalStep

-----------------------------------------------------------------------------
(* The environment.                                                        *)

\* Timers and the health of the machine are nothing the invariant speaks of.
LEMMA TimerStep ==
    ASSUME IInv, UNCHANGED <<stage, holds, verdict, lapsed, evicted, mishaps>>, healthy' \in BOOLEAN,
           proc' \in [Procs -> ProcState],
           \A p \in Procs :
               /\ proc'[p].pc = proc[p].pc /\ proc'[p].cur = proc[p].cur
               /\ proc'[p].todo = proc[p].todo /\ proc'[p].first = proc[p].first
               /\ proc'[p].watched = proc[p].watched /\ proc'[p].parked = proc[p].parked
               /\ proc'[p].own = proc[p].own /\ proc'[p].outcome = proc[p].outcome
               /\ proc'[p].cause = proc[p].cause /\ proc'[p].got = proc[p].got
    PROVE  IInv'
  <1>1. TypeOK' /\ OneHolder'
    BY DEF IInv, TypeOK, OneHolder
  <1>2. \A p \in Procs : HoldsOK(p)'
    BY DEF IInv, HoldsOK, RequestOK, At
  <1>3. \A e \in Fires : EventOK(e)'
    BY DEF IInv, EventOK, Closing, At
  <1>4. ASSUME NEW e \in Fires
        PROVE  FireOK(e, proc[e], stage[e], verdict[e])'
    <2>1. FireOK(e, proc[e], stage[e], verdict[e]) /\ e \in Procs
      BY FireHas
    <2> QED  BY <2>1 DEF FireOK
  <1> QED  BY <1>1, <1>2, <1>3, <1>4 DEF IInv

LEMMA OlderTyped ==
    ASSUME NEW p \in Procs, proc[p] \in ProcState
    PROVE  /\ Older(p) \in ProcState
           /\ Older(p).age = IF p \in Fires THEN Least(proc[p].age + 1, MaxAge) ELSE proc[p].age
           /\ Older(p).left = Minus(proc[p].left, 1) /\ Older(p).wait = Minus(proc[p].wait, 1)
           /\ Older(p).pc = proc[p].pc /\ Older(p).cur = proc[p].cur
           /\ Older(p).todo = proc[p].todo /\ Older(p).first = proc[p].first
           /\ Older(p).watched = proc[p].watched /\ Older(p).parked = proc[p].parked
           /\ Older(p).own = proc[p].own /\ Older(p).outcome = proc[p].outcome
           /\ Older(p).cause = proc[p].cause /\ Older(p).got = proc[p].got
  <1>1. \A t \in Timer : Minus(t, 1) \in Timer
    BY Numbers DEF Minus, Timer
  <1>2. \A t \in 0 .. MaxAge : Least(t + 1, MaxAge) \in 0 .. MaxAge
    BY Numbers DEF Least, MaxAge
  <1>3. PICK a \in 0 .. MaxAge : a = IF p \in Fires THEN Least(proc[p].age + 1, MaxAge)
                                     ELSE proc[p].age
    BY <1>2 DEF ProcState
  <1>4. PICK l \in Timer, w \in Timer : l = Minus(proc[p].left, 1) /\ w = Minus(proc[p].wait, 1)
    BY <1>1 DEF ProcState
  <1>5. Older(p) = [proc[p] EXCEPT !.age = a, !.left = l, !.wait = w]
    BY <1>3, <1>4 DEF Older
  <1>6. Older(p) \in ProcState
    BY <1>3, <1>4, <1>5, ZenonT(60) DEF ProcState
  <1>7. /\ Older(p).age = a /\ Older(p).left = l /\ Older(p).wait = w
        /\ Older(p).pc = proc[p].pc /\ Older(p).cur = proc[p].cur
        /\ Older(p).todo = proc[p].todo /\ Older(p).first = proc[p].first
        /\ Older(p).watched = proc[p].watched /\ Older(p).parked = proc[p].parked
        /\ Older(p).own = proc[p].own /\ Older(p).outcome = proc[p].outcome
        /\ Older(p).cause = proc[p].cause /\ Older(p).got = proc[p].got
    BY <1>5 DEF ProcState
  <1> QED  BY <1>3, <1>4, <1>6, <1>7

LEMMA TickStep ==
    ASSUME IInv, Tick
    PROVE  IInv'
  <1>1. \A p \in Procs : proc[p] \in ProcState
    BY DEF IInv, TypeOK
  <1>2. proc' = [p \in Procs |-> IF Running(p) THEN Older(p) ELSE proc[p]]
    BY DEF Tick
  <1>3. proc' \in [Procs -> ProcState]
    BY <1>1, <1>2, OlderTyped
  <1>4. \A p \in Procs : proc'[p] = Older(p) \/ proc'[p] = proc[p]
    BY <1>2
  <1>5. UNCHANGED <<healthy, stage, holds, verdict, lapsed, evicted, mishaps>> /\ healthy' \in BOOLEAN
    BY DEF Tick, queueVars, IInv, TypeOK
  <1>6. \A p \in Procs :
            /\ proc'[p].pc = proc[p].pc /\ proc'[p].cur = proc[p].cur
            /\ proc'[p].todo = proc[p].todo /\ proc'[p].first = proc[p].first
            /\ proc'[p].watched = proc[p].watched /\ proc'[p].parked = proc[p].parked
            /\ proc'[p].own = proc[p].own /\ proc'[p].outcome = proc[p].outcome
            /\ proc'[p].cause = proc[p].cause /\ proc'[p].got = proc[p].got
    <2> SUFFICES ASSUME NEW p \in Procs
                 PROVE  /\ proc'[p].pc = proc[p].pc /\ proc'[p].cur = proc[p].cur
                        /\ proc'[p].todo = proc[p].todo /\ proc'[p].first = proc[p].first
                        /\ proc'[p].watched = proc[p].watched /\ proc'[p].parked = proc[p].parked
                        /\ proc'[p].own = proc[p].own /\ proc'[p].outcome = proc[p].outcome
                        /\ proc'[p].cause = proc[p].cause /\ proc'[p].got = proc[p].got
      OBVIOUS
    <2>1. CASE proc'[p] = Older(p)
      BY <1>1, <2>1, OlderTyped
    <2>2. CASE proc'[p] = proc[p]
      BY <2>2
    <2> QED  BY <1>4, <2>1, <2>2
  <1> QED  BY <1>3, <1>5, <1>6, TimerStep

LEMMA HealStep ==
    ASSUME IInv, Heal
    PROVE  IInv'
  <1>1. proc' = proc /\ proc \in [Procs -> ProcState]
    BY DEF Heal, IInv, TypeOK
  <1> QED  BY <1>1, TimerStep DEF Heal, queueVars

LEMMA EvictStep ==
    ASSUME IInv, NEW e \in Fires, Evict(e)
    PROVE  IInv'
  <1>0. e \in Procs /\ proc[e] \in ProcState /\ FireOK(e, proc[e], stage[e], verdict[e]) /\ e # NoEvent
    BY FireHas, Parties
  <1>1. /\ stage[e] \in {"parked", "taken"} /\ stage'[e] = "gone"
        /\ \A d \in Fires \ {e} : stage'[d] = stage[d]
        /\ stage' \in [Fires -> Queue!Stages]
        /\ \A q \in Procs : holds'[q] = IF holds[q] = e THEN NoEvent ELSE holds[q]
        /\ holds' \in [Procs -> Fires \cup {NoEvent}]
    BY DEF Evict, Queue!Finish, Queue!Stages, IInv, TypeOK
  <1>2. /\ proc' = [proc EXCEPT ![e] = proc[e]] /\ proc' = proc
        /\ evicted' = evicted \cup {e} /\ UNCHANGED <<healthy, verdict, lapsed, mishaps>>
    BY DEF Evict, IInv, TypeOK
  <1>3. TypeOK' /\ OneHolder'
    BY <1>0, <1>1, <1>2 DEF IInv, TypeOK, OneHolder
  <1>4. ASSUME NEW q \in Procs
        PROVE  HoldsOK(q)'
    <2>1. HoldsOK(q) /\ holds[q] \in Fires \cup {NoEvent}
      BY DEF IInv, TypeOK
    <2> QED  BY <1>0, <1>1, <1>2, <2>1 DEF HoldsOK, RequestOK, At
  <1>5. EventOK(e)'
    BY <1>1, <1>2 DEF EventOK
  <1>6. \A q \in Procs : holds[q] \notin {e, NoEvent} => holds'[q] = holds[q] /\ proc'[q] = proc[q]
    BY <1>1, <1>2
  <1> QED  BY <1>0, <1>1, <1>2, <1>3, <1>4, <1>5, <1>6, QueueStep

LEMMA RecoverStep ==
    ASSUME IInv, NEW e \in Fires, Recover(e)
    PROVE  IInv'
  <1>0. e \in Procs /\ proc[e] \in ProcState /\ FireOK(e, proc[e], stage[e], verdict[e])
    BY FireHas
  <1>1. /\ stage[e] = "taken" /\ stage'[e] = "parked" /\ holds' = holds
        /\ \A d \in Fires \ {e} : stage'[d] = stage[d]
        /\ stage' \in [Fires -> Queue!Stages]
        /\ \A q \in Procs : holds[q] # e
    BY DEF Recover, Queue!Recover, Queue!Holders, Queue!Stages, IInv, TypeOK
  <1>2. /\ proc' = [proc EXCEPT ![e] = proc[e]] /\ proc' = proc
        /\ UNCHANGED <<healthy, verdict, lapsed, evicted, mishaps>>
    BY DEF Recover, IInv, TypeOK
  <1>3. TypeOK' /\ OneHolder'
    BY <1>1, <1>2 DEF IInv, TypeOK, OneHolder
  <1>4. ASSUME NEW q \in Procs
        PROVE  HoldsOK(q)'
    <2>1. HoldsOK(q) /\ holds[q] \in Fires \cup {NoEvent}
      BY DEF IInv, TypeOK
    <2> QED  BY <1>1, <1>2, <2>1 DEF HoldsOK, RequestOK, At
  <1>5. EventOK(e)'
    <2>1. ~Closing(e)
      BY <1>1 DEF Closing
    <2> QED  BY <1>1, <1>2, <2>1 DEF EventOK, IInv
  <1>6. \A q \in Procs : holds[q] \notin {e, NoEvent} => holds'[q] = holds[q] /\ proc'[q] = proc[q]
    BY <1>1, <1>2
  <1> QED  BY <1>0, <1>1, <1>2, <1>3, <1>4, <1>5, <1>6, QueueStep

LEMMA KillStep ==
    ASSUME IInv, NEW p \in Procs, Kill(p)
    PROVE  IInv'
  <1>0. /\ proc[p] \in ProcState /\ HoldsOK(p)
        /\ p \in Fires => FireOK(p, proc[p], stage[p], verdict[p])
    BY ProcHas
  <1>1. PICK l \in {"killed", "rest"} : l = IF p \in Fires THEN "killed" ELSE "rest"
    OBVIOUS
  <1>2. PICK z \in ProcState : z = Resting
    BY RestingTyped
  <1> DEFINE r == [z EXCEPT !.pc = l]
  <1>3. proc' = [proc EXCEPT ![p] = r]
    BY <1>1, <1>2 DEF Kill
  <1>4. /\ r \in ProcState /\ r.pc = l /\ r.cur = NoEvent /\ r.watched = "none" /\ r.parked = FALSE
    BY <1>1, <1>2, RestingTyped DEF ProcState, Labels
  <1> HIDE DEF r
  <1>5. p \in Fires => FireOK(p, r, stage[p], verdict[p])
    BY <1>1, <1>4 DEF FireOK, Fresh
  <1>6. mishaps' \in 0 .. MaxMishaps /\ UNCHANGED <<healthy, verdict, evicted>>
    BY Numbers DEF Kill, IInv, TypeOK
  <1>7. CASE proc[p].pc \notin {"post", "settle"}
    <2>1. holds[p] = NoEvent
      BY <1>0, <1>7 DEF HoldsOK
    <2>2. UNCHANGED <<stage, holds, lapsed>>
      BY <2>1 DEF Kill, queueVars
    <2> QED  BY <1>1, <1>3, <1>4, <1>5, <1>6, <1>7, <2>2, OwnStep
  <1>8. CASE proc[p].pc \in {"post", "settle"}
    <2>1. PICK x \in Fires : x = proc[p].cur
      BY <1>0, <1>8 DEF HoldsOK, RequestOK
    <2>2. /\ stage[x] # "new" /\ holds[p] \in {x, NoEvent} /\ x # NoEvent
      BY <1>0, <1>8, <2>1, Parties DEF HoldsOK
    <2>3. /\ stage' = stage /\ holds'[p] = NoEvent /\ \A q \in Procs \ {p} : holds'[q] = holds[q]
          /\ holds' \in [Procs -> Fires \cup {NoEvent}]
          /\ lapsed \subseteq lapsed' /\ lapsed' \subseteq Fires
          /\ holds[p] = x /\ proc[p].got \in Finals => x \in lapsed'
      <3>1. CASE holds[p] = x
        <4>1. /\ stage' = stage /\ holds' = [holds EXCEPT ![p] = NoEvent]
              /\ lapsed' = IF proc[p].got \in Finals THEN lapsed \cup {x} ELSE lapsed
          BY <2>2, <3>1 DEF Kill, LeaveClaim, Queue!Abandon
        <4> QED  BY <4>1 DEF IInv, TypeOK
      <3>2. CASE holds[p] = NoEvent
        BY <2>2, <3>2 DEF Kill, queueVars, IInv, TypeOK
      <3> QED  BY <2>2, <3>1, <3>2
    <2>4. proc'[p] = r /\ proc' \in [Procs -> ProcState] /\ \A q \in Procs \ {p} : proc'[q] = proc[q]
      BY <1>3, <1>4, ProcMoves DEF IInv, TypeOK
    <2>5. TypeOK' /\ OneHolder'
      BY <1>6, <2>3, <2>4 DEF IInv, TypeOK, OneHolder
    <2>6. HoldsOK(p)'
      BY <1>1, <1>4, <2>3, <2>4 DEF HoldsOK, RequestOK, At
    <2>7. ASSUME NEW q \in Procs \ {p}
          PROVE  HoldsOK(q)'
      <3>1. HoldsOK(q) /\ holds[q] \in Fires \cup {NoEvent}
        BY DEF IInv, TypeOK
      <3> QED  BY <1>6, <2>3, <2>4, <3>1 DEF HoldsOK, RequestOK, At
    <2>8. EventOK(x)'
      <3>1. Closing(x) => Closing(x)' \/ x \in lapsed'
        <4> SUFFICES ASSUME NEW q \in Procs, holds[q] = x, At(q, "settle"), proc[q].got \in Finals
                     PROVE  Closing(x)' \/ x \in lapsed'
          BY DEF Closing
        <4>1. CASE q = p
          BY <2>3, <4>1
        <4>2. CASE q # p
          BY <2>3, <2>4, <4>2 DEF Closing, At
        <4> QED  BY <4>1, <4>2
      <3> QED  BY <1>6, <2>3, <3>1 DEF EventOK, IInv
    <2>9. \A q \in Procs : holds[q] \notin {x, NoEvent} => holds'[q] = holds[q] /\ proc'[q] = proc[q]
      BY <2>2, <2>3, <2>4
    <2> QED  BY <1>3, <1>4, <1>5, <1>6, <2>2, <2>3, <2>5, <2>6, <2>7, <2>8, <2>9, QueueStep
  <1> QED  BY <1>7, <1>8

-----------------------------------------------------------------------------
(* The theorems.                                                           *)

LEMMA InitInv == Init => IInv
  <1> SUFFICES ASSUME Init PROVE IInv
    OBVIOUS
  <1>1. \A p \in Procs : proc[p] = Resting /\ holds[p] = NoEvent
    BY DEF Init, Queue!SpoolInit
  <1>2. TypeOK
    <2>1. /\ stage \in [Fires -> Queue!Stages] /\ holds \in [Procs -> Fires \cup {NoEvent}]
          /\ verdict \in [Fires -> SUBSET Finals] /\ lapsed \subseteq Fires /\ evicted \subseteq Fires
      BY DEF Init, Queue!SpoolInit, Queue!Stages
    <2>2. proc \in [Procs -> ProcState]
      BY RestingTyped DEF Init
    <2>3. healthy \in BOOLEAN
      BY DEF Init
    <2>4. mishaps \in 0 .. MaxMishaps
      BY Numbers DEF Init
    <2> QED  BY <2>1, <2>2, <2>3, <2>4 DEF TypeOK
  <1>3. OneHolder /\ \A p \in Procs : HoldsOK(p)
    BY <1>1, RestingTyped DEF OneHolder, HoldsOK, RequestOK, At
  <1>4. \A e \in Fires : stage[e] = "new" /\ verdict[e] = {}
    BY DEF Init, Queue!SpoolInit
  <1>5. \A e \in Fires : EventOK(e) /\ FireOK(e, proc[e], stage[e], verdict[e])
    BY <1>1, <1>4, RestingTyped, Parties DEF EventOK, FireOK, Fresh
  <1> QED  BY <1>2, <1>3, <1>5 DEF IInv

LEMMA NextInv == IInv /\ [Next]_vars => IInv'
  <1> SUFFICES ASSUME IInv, [Next]_vars PROVE IInv'
    OBVIOUS
  <1>1. ASSUME NEW f \in Fires, StartHook(f) \/ FireStep(f)
        PROVE  IInv'
    BY <1>1, StartHookStep, SkipPayloadStep, ReadPayloadStep, TokenUnavailableStep, TokenAbsentStep,
       TokenPresentStep, FirstAnswerStep, ParkOwnStep, ReturnStep DEF FireStep
  <1>2. ASSUME NEW d \in Drainers, StartDrain(d) \/ DrainLookup(d) \/ EndDrainNow(d)
        PROVE  IInv'
    BY <1>2, DrainerStep
  <1>3. ASSUME NEW p \in Procs, DrainStep(p) \/ Kill(p)
        PROVE  IInv'
    BY <1>3, ListQueueStep, TakeStep, DrainAnswerStep, SettleStep, KillStep DEF DrainStep
  <1>4. ASSUME NEW e \in Fires, Evict(e) \/ Recover(e)
        PROVE  IInv'
    BY <1>4, EvictStep, RecoverStep
  <1>5. CASE Tick \/ Heal
    BY <1>5, TickStep, HealStep
  <1>6. CASE UNCHANGED vars
    BY <1>6 DEF vars, IInv, TypeOK, OneHolder, HoldsOK, RequestOK, At, EventOK, Closing, FireOK
  <1> QED  BY <1>1, <1>2, <1>3, <1>4, <1>5, <1>6 DEF Next, Step

LEMMA Invariant == Spec => []IInv
  BY InitInv, NextInv, PTL DEF Spec

\* The types of the delivery's state are kept; in particular the outcome and the
\* cause are decided by cases that leave none out.
THEOREM TypeCorrect == Spec => []TypeOK
  <1>1. IInv => TypeOK
    BY DEF IInv
  <1> QED  BY <1>1, Invariant, PTL

\* send reports "delivered" and "dropped" exactly when this call got that answer
\* for its own event, and "failed" only for an event that is nowhere.
THEOREM OutcomesHonest == Spec => []OutcomeHonest
  <1>1. IInv => OutcomeHonest
    BY DEF IInv, OutcomeHonest, FireOK, At
  <1> QED  BY <1>1, Invariant, PTL

\* send blames the network only when no attempt of the call reached the backend,
\* and the backend only when one did.
THEOREM CausesHonest == Spec => []CauseHonest
  <1>1. IInv => CauseHonest
    BY DEF IInv, CauseHonest, FireOK, At
  <1> QED  BY <1>1, Invariant, PTL

\* An event reported as queued is in the queue until a final answer came for it
\* or the queue gave it up, whatever drains run beside the call.
THEOREM QueuedStays == Spec => []QueuedIsKept
  <1>1. IInv => QueuedIsKept
    BY Parties DEF IInv, TypeOK, QueuedIsKept, EventOK, FireOK, At, Queue!Stages
  <1> QED  BY <1>1, Invariant, PTL

\* After a final answer nobody sends the event again, not the call that first
\* tried it, not a drain, not a hook that recovers a dead one's claim, unless the
\* claim outlived the answer: its removal is a step of its own, which a kill or an
\* error of the file system can keep from happening.
THEOREM VerdictsFinal == Spec => []NoRepeatAfterVerdict
  <1>1. IInv => NoRepeatAfterVerdict
    <2> SUFFICES ASSUME IInv, NEW e \in Fires, verdict[e] # {}, e \notin lapsed
                 PROVE  /\ stage[e] \in {"new", "gone"} \/ Queue!Holders(e) # {}
                        /\ \A p \in Queue!Holders(e) : At(p, "settle") /\ proc[p].got \in Finals
      BY DEF NoRepeatAfterVerdict
    <2>1. stage[e] \in {"new", "gone"} \/ Closing(e)
      BY DEF IInv, EventOK
    <2>2. \A p \in Queue!Holders(e) : p \in Procs /\ holds[p] = e /\ stage[e] = "taken"
      BY Parties DEF IInv, HoldsOK, Queue!Holders
    <2>3. CASE stage[e] \in {"new", "gone"}
      BY <2>2, <2>3
    <2>4. CASE Closing(e)
      <3>1. PICK q \in Procs : holds[q] = e /\ At(q, "settle") /\ proc[q].got \in Finals
        BY <2>4 DEF Closing
      <3>2. q \in Queue!Holders(e)
        BY <3>1 DEF Queue!Holders
      <3>3. \A p \in Queue!Holders(e) : p = q
        BY <2>2, <3>1, Parties DEF IInv, OneHolder
      <3> QED  BY <3>1, <3>2, <3>3
    <2> QED  BY <2>1, <2>3, <2>4
  <1> QED  BY <1>1, Invariant, PTL

-----------------------------------------------------------------------------
(* The budget of the hook.  Time passes for a hook only while it waits, and  *)
(* each wait is bounded by what is left: the read and the token lookup by    *)
(* their own bounds, a request by `left', which was granted so that it ends  *)
(* within the budget.                                                        *)

\* The hook's budget covers the read of the payload and the slowest lookup.
LookupFits == StdinTimeout + LookupMax <= HookBudget

TimeOK(r) ==
    /\ r.age <= HookBudget
    /\ r.pc = "rest" => r.age = 0 /\ r.left = 0
    /\ r.pc = "stdin" => r.age + r.wait <= StdinTimeout
    /\ r.pc = "lookup" => r.age + r.wait <= StdinTimeout + LookupMax
    /\ r.pc \in {"attempt", "post"} => r.age + r.wait <= HookBudget
    /\ r.left = 0 \/ r.age + r.left <= HookBudget

TimeInv == \A f \in Fires : TimeOK(proc[f])

\* The timers of a record are numbers, never more than what they count.
LEMMA TimersAre ==
    ASSUME NEW r \in ProcState
    PROVE  r.age \in Nat /\ r.left \in Nat /\ r.wait \in Nat
  <1>1. r.age \in 0 .. MaxAge /\ r.left \in Timer /\ r.wait \in Timer
    BY DEF ProcState
  <1>2. 0 .. MaxAge \subseteq Nat
    BY Numbers DEF MaxAge
  <1>3. Timer \subseteq Nat
    BY Timers
  <1> QED  BY <1>1, <1>2, <1>3

LEMMA HookTime ==
    ASSUME IInv, TimeInv, LookupFits, NEW f \in Fires, Step(f) \/ StartHook(f) \/ Kill(f)
    PROVE  TimeOK(proc'[f])
  <1>0. /\ f \in Procs /\ f \notin Drainers /\ proc[f] \in ProcState /\ TimeOK(proc[f])
    BY FireHas, Parties, PartiesAssumption DEF TimeInv
  <1>1. proc[f].age \in Nat /\ proc[f].left \in Nat /\ proc[f].wait \in Nat
    BY <1>0, TimersAre
  <1> DEFINE a == proc[f].age
             l == proc[f].left
  <1>2. PICK z \in ProcState : z = Resting /\ z.age = 0 /\ z.left = 0
    BY RestingTyped
  <1>3. ASSUME proc'[f].age = 0, proc'[f].left = 0, proc'[f].pc \in {"done", "killed"}
        PROVE  TimeOK(proc'[f])
    BY <1>3, Numbers DEF TimeOK
  <1>4. ASSUME NEW o, NEW c, NEW w, proc' = [proc EXCEPT ![f] = Report(o, c, w)]
        PROVE  TimeOK(proc'[f])
    <2>1. proc'[f] = [z EXCEPT !.pc = "done", !.outcome = o, !.cause = c, !.own = w]
      BY <1>0, <1>2, <1>4, FireHas DEF Report
    <2>2. proc'[f].age = 0 /\ proc'[f].left = 0 /\ proc'[f].pc = "done"
      BY <1>2, <2>1 DEF ProcState
    <2> QED  BY <1>3, <2>2
  <1>5. CASE SkipPayload(f) \/ TokenUnavailable(f) \/ TokenAbsent(f) \/ Return(f)
    BY <1>4, <1>5 DEF SkipPayload, TokenUnavailable, TokenAbsent, Return
  <1>6. CASE Kill(f)
    <2>1. proc'[f] = [z EXCEPT !.pc = "killed"]
      BY <1>0, <1>2, <1>6, FireHas DEF Kill
    <2>2. proc'[f].age = 0 /\ proc'[f].left = 0 /\ proc'[f].pc = "killed"
      BY <1>2, <2>1 DEF ProcState
    <2> QED  BY <1>3, <2>2
  <1>7. CASE StartHook(f)
    <2>1. /\ proc'[f].age = a /\ proc'[f].left = l /\ proc'[f].wait = StdinTimeout
          /\ proc'[f].pc = "stdin" /\ proc[f].pc = "rest"
      BY <1>0, <1>7, FireHas DEF StartHook, At, ProcState
    <2> QED  BY <1>0, <2>1, Numbers DEF TimeOK
  <1>8. CASE ReadPayload(f)
    <2>1. /\ proc'[f].age = a /\ proc'[f].left = SendAllowance(a) /\ proc'[f].wait = LookupMax
          /\ proc'[f].pc = "lookup" /\ proc[f].pc = "stdin"
      BY <1>0, <1>8, FireHas DEF ReadPayload, At, ProcState
    <2>2. a <= StdinTimeout /\ a < HookBudget
      BY <1>0, <1>1, <2>1, Numbers DEF TimeOK
    <2>3. a + SendAllowance(a) <= HookBudget
      BY <1>1, <2>2, AllowanceFits
    <2> QED  BY <1>1, <2>1, <2>2, <2>3, Numbers DEF TimeOK
  <1>9. CASE TokenPresent(f)
    <2>1. /\ proc'[f].age = a /\ proc'[f].left = l
          /\ \/ proc'[f].pc = "park"
             \/ proc'[f].pc = "attempt" /\ l >= MinAttempt /\ proc'[f].wait = l
      BY <1>0, <1>1, <1>9, Numbers, FireHas DEF TokenPresent, At, ProcState
    <2> QED  BY <1>0, <1>1, <2>1, Numbers DEF TimeOK
  <1>10. CASE FirstAnswer(f) \/ ParkOwn(f) \/ ListQueue(f) \/ DrainAnswer(f) \/ Settle(f)
    <2>1. /\ proc'[f].age = a /\ proc'[f].left = l /\ proc'[f].pc \in {"park", "list", "drain", "settle"}
      <3>1. CASE FirstAnswer(f)
        BY <1>0, <3>1, FireHas DEF FirstAnswer, ProcState
      <3>2. CASE ParkOwn(f)
        BY <1>0, <3>2, FireHas DEF ParkOwn, ProcState
      <3>3. CASE ListQueue(f)
        <4>1. PICK S : proc' = [proc EXCEPT ![f].pc = "drain", ![f].todo = S]
          BY <3>3 DEF ListQueue
        <4> QED  BY <1>0, <4>1, FireHas DEF ProcState
      <3>4. CASE DrainAnswer(f)
        BY <1>0, <3>4, FireHas DEF DrainAnswer, ProcState
      <3>5. CASE Settle(f)
        BY <1>0, <3>5, FireHas DEF Settle, ProcState
      <3> QED  BY <1>10, <3>1, <3>2, <3>3, <3>4, <3>5
    <2> QED  BY <1>0, <2>1 DEF TimeOK
  <1>11. CASE Take(f)
    <2>1. /\ proc'[f].age = a /\ proc'[f].left = l
          /\ \/ proc'[f].pc = "drain"
             \/ proc'[f].pc = "post" /\ proc'[f].wait = Greatest(1, l) /\ l >= MinAttempt
      BY <1>0, <1>11, FireHas DEF Take, At, ProcState
    <2>2. l >= MinAttempt => Greatest(1, l) = l /\ l # 0
      BY <1>1, Numbers DEF Greatest
    <2> QED  BY <1>0, <1>1, <2>1, <2>2 DEF TimeOK
  <1> QED  BY <1>0, <1>5, <1>6, <1>7, <1>8, <1>9, <1>10, <1>11 DEF Step, FireStep, DrainStep

LEMMA TickTime ==
    ASSUME IInv, TimeInv, LookupFits, NEW f \in Fires, Tick
    PROVE  TimeOK(proc'[f])
  <1>0. /\ f \in Procs /\ proc[f] \in ProcState /\ TimeOK(proc[f])
    BY FireHas DEF TimeInv
  <1>1. proc[f].age \in Nat /\ proc[f].left \in Nat /\ proc[f].wait \in Nat
    BY <1>0, TimersAre
  <1>2. CASE ~Running(f)
    BY <1>0, <1>2 DEF Tick
  <1>3. CASE Running(f)
    <2>1. proc[f].pc \in {"stdin", "lookup", "attempt", "post"} /\ proc[f].wait > 0
      BY <1>0, <1>3 DEF Tick, Waits
    <2>2. /\ proc'[f].age = Least(proc[f].age + 1, MaxAge) /\ proc'[f].left = Minus(proc[f].left, 1)
          /\ proc'[f].wait = Minus(proc[f].wait, 1) /\ proc'[f].pc = proc[f].pc
      BY <1>0, <1>3, OlderTyped DEF Tick
    <2>3. proc[f].age + proc[f].wait <= HookBudget
      BY <1>0, <1>1, <2>1, Numbers DEF TimeOK, LookupFits
    <2>4. proc'[f].age = proc[f].age + 1 /\ proc'[f].wait = proc[f].wait - 1
      BY <1>1, <2>1, <2>2, <2>3, Numbers DEF Least, Minus, MaxAge
    <2>5. proc'[f].left = 0 \/ proc'[f].age + proc'[f].left <= HookBudget
      BY <1>0, <1>1, <2>2, <2>4, Numbers DEF TimeOK, Minus
    <2> QED  BY <1>0, <1>1, <2>1, <2>2, <2>3, <2>4, <2>5, Numbers DEF TimeOK
  <1> QED  BY <1>2, <1>3

\* A step of one process, and the environment's, leave a hook's record alone.
LEMMA OthersTime ==
    ASSUME IInv, NEW f \in Fires, Next, ~Tick, ~(Step(f) \/ StartHook(f) \/ Kill(f))
    PROVE  proc'[f] = proc[f]
  <1>0. f \in Procs /\ f \notin Drainers /\ proc \in [Procs -> ProcState]
    BY FireHas, PartiesAssumption
  <1>1. ASSUME NEW p \in Procs \ {f}, NEW r, proc' = [proc EXCEPT ![p] = r]
        PROVE  proc'[f] = proc[f]
    BY <1>0, <1>1
  <1>2. ASSUME NEW p \in Procs \ {f}, StartHook(p) \/ StartDrain(p) \/ Kill(p) \/ DrainLookup(p)
                                        \/ EndDrainNow(p)
        PROVE  proc'[f] = proc[f]
    BY <1>0, <1>2 DEF StartHook, StartDrain, Kill, DrainLookup, EndDrainNow
  <1>3. ASSUME NEW p \in Procs \ {f}, FireStep(p)
        PROVE  proc'[f] = proc[f]
    BY <1>0, <1>3 DEF FireStep, SkipPayload, ReadPayload, TokenUnavailable, TokenAbsent, TokenPresent,
       FirstAnswer, ParkOwn, Return
  <1>4. ASSUME NEW p \in Procs \ {f}, DrainStep(p)
        PROVE  proc'[f] = proc[f]
    BY <1>0, <1>4 DEF DrainStep, ListQueue, Take, DrainAnswer, Settle
  <1>5. ASSUME NEW e \in Fires, Evict(e) \/ Recover(e)
        PROVE  proc'[f] = proc[f]
    BY <1>5 DEF Evict, Recover
  <1>6. CASE Heal
    BY <1>6 DEF Heal
  <1>7. \A d \in Drainers : d \in Procs \ {f}
    BY <1>0 DEF Procs
  <1> QED  BY <1>2, <1>3, <1>4, <1>5, <1>6, <1>7, Parties DEF Next, Step

\* A hook that is not killed ends within the budget of its invocation, the read,
\* the lookup, its own request and the drain together, provided the budget
\* covers the read and the slowest token lookup (LookupFits): nothing bounds a
\* lookup that is slower, see the run of HookInBudget with a slow store.
THEOREM HookEndsInBudget == Spec => [](LookupFits => HookInBudget)
  <1>1. Init => (LookupFits => TimeInv)
    <2> SUFFICES ASSUME Init PROVE TimeInv
      OBVIOUS
    <2>1. \A f \in Fires : proc[f] = Resting
      BY Parties DEF Init
    <2> QED  BY <2>1, RestingTyped, Numbers DEF TimeInv, TimeOK
  <1>2. IInv /\ (LookupFits => TimeInv) /\ [Next]_vars => (LookupFits => TimeInv)'
    <2> SUFFICES ASSUME IInv, LookupFits, TimeInv, [Next]_vars, NEW f \in Fires
                 PROVE  TimeOK(proc'[f])
      BY DEF TimeInv, TimeOK, LookupFits
    <2>1. CASE Tick
      BY <2>1, TickTime
    <2>2. CASE Step(f) \/ StartHook(f) \/ Kill(f)
      BY <2>2, HookTime
    <2>3. CASE Next /\ ~Tick /\ ~(Step(f) \/ StartHook(f) \/ Kill(f))
      BY <2>3, OthersTime DEF TimeInv
    <2>4. CASE UNCHANGED vars
      BY <2>4 DEF vars, TimeInv
    <2> QED  BY <2>1, <2>2, <2>3, <2>4
  <1>3. (LookupFits => TimeInv) => (LookupFits => HookInBudget)
    BY DEF TimeInv, TimeOK, HookInBudget
  <1> QED  BY <1>1, <1>2, <1>3, Invariant, PTL DEF Spec

=============================================================================
