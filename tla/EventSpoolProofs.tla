--------------------------- MODULE EventSpoolProofs ---------------------------
(***************************************************************************)
(* What the retry queue promises its users, proved of EventQueue for any   *)
(* number of processes and events: it is the spool of EventSpool, and the  *)
(* backend gets an event twice only by a fault.  Both rest on the          *)
(* invariant IInv of EventQueueProofs.                                     *)
(***************************************************************************)
EXTENDS EventQueueProofs

-----------------------------------------------------------------------------
(* The kinds of steps, by what becomes of the directory and the holders.   *)

Holds(p) == proc[p].pc \in Holding

OthersStay(p) == \A q \in Procs \ {p} : proc'[q] = proc[q]

\* A process that neither holds a claim nor comes to hold one.
Bystander(p) == ~Holds(p) /\ ~Holds(p)' /\ OthersStay(p)

\* A holder that leaves its claim, or what was its claim, behind.
LetsGo(p) == Holds(p) /\ ~Holds(p)' /\ OthersStay(p)

\* The file of an event gets another name.
Moves(a, b) == a \in dir /\ b.ev = a.ev /\ dir' = (dir \ {a}) \cup {b}

\* p goes on, and a delivery it may have under way goes on with it.
Stays(p) ==
    /\ dir' = dir /\ used' = used /\ OthersStay(p)
    /\ Holds(p)' <=> Holds(p)
    /\ Holds(p) => /\ proc'[p].cur = proc[p].cur
                   /\ proc'[p].pc = "send" => proc[p].pc = "send"
                   /\ proc[p].pc = "remove" => proc'[p].pc = "remove"

Enqueues(p, e) ==
    /\ e \notin used /\ used' = used \cup {e} /\ dir' = dir \cup {TmpName(e, now)}
    /\ Bystander(p)

Publishes(p, n) ==
    /\ n.kind = "tmp" /\ Moves(n, JsonName(n)) /\ used' = used /\ Bystander(p)

Deletes(p, n) == n \in Names /\ dir' = dir \ {n} /\ used' = used /\ Bystander(p)

\* The claim is so old that nobody holds it any more.
Reclaims(p, n) ==
    /\ n.kind = "claim" /\ n.since + ClaimReclaim <= now
    /\ Moves(n, JsonName(n)) /\ used' = used /\ Bystander(p)

Claiming(p, n) ==
    /\ n.kind = "json" /\ Moves(n, ClaimName(n, p, now)) /\ used' = used
    /\ ~Holds(p) /\ OthersStay(p)
    /\ proc'[p].pc = "send" /\ proc'[p].cur = ClaimName(n, p, now)

Releases(p) ==
    /\ Moves(proc[p].cur, JsonName(proc[p].cur)) /\ used' = used
    /\ proc[p].pc = "release" /\ LetsGo(p)

Removes(p) == dir' = dir \ {proc[p].cur} /\ used' = used /\ LetsGo(p)

\* p is killed, or gives back an event that was discarded meanwhile.
Leaves(p) == dir' = dir /\ used' = used /\ LetsGo(p)

Kinds(p) ==
    \/ Stays(p)
    \/ \E e \in Events : Enqueues(p, e)
    \/ \E n \in Names : Publishes(p, n) \/ Deletes(p, n) \/ Reclaims(p, n) \/ Claiming(p, n)
    \/ Releases(p) \/ Removes(p) \/ Leaves(p)

LEMMA Becomes ==
    ASSUME proc \in [Procs -> ProcState], NEW p \in Procs, ~Holds(p),
           NEW r, r.pc \notin Holding, proc' = [proc EXCEPT ![p] = r]
    PROVE  Bystander(p)
  BY DEF Bystander, OthersStay, Holds

\* A name that is not in the directory is not renamed: the process just goes on.
LEMMA KindsOfSteps ==
    ASSUME IInv, NEW p \in Procs, Start(p) \/ Step(p)
    PROVE  Kinds(p)
  <1> USE DEF Kinds
  <1>0. proc \in [Procs -> ProcState] /\ dir \subseteq Names
    BY DEF IInv, TypeOK
  <1>a. Idle.pc = "idle" /\ "idle" \notin Holding
    BY DEF Idle, Holding
  <1>1. ASSUME NEW e \in Events, WriteTmp(p, e)
        PROVE  Kinds(p)
    <2>1. Enqueues(p, e)
      BY <1>0, <1>1 DEF WriteTmp, Enqueues, Bystander, OthersStay, Holds, Holding, At, Idle
    <2> QED  BY <2>1
  <1>2. CASE PublishTmp(p)
    <2> DEFINE n == proc[p].cur
    <2>0. ~Holds(p) /\ used' = used
      BY <1>2 DEF PublishTmp, Holds, Holding, At
    <2>1. Bystander(p) /\ used' = used
      <3> DEFINE r == [Idle EXCEPT !.pc = "cap", !.op = "enqueue"]
      <3>1. proc' = [proc EXCEPT ![p] = r] \/ proc' = [proc EXCEPT ![p] = Idle]
        BY <1>2 DEF PublishTmp
      <3>2. r.pc \notin Holding
        BY DEF Idle, Holding
      <3> HIDE DEF r
      <3> QED  BY <1>0, <1>a, <2>0, <3>1, <3>2, Becomes
    <2>2. n.kind = "tmp"
      BY <1>2 DEF PublishTmp, IInv, ListInv
    <2>3. CASE n \in dir
      <3>1. Publishes(p, n)
        BY <1>2, <2>1, <2>2, <2>3 DEF PublishTmp, Publishes, Moves, Renamed, JsonName
      <3> QED  BY <1>0, <2>3, <3>1
    <2>4. CASE n \notin dir
      <3>1. Stays(p)
        BY <1>2, <2>1, <2>4 DEF PublishTmp, Stays, Bystander
      <3> QED  BY <3>1
    <2> QED  BY <2>3, <2>4
  <1>3. CASE ListForCap(p) \/ ReadOverflow(p) \/ WriteOverflow(p) \/ Relist(p) \/ ReadEntry(p)
              \/ EndRead(p) \/ EndDrain(p) \/ StartDiscard(p) \/ StartClear(p) \/ EndSweep(p)
              \/ \E op \in ReadOps : StartRead(p, op)
    <2>1. dir' = dir /\ used' = used
      BY <1>3 DEF ListForCap, ReadOverflow, WriteOverflow, Relist, ReadEntry, EndRead, EndDrain,
                  StartDiscard, StartClear, EndSweep, StartRead
    <2>a. ~Holds(p)
      BY <1>3 DEF ListForCap, ReadOverflow, WriteOverflow, Relist, ReadEntry, EndRead, EndDrain,
                  StartDiscard, StartClear, EndSweep, StartRead, Holds, Holding, At
    <2>2. Bystander(p)
      <3>1. CASE ListForCap(p) \/ WriteOverflow(p) \/ EndDrain(p) \/ EndSweep(p)
        <4>1. \/ proc' = [proc EXCEPT ![p] = Idle]
              \/ \E V, t : proc' = [proc EXCEPT ![p].pc = "capRm", ![p].todo = V, ![p].tally = t]
          BY <3>1 DEF ListForCap, WriteOverflow, EndDrain, EndSweep
        <4>2. ASSUME NEW V, NEW t,
                     proc' = [proc EXCEPT ![p].pc = "capRm", ![p].todo = V, ![p].tally = t]
              PROVE  Bystander(p)
          BY <1>0, <2>a, <4>2 DEF Bystander, OthersStay, Holds, Holding, ProcState
        <4>3. CASE proc' = [proc EXCEPT ![p] = Idle]
          BY <1>0, <1>a, <2>a, <4>3, Becomes
        <4> QED  BY <4>1, <4>2, <4>3
      <3>2. CASE ReadOverflow(p) \/ Relist(p)
        BY <1>0, <2>a, <3>2 DEF ReadOverflow, Relist, Bystander, OthersStay, Holds, Holding, ProcState
      <3>3. CASE ReadEntry(p)
        <4>1. PICK n \in proc[p].todo :
                 \/ proc' = [proc EXCEPT ![p].todo = @ \ {n}, ![p].fresh = @ \cup {n}]
                 \/ proc' = [proc EXCEPT ![p].todo = @ \ {n}, ![p].pc = "unlink", ![p].cur = n]
          BY <3>3 DEF ReadEntry
        <4>2. proc'[p].pc \in {"read", "unlink"} /\ OthersStay(p)
          BY <1>0, <3>3, <4>1 DEF ReadEntry, At, OthersStay, ProcState
        <4> QED  BY <2>a, <4>2 DEF Bystander, Holds, Holding
      <3>4. CASE EndRead(p)
        <4> DEFINE r == [Idle EXCEPT !.pc = "cap", !.op = "prune"]
        <4>1. \/ proc' = [proc EXCEPT ![p] = r] \/ proc' = [proc EXCEPT ![p] = Idle]
              \/ \E V : proc' = [proc EXCEPT ![p].pc = "drain", ![p].todo = V, ![p].fresh = {}]
          BY <3>4 DEF EndRead
        <4>2. r.pc \notin Holding
          BY DEF Idle, Holding
        <4> HIDE DEF r
        <4>3. ASSUME NEW V, proc' = [proc EXCEPT ![p].pc = "drain", ![p].todo = V, ![p].fresh = {}]
              PROVE  Bystander(p)
          BY <1>0, <2>a, <4>3 DEF Bystander, OthersStay, Holds, Holding, ProcState
        <4> QED  BY <1>0, <1>a, <2>a, <4>1, <4>2, <4>3, Becomes
      <3>5. CASE StartDiscard(p) \/ StartClear(p) \/ \E op \in ReadOps : StartRead(p, op)
        <4> DEFINE swept(op, S) == [Idle EXCEPT !.pc = "sweep", !.op = op, !.todo = S]
                   reads(op, S) == [Idle EXCEPT !.pc = "reclaim", !.op = op, !.mark = now, !.todo = S]
        <4>1. \A op, S : swept(op, S).pc \notin Holding /\ reads(op, S).pc \notin Holding
          BY DEF Idle, Holding
        <4>2. \E op, S : proc' = [proc EXCEPT ![p] = swept(op, S)]
                         \/ proc' = [proc EXCEPT ![p] = reads(op, S)]
          BY <3>5 DEF StartDiscard, StartClear, StartRead
        <4> HIDE DEF swept, reads
        <4>3. PICK r : r.pc \notin Holding /\ proc' = [proc EXCEPT ![p] = r]
          BY <4>1, <4>2
        <4> QED  BY <1>0, <2>a, <4>3, Becomes
      <3> QED  BY <1>3, <3>1, <3>2, <3>3, <3>4, <3>5
    <2>3. Stays(p)
      BY <2>1, <2>2 DEF Stays, Bystander
    <2> QED  BY <2>3
  <1>4. CASE RemoveVictim(p) \/ Sweep(p)
    <2>1. PICK n \in proc[p].todo : dir' = dir \ {n} /\ proc' = [proc EXCEPT ![p].todo = @ \ {n}]
      BY <1>4 DEF RemoveVictim, Sweep
    <2>2. n \in Names
      BY <1>0 DEF ProcState
    <2>3. Deletes(p, n)
      BY <1>0, <1>4, <2>1, <2>2
         DEF RemoveVictim, Sweep, Deletes, Bystander, OthersStay, Holds, Holding, At, ProcState
    <2> QED  BY <2>2, <2>3
  <1>5. CASE Unlink(p)
    <2>1. dir' = dir \ {proc[p].cur} /\ used' = used
      BY <1>5 DEF Unlink
    <2>2. Bystander(p)
      BY <1>0, <1>5 DEF Unlink, Bystander, OthersStay, Holds, Holding, At, ProcState
    <2>3. CASE proc[p].cur \in Names
      BY <2>1, <2>2, <2>3 DEF Deletes
    <2>4. CASE proc[p].cur \notin Names
      BY <1>0, <2>1, <2>2, <2>4 DEF Stays, Bystander
    <2> QED  BY <2>3, <2>4
  <1>6. CASE Reclaim(p)
    <2>1. PICK n \in proc[p].todo :
                 /\ dir' = IF n \in dir THEN Renamed(n, JsonName(n)) ELSE dir
                 /\ proc' = [proc EXCEPT ![p].todo = @ \ {n}]
      BY <1>6 DEF Reclaim
    <2>2. Bystander(p) /\ used' = used
      BY <1>0, <1>6, <2>1 DEF Reclaim, Bystander, OthersStay, Holds, Holding, At, ProcState
    <2>3. n.kind = "claim" /\ n.since + ClaimReclaim <= now
      BY <1>6 DEF Reclaim, IInv, ListInv
    <2>4. CASE n \in dir
      <3>1. Reclaims(p, n)
        BY <2>1, <2>2, <2>3, <2>4 DEF Reclaims, Moves, Renamed, JsonName
      <3> QED  BY <1>0, <2>4, <3>1
    <2>5. CASE n \notin dir
      BY <2>1, <2>2, <2>5 DEF Stays, Bystander
    <2> QED  BY <2>4, <2>5
  <1>7. CASE Claim(p)
    <2>1. PICK n \in proc[p].todo :
                 IF n \in dir
                 THEN /\ dir' = Renamed(n, ClaimName(n, p, now))
                      /\ proc' = [proc EXCEPT ![p].todo = @ \ {n}, ![p].pc = "send",
                                              ![p].cur = ClaimName(n, p, now)]
                 ELSE /\ dir' = dir
                      /\ proc' = [proc EXCEPT ![p].todo = @ \ {n}]
      BY <1>7 DEF Claim
    <2>2. n.kind = "json" /\ proc[p].pc = "drain" /\ used' = used
      BY <1>7 DEF Claim, IInv, ListInv, At
    <2>3. OthersStay(p) /\ ~Holds(p)
      BY <1>0, <2>1, <2>2 DEF OthersStay, Holds, Holding
    <2>4. CASE n \in dir
      <3>1. proc'[p].pc = "send" /\ proc'[p].cur = ClaimName(n, p, now)
        BY <1>0, <2>1, <2>4 DEF ProcState
      <3>2. Claiming(p, n)
        BY <2>1, <2>2, <2>3, <2>4, <3>1 DEF Claiming, Moves, Renamed, ClaimName
      <3> QED  BY <1>0, <2>4, <3>2
    <2>5. CASE n \notin dir
      <3>1. proc'[p].pc = "drain"
        BY <1>0, <2>1, <2>2, <2>5 DEF ProcState
      <3> QED  BY <2>1, <2>2, <2>3, <2>5, <3>1 DEF Stays, Holds, Holding
    <2> QED  BY <2>4, <2>5
  <1>8. CASE SendTaken(p) \/ SendAnswerLost(p) \/ SendRefused(p)
    <2>1. dir' = dir /\ used' = used /\ proc[p].pc = "send"
      BY <1>8 DEF SendTaken, SendAnswerLost, SendRefused, At
    <2>2. proc'[p].pc \in {"release", "remove"} /\ proc'[p].cur = proc[p].cur /\ OthersStay(p)
      BY <1>0, <1>8 DEF SendTaken, SendAnswerLost, SendRefused, OthersStay, ProcState
    <2> QED  BY <2>1, <2>2 DEF Stays, Holds, Holding
  <1>9. CASE Release(p)
    <2>1. proc[p].pc = "release" /\ LetsGo(p) /\ used' = used
      BY <1>0, <1>9 DEF Release, At, LetsGo, OthersStay, Holds, Holding, ProcState
    <2> QED  BY <1>9, <2>1 DEF Release, Releases, Leaves, Moves, Renamed, JsonName
  <1>10. CASE Remove(p)
    <2>1. LetsGo(p) /\ used' = used
      BY <1>0, <1>10 DEF Remove, At, LetsGo, OthersStay, Holds, Holding, ProcState
    <2> QED  BY <1>10, <2>1 DEF Remove, Removes
  <1>11. CASE Start(p)
    BY <1>1, <1>3, <1>11 DEF Start
  <1>12. CASE Step(p)
    BY <1>2, <1>3, <1>4, <1>5, <1>6, <1>7, <1>8, <1>9, <1>10, <1>12 DEF Step
  <1> QED  BY <1>11, <1>12

LEMMA KindsOfCrash ==
    ASSUME IInv, NEW p \in Procs, Crash(p)
    PROVE  Stays(p) \/ Leaves(p)
  <1>0. proc \in [Procs -> ProcState]
    BY DEF IInv, TypeOK
  <1>1. dir' = dir /\ used' = used /\ ~Holds(p)' /\ OthersStay(p)
    BY <1>0 DEF Crash, OthersStay, Holds, Holding, Idle
  <1> QED  BY <1>1 DEF Stays, Leaves, LetsGo

-----------------------------------------------------------------------------
(* Duplicates.  An event that a process may yet send was accepted at most   *)
(* once for each doubt; one more time only when nobody can send it again.   *)

Sending(e) == \E p \in Procs : proc[p].pc = "send" /\ proc[p].cur.ev = e
Settling(e) == \E p \in Procs : proc[p].pc = "remove" /\ proc[p].cur.ev = e

\* The event can still be sent, now or by a later drain.
Open(e) == (e \notin used \/ Sending(e) \/ \E n \in dir : n.ev = e) /\ ~Settling(e)

DoubtInv ==
    \A e \in Events :
        /\ accepted[e] <= 1 + doubt[e]
        /\ Open(e) => accepted[e] <= doubt[e]

\* While p holds the event, nobody else does.
LEMMA SoleHolder ==
    ASSUME IInv, NEW p \in Procs, Holds(p)
    PROVE  /\ proc[p].cur \in Names /\ proc[p].cur.ev \in used
           /\ \A n \in dir : n.ev = proc[p].cur.ev => n = proc[p].cur
           /\ \A q \in Procs \ {p} : Holds(q) => proc[q].cur.ev # proc[p].cur.ev
  BY DEF IInv, HolderInv, ExclusiveSend, Holds

\* Nothing opens again what is closed, but a drainer that dies in "remove".
LEMMA ClosedStays ==
    ASSUME IInv, NEW p \in Procs, Kinds(p),
           Leaves(p) => proc[p].pc # "remove" \/ Removes(p),
           NEW e \in Events, Open(e)'
    PROVE  Open(e)
  <1>0. Events # {} /\ dir \subseteq Names
    BY DEF IInv, TypeOK
  <1> USE DEF OthersStay, Holding, Holds
  <1>1. CASE Stays(p)
    BY <1>1 DEF Stays, Open, Sending, Settling
  <1>2. ASSUME NEW d \in Events, Enqueues(p, d)
        PROVE  Open(e)
    <2>1. TmpName(d, now).ev = d
      BY DEF TmpName
    <2> QED  BY <1>2, <2>1 DEF Enqueues, Bystander, Open, Sending, Settling
  <1>3. ASSUME NEW n \in Names, Publishes(p, n) \/ Deletes(p, n) \/ Reclaims(p, n)
        PROVE  Open(e)
    BY <1>3 DEF Publishes, Deletes, Reclaims, Moves, Bystander, Open, Sending, Settling
  <1>4. ASSUME NEW n \in Names, Claiming(p, n)
        PROVE  Open(e)
    <2>1. n \in dir /\ ClaimName(n, p, now).ev = n.ev
      BY <1>4 DEF Claiming, Moves
    <2> QED  BY <1>4, <2>1 DEF Claiming, Moves, Open, Sending, Settling
  <1>5. CASE Releases(p)
    <2>1. ~Settling(proc[p].cur.ev)
      BY <1>5, SoleHolder DEF Releases, Settling
    <2> QED  BY <1>5, <2>1 DEF Releases, Moves, LetsGo, Open, Sending, Settling
  <1>6. CASE Removes(p)
    <2>1. CASE e = proc[p].cur.ev
      <3>1. e \in used' /\ ~(\E n \in dir' : n.ev = e)
        BY <1>6, <2>1, SoleHolder DEF Removes, LetsGo
      <3>2. ~Sending(e)'
        BY <1>6, <2>1, SoleHolder DEF Removes, LetsGo, Sending
      <3> QED  BY <3>1, <3>2 DEF Open
    <2>2. CASE e # proc[p].cur.ev
      BY <1>6, <2>2 DEF Removes, LetsGo, Open, Sending, Settling
    <2> QED  BY <2>1, <2>2
  <1>7. CASE Leaves(p) /\ proc[p].pc # "remove"
    BY <1>7 DEF Leaves, LetsGo, Open, Sending, Settling
  <1> QED  BY <1>1, <1>2, <1>3, <1>4, <1>5, <1>6, <1>7 DEF Kinds

\* A step that answers no request changes no count.
LEMMA DoubtKept ==
    ASSUME IInv, DoubtInv, NEW p \in Procs, Kinds(p),
           Leaves(p) => proc[p].pc # "remove" \/ Removes(p),
           UNCHANGED <<accepted, doubt>>
    PROVE  DoubtInv'
  BY ClosedStays DEF DoubtInv

LEMMA DoubtStep ==
    ASSUME IInv, DoubtInv, [Next]_vars
    PROVE  DoubtInv'
  <1>0. /\ proc \in [Procs -> ProcState] /\ accepted \in [Events -> Nat] /\ doubt \in [Events -> Nat]
        /\ used \subseteq Events
    BY DEF IInv, TypeOK
  <1>1. ASSUME NEW p \in Procs, At(p, "send")
        PROVE  /\ Holds(p) /\ Open(proc[p].cur.ev) /\ proc[p].cur.ev \in Events
               /\ accepted[proc[p].cur.ev] <= doubt[proc[p].cur.ev]
    <2>1. Holds(p)
      BY <1>1 DEF At, Holds, Holding
    <2>2. Open(proc[p].cur.ev)
      BY <1>1, <2>1, SoleHolder DEF Open, Sending, Settling, At, Holds, Holding
    <2>3. proc[p].cur.ev \in Events
      BY <1>0, <2>1, SoleHolder
    <2> QED  BY <2>1, <2>2, <2>3 DEF DoubtInv
  <1>2. ASSUME NEW p \in Procs, SendTaken(p)
        PROVE  DoubtInv'
    <2>0. PICK e \in Events : e = proc[p].cur.ev
      BY <1>1, <1>2 DEF SendTaken
    <2>1. At(p, "send") /\ accepted' = [accepted EXCEPT ![e] = @ + 1] /\ doubt' = doubt
      BY <1>2, <2>0 DEF SendTaken
    <2>2. Settling(e)'
      <3>1. proc'[p].pc = "remove" /\ proc'[p].cur = proc[p].cur
        BY <1>0, <1>2 DEF SendTaken, ProcState
      <3> QED  BY <2>0, <3>1 DEF Settling
    <2>3. Kinds(p) /\ ~Leaves(p)
      BY <1>0, <1>2, KindsOfSteps DEF Step, SendTaken, Leaves, LetsGo, Holds, Holding, ProcState
    <2>4. \A d \in Events : Open(d)' => Open(d)
      BY <2>3, ClosedStays
    <2>5. e \in Events /\ accepted[e] <= doubt[e]
      BY <1>1, <2>0, <2>1
    <2>6. accepted'[e] = accepted[e] + 1 /\ \A d \in Events \ {e} : accepted'[d] = accepted[d]
      BY <1>0, <2>1, <2>5
    <2>7. accepted'[e] <= 1 + doubt'[e]
      BY <1>0, <2>1, <2>5, <2>6
    <2>8. ~Open(e)'
      BY <2>2 DEF Open
    <2>9. ASSUME NEW d \in Events
          PROVE  accepted'[d] <= 1 + doubt'[d] /\ (Open(d)' => accepted'[d] <= doubt'[d])
      BY <2>1, <2>4, <2>6, <2>7, <2>8, <2>9 DEF DoubtInv
    <2> QED  BY <2>9 DEF DoubtInv
  <1>3. ASSUME NEW p \in Procs, At(p, "send"), Kinds(p),
               accepted' = [accepted EXCEPT ![proc[p].cur.ev] = @ + 1],
               doubt' = [doubt EXCEPT ![proc[p].cur.ev] = @ + 1]
        PROVE  DoubtInv'
    <2>1. \A d \in Events : Open(d)' => Open(d)
      BY <1>3, ClosedStays DEF At
    <2> QED  BY <1>0, <1>1, <1>3, <2>1 DEF DoubtInv
  <1>4. ASSUME NEW p \in Procs, Crash(p)
        PROVE  DoubtInv'
    <2>1. Kinds(p)
      BY <1>4, KindsOfCrash DEF Kinds
    <2>2. CASE ~At(p, "remove") /\ UNCHANGED <<accepted, doubt>>
      BY <2>1, <2>2, DoubtKept DEF At
    <2>3. CASE /\ At(p, "send")
               /\ accepted' = [accepted EXCEPT ![proc[p].cur.ev] = @ + 1]
               /\ doubt' = [doubt EXCEPT ![proc[p].cur.ev] = @ + 1]
      BY <1>3, <2>1, <2>3
    <2>4. CASE /\ At(p, "remove")
               /\ doubt' = [doubt EXCEPT ![proc[p].cur.ev] = @ + 1]
               /\ accepted' = accepted
      <3> DEFINE e == proc[p].cur.ev
      <3>1. Holds(p) /\ e \in Events
        BY <1>0, <2>4, SoleHolder DEF At, Holds, Holding
      <3>2. accepted'[e] <= doubt'[e] /\ accepted'[e] <= 1 + doubt'[e]
        BY <1>0, <2>4, <3>1 DEF DoubtInv
      <3>3. ASSUME NEW d \in Events \ {e}
            PROVE  doubt'[d] = doubt[d] /\ (Open(d)' => Open(d))
        <4>1. Leaves(p)
          BY <1>4, <2>4, <3>1, KindsOfCrash, <1>0 DEF Crash, Stays, Holds, Holding, Idle
        <4> QED  BY <1>0, <2>4, <3>3, <4>1 DEF Leaves, LetsGo, OthersStay, Holds, Holding, Open,
                    Sending, Settling, At
      <3> QED  BY <2>4, <3>2, <3>3 DEF DoubtInv
    <2> QED  BY <1>4, <2>2, <2>3, <2>4 DEF Crash
  <1>5. ASSUME NEW p \in Procs, SendAnswerLost(p)
        PROVE  DoubtInv'
    BY <1>3, <1>5, KindsOfSteps DEF SendAnswerLost, Step
  <1>6. ASSUME NEW p \in Procs, Start(p) \/ Step(p), ~SendTaken(p), ~SendAnswerLost(p)
        PROVE  DoubtInv'
    <2>1. UNCHANGED <<accepted, doubt>>
      BY <1>6 DEF Start, Step, ghosts, WriteTmp, StartRead, StartDiscard, StartClear, PublishTmp,
           ListForCap, RemoveVictim, ReadOverflow, WriteOverflow, Reclaim, Relist, ReadEntry, Unlink,
           EndRead, Claim, EndDrain, SendRefused, Release, Remove, Sweep, EndSweep
    <2>2. Kinds(p)
      BY <1>6, KindsOfSteps
    <2>3. Leaves(p) /\ proc[p].pc = "remove" => Removes(p)
      <3> SUFFICES ASSUME Leaves(p), proc[p].pc = "remove" PROVE Removes(p)
        OBVIOUS
      <3>1. Remove(p)
        BY <1>6 DEF Start, Step, At, WriteTmp, StartRead, StartDiscard, StartClear, PublishTmp,
           ListForCap, RemoveVictim, ReadOverflow, WriteOverflow, Reclaim, Relist, ReadEntry, Unlink,
           EndRead, Claim, EndDrain, SendRefused, Release, Sweep, EndSweep
      <3> QED  BY <3>1 DEF Remove, Removes, Leaves
    <2> QED  BY <2>1, <2>2, <2>3, DoubtKept
  <1>7. CASE Tick \/ UNCHANGED vars
    <2>1. UNCHANGED <<dir, used, proc, accepted, doubt>>
      BY <1>7 DEF Tick, vars, ghosts
    <2> QED  BY <2>1 DEF DoubtInv, Open, Sending, Settling
  <1> QED  BY <1>2, <1>4, <1>5, <1>6, <1>7 DEF Next

LEMMA DoubtInit == Init => DoubtInv
  BY DEF Init, DoubtInv, Open

\* The backend accepts an event twice only after an answer was lost or a
\* drainer died with the delivery unrecorded (drain: a claim is removed after
\* the verdict): at most one duplicate for each such fault.
THEOREM DuplicatesBounded == Spec => []DuplicatesOnlyAfterDoubt
  <1>1. IInv /\ DoubtInv /\ [Next]_vars => DoubtInv'
    BY DoubtStep
  <1>2. DoubtInv => DuplicatesOnlyAfterDoubt
    BY DEF DoubtInv, DuplicatesOnlyAfterDoubt
  <1> QED  BY DoubtInit, Invariant, <1>1, <1>2, PTL DEF Spec

-----------------------------------------------------------------------------
(* The refinement of EventSpool.  The stage of an event is a function of    *)
(* the directory; as an event has at most one file, the kind of that file   *)
(* is its stage, and a step that renames or removes it is the spool's.      *)

StageIn(D, U, e) ==
    IF \E n \in D : n.ev = e /\ n.kind = "json" THEN "parked"
    ELSE IF \E n \in D : n.ev = e /\ n.kind = "claim" THEN "taken"
    ELSE IF e \in U /\ ~ \E n \in D : n.ev = e THEN "gone"
    ELSE "new"

LEMMA StageOfDir ==
    \A e : StageOf(e) = StageIn(dir, used, e) /\ StageOf(e)' = StageIn(dir', used', e)
  BY DEF StageOf, StageIn

\* The only file of an event tells its stage.
LEMMA StageByFile ==
    ASSUME NEW D, NEW U, NEW n \in D, \A m \in D : m.ev = n.ev => m = n
    PROVE  /\ n.kind = "json" => StageIn(D, U, n.ev) = "parked"
           /\ n.kind = "claim" => StageIn(D, U, n.ev) = "taken"
           /\ n.kind = "tmp" => StageIn(D, U, n.ev) = "new"
           /\ StageIn(D, U, n.ev) # "gone"
  BY DEF StageIn

\* An event whose files and use do not change keeps its stage.
LEMMA StageKept ==
    ASSUME NEW e, e \in used' <=> e \in used,
           \A n : n.ev = e => (n \in dir' <=> n \in dir)
    PROVE  StageOf(e)' = StageOf(e)
  <1>1. /\ (\E n \in dir' : n.ev = e) <=> (\E n \in dir : n.ev = e)
        /\ (\E n \in dir' : n.ev = e /\ n.kind = "json") <=> (\E n \in dir : n.ev = e /\ n.kind = "json")
        /\ (\E n \in dir' : n.ev = e /\ n.kind = "claim") <=> (\E n \in dir : n.ev = e /\ n.kind = "claim")
    OBVIOUS
  <1> QED  BY <1>1, StageOfDir DEF StageIn

\* The rename of the only file of an event.
LEMMA StageMoved ==
    ASSUME IInv, NEW a, NEW b, Moves(a, b), used' = used
    PROVE  /\ a.ev \in Events
           /\ \A e \in Events \ {a.ev} : StageOf(e)' = StageOf(e)
           /\ a.kind = "json" => StageOf(a.ev) = "parked"
           /\ a.kind = "claim" => StageOf(a.ev) = "taken"
           /\ a.kind = "tmp" => StageOf(a.ev) = "new"
           /\ b.kind = "json" => StageOf(a.ev)' = "parked"
           /\ b.kind = "claim" => StageOf(a.ev)' = "taken"
  <1>1. a.ev \in Events
    BY DEF IInv, TypeOK, Moves, Names
  <1>2. \A m \in dir : m.ev = a.ev => m = a
    BY DEF IInv, OneFilePerEvent, Moves
  <1>3. b \in dir' /\ \A m \in dir' : m.ev = b.ev => m = b
    BY <1>2 DEF Moves
  <1>4. \A e \in Events \ {a.ev} : StageOf(e)' = StageOf(e)
    <2> SUFFICES ASSUME NEW e \in Events \ {a.ev} PROVE StageOf(e)' = StageOf(e)
      OBVIOUS
    <2> QED  BY StageKept DEF Moves
  <1>5. /\ a.kind = "json" => StageOf(a.ev) = "parked"
        /\ a.kind = "claim" => StageOf(a.ev) = "taken"
        /\ a.kind = "tmp" => StageOf(a.ev) = "new"
    BY <1>2, StageByFile, StageOfDir DEF Moves
  <1>6. /\ b.kind = "json" => StageIn(dir', used', b.ev) = "parked"
        /\ b.kind = "claim" => StageIn(dir', used', b.ev) = "taken"
    BY <1>3, StageByFile
  <1>7. b.ev = a.ev
    BY DEF Moves
  <1>8. StageOf(a.ev)' = StageIn(dir', used', b.ev)
    BY <1>7 DEF StageOf, StageIn
  <1> QED  BY <1>1, <1>4, <1>5, <1>6, <1>8

\* The removal of the only file of an event.
LEMMA StageFinished ==
    ASSUME IInv, NEW a \in dir, dir' = dir \ {a}, used' = used
    PROVE  /\ a.ev \in Events
           /\ \A e \in Events \ {a.ev} : StageOf(e)' = StageOf(e)
           /\ StageOf(a.ev) # "gone" /\ StageOf(a.ev)' = "gone"
  <1>1. a.ev \in Events /\ a.ev \in used'
    BY DEF IInv, TypeOK, NamesUsed, Names
  <1>2. \A m \in dir : m.ev = a.ev => m = a
    BY DEF IInv, OneFilePerEvent
  <1>3. \A e \in Events \ {a.ev} : StageOf(e)' = StageOf(e)
    <2> SUFFICES ASSUME NEW e \in Events \ {a.ev} PROVE StageOf(e)' = StageOf(e)
      OBVIOUS
    <2> QED  BY StageKept
  <1>4. StageOf(a.ev) # "gone"
    BY <1>2, StageByFile, StageOfDir
  <1>5. ~ \E n \in dir' : n.ev = a.ev
    BY <1>2
  <1>6. StageIn(dir', used', a.ev) = "gone"
    BY <1>1, <1>5 DEF StageIn
  <1>7. StageOf(a.ev)' = StageIn(dir', used', a.ev)
    BY DEF StageOf, StageIn
  <1> QED  BY <1>1, <1>3, <1>4, <1>6, <1>7

\* A bystander's claim is found, or not found, as before.
LEMMA HeldKept ==
    ASSUME NEW q \in Procs, Holds(q)' <=> Holds(q),
           Holds(q) => /\ proc'[q].cur = proc[q].cur
                       /\ proc[q].cur \in dir' <=> proc[q].cur \in dir
    PROVE  HeldBy(q)' = HeldBy(q)
  BY DEF HeldBy, Holds

SpoolStep == [Spool!SpoolNext]_(Spool!spoolVars)

LEMMA SpoolStutters ==
    ASSUME \A e \in Events : StageOf(e)' = StageOf(e), \A q \in Procs : HeldBy(q)' = HeldBy(q)
    PROVE  SpoolStep
  BY DEF SpoolStep, Spool!spoolVars

\* Nothing of the directory changes but the claim p holds, if it lets go of it.
LEMMA StaysImplements ==
    ASSUME IInv, NEW p \in Procs, Stays(p)
    PROVE  SpoolStep
  <1>1. \A e \in Events : StageOf(e)' = StageOf(e)
    BY StageKept DEF Stays
  <1>2. \A q \in Procs : HeldBy(q)' = HeldBy(q)
    <2> SUFFICES ASSUME NEW q \in Procs PROVE HeldBy(q)' = HeldBy(q)
      OBVIOUS
    <2> QED  BY HeldKept DEF Stays, OthersStay, Holds
  <1> QED  BY <1>1, <1>2, SpoolStutters

LEMMA EnqueuesImplements ==
    ASSUME IInv, NEW p \in Procs, NEW e \in Events, Enqueues(p, e)
    PROVE  SpoolStep
  <1>0. PICK t : t = TmpName(e, now)
    OBVIOUS
  <1>1. t.ev = e /\ t.kind = "tmp"
    BY <1>0 DEF TmpName
  <1>2. \A m \in dir : m.ev # e
    BY DEF IInv, NamesUsed, Enqueues
  <1>3. dir' = dir \cup {t} /\ used' = used \cup {e}
    BY <1>0 DEF Enqueues
  <1>4. StageOf(e) = "new"
    BY <1>2 DEF StageOf, Enqueues
  <1>5. StageIn(dir', used', e) = "new"
    BY <1>1, <1>2, <1>3, StageByFile
  <1>6. \A d \in Events : StageOf(d)' = StageOf(d)
    <2> SUFFICES ASSUME NEW d \in Events PROVE StageOf(d)' = StageOf(d)
      OBVIOUS
    <2>1. CASE d = e
      BY <2>1, <1>4, <1>5, StageOfDir
    <2>2. CASE d # e
      BY <2>2, <1>1, <1>3, StageKept
    <2> QED  BY <2>1, <2>2
  <1>7. \A q \in Procs : HeldBy(q)' = HeldBy(q)
    <2> SUFFICES ASSUME NEW q \in Procs PROVE HeldBy(q)' = HeldBy(q)
      OBVIOUS
    <2>1. Holds(q) => proc[q].cur # t
      BY <1>1, SoleHolder DEF Enqueues
    <2> QED  BY <2>1, <1>3, HeldKept DEF Enqueues, Bystander, OthersStay, Holds
  <1> QED  BY <1>6, <1>7, SpoolStutters

LEMMA PublishesImplements ==
    ASSUME IInv, NEW p \in Procs, NEW n \in Names, Publishes(p, n)
    PROVE  SpoolStep
  <1>0. PICK j : j = JsonName(n)
    OBVIOUS
  <1>1. Moves(n, j) /\ used' = used /\ n.kind = "tmp" /\ j.kind = "json"
    BY <1>0 DEF Publishes, JsonName
  <1>2. /\ n.ev \in Events /\ StageOf(n.ev) = "new" /\ StageOf(n.ev)' = "parked"
        /\ \A e \in Events \ {n.ev} : StageOf(e)' = StageOf(e)
    BY <1>1, StageMoved
  <1>3. \A q \in Procs : HeldBy(q)' = HeldBy(q)
    <2> SUFFICES ASSUME NEW q \in Procs PROVE HeldBy(q)' = HeldBy(q)
      OBVIOUS
    <2>1. Holds(q) => proc[q].cur # n /\ proc[q].cur # j
      BY <1>1 DEF IInv, HolderInv, Holds
    <2> QED  BY <2>1, <1>1, HeldKept DEF Publishes, Moves, Bystander, OthersStay, Holds
  <1>4. Spool!Park(n.ev)
    BY <1>2, <1>3 DEF Spool!Park
  <1> QED  BY <1>2, <1>4 DEF SpoolStep, Spool!SpoolNext

\* Removing the file of an event finishes it for whoever held it.
LEMMA GoneImplements ==
    ASSUME IInv, NEW p \in Procs, NEW n \in dir, dir' = dir \ {n}, used' = used, OthersStay(p),
           ~Holds(p)', Holds(p) => proc[p].cur = n
    PROVE  SpoolStep
  <1>1. /\ n.ev \in Events /\ StageOf(n.ev) # "gone" /\ StageOf(n.ev)' = "gone"
        /\ \A e \in Events \ {n.ev} : StageOf(e)' = StageOf(e)
    BY StageFinished
  <1>2. n.ev # NoEvent
    BY <1>1, NoEventAssumption
  <1>3. ASSUME NEW q \in Procs
        PROVE  HeldBy(q)' = IF HeldBy(q) = n.ev THEN NoEvent ELSE HeldBy(q)
    <2>1. HeldBy(q) = n.ev <=> Holds(q) /\ proc[q].cur = n
      BY <1>2 DEF HeldBy, Holds, IInv, OneFilePerEvent
    <2>2. CASE q = p
      BY <2>1, <2>2 DEF HeldBy, Holds
    <2>3. CASE q # p
      BY <2>1, <2>3 DEF HeldBy, Holds, OthersStay
    <2> QED  BY <2>2, <2>3
  <1>4. Spool!Finish(n.ev)
    BY <1>1, <1>3 DEF Spool!Finish
  <1> QED  BY <1>1, <1>4 DEF SpoolStep, Spool!SpoolNext

LEMMA DeletesImplements ==
    ASSUME IInv, NEW p \in Procs, NEW n \in Names, Deletes(p, n)
    PROVE  SpoolStep
  <1>1. CASE n \in dir
    BY <1>1, GoneImplements DEF Deletes, Bystander
  <1>2. CASE n \notin dir
    <2>1. Stays(p)
      BY <1>2 DEF Deletes, Bystander, Stays
    <2> QED  BY <2>1, StaysImplements
  <1> QED  BY <1>1, <1>2

LEMMA ReclaimsImplements ==
    ASSUME IInv, NEW p \in Procs, NEW n \in Names, Reclaims(p, n)
    PROVE  SpoolStep
  <1>0. PICK j : j = JsonName(n)
    OBVIOUS
  <1>1. Moves(n, j) /\ used' = used /\ n.kind = "claim" /\ j.kind = "json"
    BY <1>0 DEF Reclaims, JsonName
  <1>2. /\ n.ev \in Events /\ StageOf(n.ev) = "taken" /\ StageOf(n.ev)' = "parked"
        /\ \A e \in Events \ {n.ev} : StageOf(e)' = StageOf(e)
    BY <1>1, StageMoved
  <1>3. \A q \in Procs : Holds(q) => proc[q].cur # n
    BY NumbersAssumption, BudgetAssumption DEF Reclaims, IInv, HolderInv, Holds, TypeOK, Names, Time
  <1>4. \A q \in Procs : HeldBy(q)' = HeldBy(q) /\ HeldBy(q) # n.ev
    <2> SUFFICES ASSUME NEW q \in Procs PROVE HeldBy(q)' = HeldBy(q) /\ HeldBy(q) # n.ev
      OBVIOUS
    <2>1. Holds(q) => proc[q].cur # n /\ proc[q].cur # j
      BY <1>1, <1>3 DEF IInv, HolderInv, Holds
    <2>2. HeldBy(q)' = HeldBy(q)
      BY <2>1, <1>1, HeldKept DEF Reclaims, Moves, Bystander, OthersStay, Holds
    <2>3. HeldBy(q) # n.ev
      BY <2>1, <1>1, <1>2, NoEventAssumption DEF HeldBy, Holds, Moves, IInv, OneFilePerEvent
    <2> QED  BY <2>2, <2>3
  <1>5. Spool!Recover(n.ev)
    BY <1>2, <1>4 DEF Spool!Recover, Spool!Holders
  <1> QED  BY <1>2, <1>5 DEF SpoolStep, Spool!SpoolNext

LEMMA ClaimingImplements ==
    ASSUME IInv, NEW p \in Procs, NEW n \in Names, Claiming(p, n)
    PROVE  SpoolStep
  <1>0. PICK c : c = ClaimName(n, p, now)
    OBVIOUS
  <1>1. Moves(n, c) /\ used' = used /\ n.kind = "json" /\ c.kind = "claim" /\ c.ev = n.ev
    BY <1>0 DEF Claiming, ClaimName
  <1>2. /\ n.ev \in Events /\ StageOf(n.ev) = "parked" /\ StageOf(n.ev)' = "taken"
        /\ \A e \in Events \ {n.ev} : StageOf(e)' = StageOf(e)
    BY <1>1, StageMoved
  <1>3. HeldBy(p) = NoEvent /\ HeldBy(p)' = n.ev
    BY <1>0, <1>1 DEF HeldBy, Claiming, Moves, Holds, Holding
  <1>4. ASSUME NEW q \in Procs \ {p}
        PROVE  HeldBy(q)' = HeldBy(q)
    <2>1. Holds(q) => proc[q].cur # n /\ proc[q].cur # c
      BY <1>1 DEF IInv, HolderInv, Holds, Moves
    <2> QED  BY <2>1, <1>1, HeldKept DEF Claiming, Moves, OthersStay, Holds
  <1>5. Spool!Take(p, n.ev)
    BY <1>2, <1>3, <1>4 DEF Spool!Take
  <1> QED  BY <1>2, <1>5 DEF SpoolStep, Spool!SpoolNext

LEMMA ReleasesImplements ==
    ASSUME IInv, NEW p \in Procs, Releases(p)
    PROVE  SpoolStep
  <1>0. PICK n, j : n = proc[p].cur /\ j = JsonName(n)
    OBVIOUS
  <1>1. Moves(n, j) /\ used' = used /\ n.kind = "claim" /\ j.kind = "json" /\ Holds(p)
    BY <1>0 DEF Releases, LetsGo, JsonName, IInv, HolderInv, Holds
  <1>2. /\ n.ev \in Events /\ StageOf(n.ev) = "taken" /\ StageOf(n.ev)' = "parked"
        /\ \A e \in Events \ {n.ev} : StageOf(e)' = StageOf(e)
    BY <1>1, StageMoved
  <1>3. HeldBy(p) = n.ev /\ HeldBy(p)' = NoEvent
    BY <1>0, <1>1 DEF HeldBy, Releases, LetsGo, Moves, Holds
  <1>4. ASSUME NEW q \in Procs \ {p}
        PROVE  HeldBy(q)' = HeldBy(q)
    <2>1. Holds(q) => proc[q].cur # n /\ proc[q].cur # j
      BY <1>0, <1>1, SoleHolder DEF Moves
    <2> QED  BY <2>1, <1>1, HeldKept DEF Releases, LetsGo, Moves, OthersStay, Holds
  <1>5. Spool!GiveBack(p, n.ev)
    BY <1>2, <1>3, <1>4 DEF Spool!GiveBack
  <1> QED  BY <1>2, <1>5 DEF SpoolStep, Spool!SpoolNext

\* Whoever is left without its claim abandons the event, if it was still there.
LEMMA LeavesImplements ==
    ASSUME IInv, NEW p \in Procs, LetsGo(p), dir' = dir, used' = used
    PROVE  SpoolStep
  <1>1. \A e \in Events : StageOf(e)' = StageOf(e)
    BY StageKept
  <1>2. ASSUME NEW q \in Procs \ {p}
        PROVE  HeldBy(q)' = HeldBy(q)
    BY HeldKept DEF LetsGo, OthersStay, Holds
  <1>3. HeldBy(p)' = NoEvent
    BY DEF HeldBy, LetsGo, Holds
  <1>4. CASE HeldBy(p) = NoEvent
    BY <1>1, <1>2, <1>3, <1>4, SpoolStutters
  <1>5. CASE HeldBy(p) # NoEvent
    <2>1. [e \in Events |-> StageOf(e)]' = [e \in Events |-> StageOf(e)]
      BY <1>1
    <2>2. [q \in Procs |-> HeldBy(q)]' = [[q \in Procs |-> HeldBy(q)] EXCEPT ![p] = NoEvent]
      BY <1>2, <1>3
    <2>3. Spool!Abandon(p)
      BY <1>5, <2>1, <2>2 DEF Spool!Abandon
    <2> QED  BY <2>3 DEF SpoolStep, Spool!SpoolNext
  <1> QED  BY <1>4, <1>5

LEMMA RemovesImplements ==
    ASSUME IInv, NEW p \in Procs, Removes(p)
    PROVE  SpoolStep
  <1>1. CASE proc[p].cur \in dir
    BY <1>1, GoneImplements DEF Removes, LetsGo
  <1>2. CASE proc[p].cur \notin dir
    BY <1>2, LeavesImplements DEF Removes
  <1> QED  BY <1>1, <1>2

LEMMA StepImplements == IInv /\ [Next]_vars => SpoolStep
  <1> SUFFICES ASSUME IInv, [Next]_vars PROVE SpoolStep
    OBVIOUS
  <1>1. ASSUME NEW p \in Procs, Kinds(p)
        PROVE  SpoolStep
    BY <1>1, StaysImplements, EnqueuesImplements, PublishesImplements, DeletesImplements,
       ReclaimsImplements, ClaimingImplements, ReleasesImplements, RemovesImplements,
       LeavesImplements DEF Kinds, Leaves
  <1>2. ASSUME NEW p \in Procs, Crash(p)
        PROVE  SpoolStep
    BY <1>1, <1>2, KindsOfCrash DEF Kinds
  <1>3. CASE Tick \/ UNCHANGED vars
    <2>1. UNCHANGED <<dir, used, proc>>
      BY <1>3 DEF Tick, vars
    <2>2. \A e \in Events : StageOf(e)' = StageOf(e)
      BY <2>1, StageKept
    <2>3. \A q \in Procs : HeldBy(q)' = HeldBy(q)
      BY <2>1 DEF HeldBy
    <2> QED  BY <2>2, <2>3, SpoolStutters
  <1> QED  BY <1>1, <1>2, <1>3, KindsOfSteps DEF Next

LEMMA InitImplements == Init => Spool!SpoolInit
  <1> SUFFICES ASSUME Init PROVE Spool!SpoolInit
    OBVIOUS
  <1>1. \A e \in Events : StageOf(e) = "new"
    BY DEF Init, StageOf
  <1>2. \A p \in Procs : HeldBy(p) = NoEvent
    BY DEF Init, HeldBy, Idle, Holding
  <1> QED  BY <1>1, <1>2 DEF Spool!SpoolInit

\* Every behaviour of the queue's files, under any interleaving and any crashes,
\* is one of the spool the sender relies on (LocalEventQueue behind drain): an
\* event is taken by one process at a time, and taken back only from the dead.
THEOREM Implements == Spec => ImplementsSpool
  <1>1. IInv /\ [Next]_vars => [Spool!SpoolNext]_(Spool!spoolVars)
    BY StepImplements DEF SpoolStep
  <1> QED  BY InitImplements, Invariant, <1>1, PTL DEF Spec, Spool!SpoolSpec, ImplementsSpool

=============================================================================
