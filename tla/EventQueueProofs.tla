--------------------------- MODULE EventQueueProofs ---------------------------
(***************************************************************************)
(* Proofs about EventQueue, for any number of processes and events and any *)
(* values of the other constants.                                          *)
(***************************************************************************)
EXTENDS EventQueue, FiniteSetTheorems, TLAPS

(* The inductive invariant.  ExclusiveSend alone is not inductive: a drain  *)
(* may claim an event another drain holds, unless a name it claims is       *)
(* queued and a held event has no queued name; and that would fail if a     *)
(* reclaim took a claim from a live holder, unless a claim on its list is   *)
(* older than any live holder's claim can be.                               *)

\* Every name belongs to an event whose enqueue has started.
NamesUsed == \A n \in dir : n.ev \in used

\* What a process that holds a claim may rely on.
HolderInv(p) ==
    proc[p].pc \in Holding =>
        /\ proc[p].cur \in Names
        /\ proc[p].cur.kind = "claim"
        /\ proc[p].cur.ev \in used
        /\ now <= proc[p].cur.since + SendBudget
        /\ \A n \in dir : n.ev = proc[p].cur.ev => n = proc[p].cur
        /\ ~Expired(proc[p].cur, proc[p].mark)

\* What a process relies on about the names it has listed.
ListInv(p) ==
    /\ At(p, "publish") => proc[p].cur.kind = "tmp"
    /\ At(p, "reclaim") =>
           /\ \A n \in proc[p].todo : n.kind = "claim" /\ n.since + ClaimReclaim <= now
           /\ proc[p].fresh = {}
    /\ proc[p].pc \in {"read", "unlink"} =>
           /\ \A n \in proc[p].todo : n.kind = "json"
           /\ \A n \in proc[p].fresh : n.kind = "json" /\ ~Expired(n, proc[p].mark)
    /\ proc[p].pc \in {"drain"} \cup Holding =>
           \A n \in proc[p].todo : n.kind = "json" /\ ~Expired(n, proc[p].mark)

IInv ==
    /\ TypeOK
    /\ IsFiniteSet(dir)
    /\ OneFilePerEvent
    /\ NamesUsed
    /\ ExclusiveSend
    /\ \A p \in Procs : HolderInv(p) /\ ListInv(p)

-----------------------------------------------------------------------------
(* Names.                                                                  *)

\* The names the queue makes are names: the renames of claim, release and
\* reclaim keep the event and the enqueue time.
LEMMA NamesMade ==
    /\ \A e \in Events, t \in Time : TmpName(e, t) \in Names
    /\ \A n \in Names : JsonName(n) \in Names
    /\ \A n \in Names, p \in Procs, t \in Time : ClaimName(n, p, t) \in Names
  BY NumbersAssumption DEF Names, Time, TmpName, JsonName, ClaimName

\* A renamed name leaves the directory a finite set of names.
LEMMA RenameFinite ==
    ASSUME NEW S, IsFiniteSet(S), S \subseteq Names, NEW a \in Names, NEW b \in Names
    PROVE  /\ IsFiniteSet((S \ {a}) \cup {b})
           /\ (S \ {a}) \cup {b} \subseteq Names
  <1>1. IsFiniteSet(S \ {a})
    BY FS_Subset
  <1> QED  BY <1>1, FS_AddElement

\* The same for a name of the directory that gets its queue name back.
LEMMA RequeueFinite ==
    ASSUME NEW S, IsFiniteSet(S), S \subseteq Names, NEW a \in S
    PROVE  /\ IsFiniteSet((S \ {a}) \cup {JsonName(a)})
           /\ (S \ {a}) \cup {JsonName(a)} \subseteq Names
  <1>1. a \in Names /\ JsonName(a) \in Names
    BY NamesMade
  <1> QED  BY <1>1, RenameFinite

-----------------------------------------------------------------------------
(* Type correctness.                                                       *)

\* A process moves to another well-formed local state.
LEMMA ProcMoves ==
    ASSUME proc \in [Procs -> ProcState], NEW p \in Procs, NEW r \in ProcState,
           proc' = [proc EXCEPT ![p] = r]
    PROVE  /\ proc' \in [Procs -> ProcState]
           /\ proc'[p] = r
           /\ \A q \in Procs \ {p} : proc'[q] = proc[q]
  OBVIOUS

\* Every step keeps the types.
LEMMA TypeStep ==
    ASSUME TypeOK, IsFiniteSet(dir), [Next]_vars
    PROVE  TypeOK' /\ IsFiniteSet(dir')
  <1> USE DEF TypeOK, ghosts
  <1>0. 0 \in Time /\ Idle \in ProcState
    BY NumbersAssumption DEF Time, Idle, ProcState, Labels, AllOps
  <1>1. ASSUME NEW p \in Procs, NEW e \in Events, WriteTmp(p, e)
        PROVE  TypeOK' /\ IsFiniteSet(dir')
    <2>1. TmpName(e, now) \in Names
      BY NamesMade
    <2>2. IsFiniteSet(dir') /\ dir' \subseteq Names
      BY <1>1, <2>1, FS_AddElement DEF WriteTmp
    <2>3. proc' \in [Procs -> ProcState]
      BY <1>0, <1>1, <2>1 DEF WriteTmp, ProcState, Labels, AllOps
    <2> QED  BY <1>1, <2>2, <2>3 DEF WriteTmp
  <1>2. ASSUME NEW p \in Procs, PublishTmp(p)
        PROVE  TypeOK' /\ IsFiniteSet(dir')
    <2> DEFINE r == [Idle EXCEPT !.pc = "cap", !.op = "enqueue"]
    <2>a. r \in ProcState
      BY <1>0 DEF ProcState, Labels, AllOps
    <2>b. proc' = [proc EXCEPT ![p] = r] \/ proc' = [proc EXCEPT ![p] = Idle]
      BY <1>2 DEF PublishTmp
    <2>1. proc' \in [Procs -> ProcState]
      <3>1. CASE proc' = [proc EXCEPT ![p] = r]
        BY <2>a, <3>1, ProcMoves
      <3>2. CASE proc' = [proc EXCEPT ![p] = Idle]
        BY <1>0, <3>2, ProcMoves
      <3> QED  BY <2>b, <3>1, <3>2
    <2>2. CASE proc[p].cur \in dir
      <3>1. dir' = (dir \ {proc[p].cur}) \cup {JsonName(proc[p].cur)}
        BY <1>2, <2>2 DEF PublishTmp, Renamed
      <3>2. IsFiniteSet(dir') /\ dir' \subseteq Names
        BY <2>2, <3>1, RequeueFinite
      <3> QED  BY <1>2, <2>1, <3>2 DEF PublishTmp
    <2>3. CASE proc[p].cur \notin dir
      BY <1>2, <2>1, <2>3 DEF PublishTmp
    <2> QED  BY <2>2, <2>3
  <1>3. ASSUME NEW p \in Procs, ListForCap(p)
        PROVE  TypeOK' /\ IsFiniteSet(dir')
    <2>1. CASE Cardinality(Entries) <= MaxEntries
      BY <1>0, <1>3, <2>1 DEF ListForCap
    <2>2. ASSUME NEW V \in Victims(Entries),
                 proc' = [proc EXCEPT ![p].pc = "capRm", ![p].todo = V,
                                      ![p].tally = Cardinality(V)]
          PROVE  TypeOK' /\ IsFiniteSet(dir')
      <3> DEFINE r == [proc[p] EXCEPT !.pc = "capRm", !.todo = V, !.tally = Cardinality(V)]
      <3>1. V \subseteq dir /\ V \subseteq Names
        BY <2>2 DEF Victims, OldestOf, Entries
      <3>2. Cardinality(V) \in Nat
        BY <3>1, FS_Subset, FS_CardinalityType
      <3>3. proc[p] \in ProcState /\ V \in SUBSET Names
        BY <3>1
      <3>4. r \in ProcState
        BY <3>2, <3>3 DEF ProcState, Labels
      <3>5. proc' = [proc EXCEPT ![p] = r]
        BY <2>2
      <3>6. proc' \in [Procs -> ProcState]
        BY <3>4, <3>5, ProcMoves
      <3> QED  BY <1>3, <3>6 DEF ListForCap
    <2> QED  BY <1>3, <2>1, <2>2 DEF ListForCap
  <1>4. ASSUME NEW p \in Procs, RemoveVictim(p)
        PROVE  TypeOK' /\ IsFiniteSet(dir')
    <2>1. PICK n \in proc[p].todo :
                 /\ dir' = dir \ {n}
                 /\ proc' = [proc EXCEPT ![p].todo = @ \ {n}]
      BY <1>4 DEF RemoveVictim
    <2> DEFINE r == [proc[p] EXCEPT !.todo = @ \ {n}]
    <2>2. r \in ProcState
      BY DEF ProcState
    <2>3. proc' \in [Procs -> ProcState]
      BY <2>1, <2>2, ProcMoves
    <2>4. IsFiniteSet(dir')
      BY <2>1, FS_Subset
    <2> QED  BY <1>4, <2>1, <2>3, <2>4 DEF RemoveVictim
  <1>5. ASSUME NEW p \in Procs, ReadOverflow(p)
        PROVE  TypeOK' /\ IsFiniteSet(dir')
    <2> DEFINE t == IF overflow + proc[p].tally <= MaxCount THEN overflow + proc[p].tally
                    ELSE MaxCount
               r == [proc[p] EXCEPT !.pc = "count", !.tally = t]
    <2>1. t \in Nat
      BY NumbersAssumption DEF ProcState
    <2>a. proc[p] \in ProcState
      OBVIOUS
    <2>2. r \in ProcState
      BY <2>1, <2>a DEF ProcState, Labels
    <2>3. proc' = [proc EXCEPT ![p] = r]
      BY <1>5 DEF ReadOverflow
    <2>4. proc' \in [Procs -> ProcState]
      BY <2>2, <2>3, ProcMoves
    <2> QED  BY <1>5, <2>4 DEF ReadOverflow
  <1>6. ASSUME NEW p \in Procs, WriteOverflow(p)
        PROVE  TypeOK' /\ IsFiniteSet(dir')
    <2>1. proc[p].tally \in Nat
      BY DEF ProcState
    <2> QED  BY <1>0, <1>6, <2>1 DEF WriteOverflow
  <1>7. ASSUME NEW p \in Procs, NEW op \in ReadOps, StartRead(p, op)
        PROVE  TypeOK' /\ IsFiniteSet(dir')
    <2>1. {n \in dir : Orphaned(n)} \subseteq Names
      OBVIOUS
    <2>2. proc' \in [Procs -> ProcState]
      BY <1>0, <1>7, <2>1 DEF StartRead, ReadOps, ProcState, Labels, AllOps
    <2> QED  BY <1>7, <2>2 DEF StartRead
  <1>8. ASSUME NEW p \in Procs, Reclaim(p)
        PROVE  TypeOK' /\ IsFiniteSet(dir')
    <2>1. PICK n \in proc[p].todo :
                 /\ dir' = IF n \in dir THEN Renamed(n, JsonName(n)) ELSE dir
                 /\ proc' = [proc EXCEPT ![p].todo = @ \ {n}]
      BY <1>8 DEF Reclaim
    <2> DEFINE r == [proc[p] EXCEPT !.todo = @ \ {n}]
    <2>2. r \in ProcState /\ n \in Names
      BY DEF ProcState
    <2>3. proc' \in [Procs -> ProcState]
      BY <2>1, <2>2, ProcMoves
    <2>4. IsFiniteSet(dir') /\ dir' \subseteq Names
      BY <2>1, <2>2, NamesMade, RenameFinite DEF Renamed
    <2> QED  BY <1>8, <2>3, <2>4 DEF Reclaim
  <1>9. ASSUME NEW p \in Procs, Relist(p)
        PROVE  TypeOK' /\ IsFiniteSet(dir')
    <2>0. Entries \subseteq Names
      BY DEF Entries
    <2> DEFINE r == [proc[p] EXCEPT !.pc = "read", !.todo = Entries]
    <2>1. r \in ProcState
      BY <1>0, <2>0 DEF ProcState, Labels
    <2>2. proc' = [proc EXCEPT ![p] = r]
      BY <1>9 DEF Relist
    <2>3. proc' \in [Procs -> ProcState]
      BY <2>1, <2>2, ProcMoves
    <2> QED  BY <1>9, <2>3 DEF Relist
  <1>10. ASSUME NEW p \in Procs, ReadEntry(p)
        PROVE  TypeOK' /\ IsFiniteSet(dir')
    <2>1. PICK n \in proc[p].todo :
                 \/ proc' = [proc EXCEPT ![p].todo = @ \ {n}, ![p].fresh = @ \cup {n}]
                 \/ proc' = [proc EXCEPT ![p].todo = @ \ {n}, ![p].pc = "unlink", ![p].cur = n]
      BY <1>10 DEF ReadEntry
    <2> DEFINE keep == [proc[p] EXCEPT !.todo = @ \ {n}, !.fresh = @ \cup {n}]
               drop == [proc[p] EXCEPT !.todo = @ \ {n}, !.pc = "unlink", !.cur = n]
    <2>2. keep \in ProcState /\ drop \in ProcState
      <3>1. proc[p] \in ProcState
        OBVIOUS
      <3>2. /\ n \in Names
            /\ proc[p].todo \ {n} \in SUBSET Names
            /\ proc[p].fresh \cup {n} \in SUBSET Names
        BY <3>1 DEF ProcState
      <3>3. keep \in ProcState
        BY <3>1, <3>2 DEF ProcState
      <3>4. drop \in ProcState
        BY <3>1, <3>2 DEF ProcState, Labels
      <3> QED  BY <3>3, <3>4
    <2>3. proc' = [proc EXCEPT ![p] = keep] \/ proc' = [proc EXCEPT ![p] = drop]
      BY <2>1
    <2>4. proc' \in [Procs -> ProcState]
      BY <2>2, <2>3, ProcMoves
    <2> QED  BY <1>10, <2>4 DEF ReadEntry
  <1>11. ASSUME NEW p \in Procs, Unlink(p)
        PROVE  TypeOK' /\ IsFiniteSet(dir')
    <2> DEFINE r == [proc[p] EXCEPT !.pc = "read", !.cur = NoName]
    <2>1. r \in ProcState
      BY <1>0 DEF ProcState, Labels
    <2>2. proc' = [proc EXCEPT ![p] = r]
      BY <1>11 DEF Unlink
    <2>3. proc' \in [Procs -> ProcState]
      BY <2>1, <2>2, ProcMoves
    <2>4. IsFiniteSet(dir') /\ dir' \subseteq Names
      BY <1>11, FS_Subset DEF Unlink
    <2> QED  BY <1>11, <2>3, <2>4 DEF Unlink
  <1>12. ASSUME NEW p \in Procs, EndRead(p)
        PROVE  TypeOK' /\ IsFiniteSet(dir')
    <2>1. CASE proc[p].op = "drain"
      <3>1. PICK V \in SUBSET proc[p].fresh :
                   proc' = [proc EXCEPT ![p].pc = "drain", ![p].todo = V, ![p].fresh = {}]
        BY <1>12, <2>1 DEF EndRead, OldestOf
      <3> DEFINE r == [proc[p] EXCEPT !.pc = "drain", !.todo = V, !.fresh = {}]
      <3>a. proc[p] \in ProcState /\ V \in SUBSET Names
        BY DEF ProcState
      <3>2. r \in ProcState
        BY <3>a DEF ProcState, Labels
      <3>3. proc' \in [Procs -> ProcState]
        BY <3>1, <3>2, ProcMoves
      <3> QED  BY <1>12, <3>3 DEF EndRead
    <2>2. CASE proc[p].op # "drain"
      <3> DEFINE r == [Idle EXCEPT !.pc = "cap", !.op = "prune"]
      <3>a. r \in ProcState
        BY <1>0 DEF ProcState, Labels, AllOps
      <3>b. proc' = [proc EXCEPT ![p] = r] \/ proc' = [proc EXCEPT ![p] = Idle]
        BY <1>12, <2>2 DEF EndRead
      <3>1. proc' \in [Procs -> ProcState]
        <4>1. CASE proc' = [proc EXCEPT ![p] = r]
          BY <3>a, <4>1, ProcMoves
        <4>2. CASE proc' = [proc EXCEPT ![p] = Idle]
          BY <1>0, <4>2, ProcMoves
        <4> QED  BY <3>b, <4>1, <4>2
      <3> QED  BY <1>12, <3>1 DEF EndRead
    <2> QED  BY <2>1, <2>2
  <1>13. ASSUME NEW p \in Procs, Claim(p)
        PROVE  TypeOK' /\ IsFiniteSet(dir')
    <2>1. PICK n \in proc[p].todo :
                 IF n \in dir
                 THEN /\ dir' = Renamed(n, ClaimName(n, p, now))
                      /\ proc' = [proc EXCEPT ![p].todo = @ \ {n}, ![p].pc = "send",
                                              ![p].cur = ClaimName(n, p, now)]
                 ELSE /\ dir' = dir
                      /\ proc' = [proc EXCEPT ![p].todo = @ \ {n}]
      BY <1>13 DEF Claim
    <2> DEFINE won == [proc[p] EXCEPT !.todo = @ \ {n}, !.pc = "send", !.cur = ClaimName(n, p, now)]
               lost == [proc[p] EXCEPT !.todo = @ \ {n}]
    <2>2. n \in Names
      BY DEF ProcState
    <2>3. ClaimName(n, p, now) \in Names
      BY <2>2, NamesMade
    <2>4. won \in ProcState /\ lost \in ProcState
      <3>1. proc[p] \in ProcState
        OBVIOUS
      <3>2. proc[p].todo \ {n} \in SUBSET Names
        BY <3>1 DEF ProcState
      <3>3. won \in ProcState
        BY <2>3, <3>1, <3>2 DEF ProcState, Labels
      <3>4. lost \in ProcState
        BY <3>1, <3>2 DEF ProcState
      <3> QED  BY <3>3, <3>4
    <2>5. proc' = [proc EXCEPT ![p] = won] \/ proc' = [proc EXCEPT ![p] = lost]
      BY <2>1
    <2>6. proc' \in [Procs -> ProcState]
      <3>1. CASE proc' = [proc EXCEPT ![p] = won]
        BY <2>4, <3>1, ProcMoves
      <3>2. CASE proc' = [proc EXCEPT ![p] = lost]
        BY <2>4, <3>2, ProcMoves
      <3> QED  BY <2>5, <3>1, <3>2
    <2>7. IsFiniteSet(dir') /\ dir' \subseteq Names
      BY <2>1, <2>2, <2>3, RenameFinite DEF Renamed
    <2> QED  BY <1>13, <2>6, <2>7 DEF Claim
  <1>14. ASSUME NEW p \in Procs, EndDrain(p)
        PROVE  TypeOK' /\ IsFiniteSet(dir')
    BY <1>0, <1>14 DEF EndDrain
  <1>15. ASSUME NEW p \in Procs, SendTaken(p) \/ SendAnswerLost(p) \/ SendRefused(p)
        PROVE  TypeOK' /\ IsFiniteSet(dir')
    <2> DEFINE kept == [proc[p] EXCEPT !.pc = "release"]
               gone == [proc[p] EXCEPT !.pc = "remove"]
    <2>1. kept \in ProcState /\ gone \in ProcState
      BY DEF ProcState, Labels
    <2>2. proc' = [proc EXCEPT ![p] = kept] \/ proc' = [proc EXCEPT ![p] = gone]
      BY <1>15 DEF SendTaken, SendAnswerLost, SendRefused
    <2>3. proc' \in [Procs -> ProcState]
      BY <2>1, <2>2, ProcMoves
    <2>5. accepted' \in [Events -> Nat] /\ doubt' \in [Events -> Nat] /\ faults' \in 0 .. MaxFaults
      BY <1>15, NumbersAssumption DEF SendTaken, SendAnswerLost, SendRefused
    <2> QED  BY <1>15, <2>3, <2>5 DEF SendTaken, SendAnswerLost, SendRefused
  <1>16. ASSUME NEW p \in Procs, Release(p)
        PROVE  TypeOK' /\ IsFiniteSet(dir')
    <2> DEFINE r == [proc[p] EXCEPT !.pc = "drain", !.cur = NoName]
    <2>1. r \in ProcState
      BY <1>0 DEF ProcState, Labels
    <2>2. proc' = [proc EXCEPT ![p] = r]
      BY <1>16 DEF Release
    <2>3. proc' \in [Procs -> ProcState]
      BY <2>1, <2>2, ProcMoves
    <2>4. IsFiniteSet(dir') /\ dir' \subseteq Names
      <3>1. CASE proc[p].cur \in dir
        <4>1. dir' = (dir \ {proc[p].cur}) \cup {JsonName(proc[p].cur)}
          BY <1>16, <3>1 DEF Release, Renamed
        <4> QED  BY <3>1, <4>1, RequeueFinite
      <3>2. CASE proc[p].cur \notin dir
        BY <1>16, <3>2 DEF Release
      <3> QED  BY <3>1, <3>2
    <2> QED  BY <1>16, <2>3, <2>4 DEF Release
  <1>17. ASSUME NEW p \in Procs, Remove(p)
        PROVE  TypeOK' /\ IsFiniteSet(dir')
    <2> DEFINE r == [proc[p] EXCEPT !.pc = "drain", !.cur = NoName]
    <2>1. r \in ProcState
      BY <1>0 DEF ProcState, Labels
    <2>2. proc' = [proc EXCEPT ![p] = r]
      BY <1>17 DEF Remove
    <2>3. proc' \in [Procs -> ProcState]
      BY <2>1, <2>2, ProcMoves
    <2>4. IsFiniteSet(dir') /\ dir' \subseteq Names
      BY <1>17, FS_Subset DEF Remove
    <2> QED  BY <1>17, <2>3, <2>4 DEF Remove
  <1>18. ASSUME NEW p \in Procs, StartDiscard(p) \/ StartClear(p)
        PROVE  TypeOK' /\ IsFiniteSet(dir')
    <2>1. {n \in dir : n.at <= now} \subseteq Names /\ dir \subseteq Names
      OBVIOUS
    <2>2. CASE StartDiscard(p)
      <3>1. proc' \in [Procs -> ProcState]
        BY <1>0, <2>1, <2>2 DEF StartDiscard, ProcState, Labels, AllOps
      <3> QED  BY <2>2, <3>1 DEF StartDiscard
    <2>3. CASE StartClear(p)
      <3>1. proc' \in [Procs -> ProcState]
        BY <1>0, <2>1, <2>3 DEF StartClear, ProcState, Labels, AllOps
      <3> QED  BY <2>3, <3>1 DEF StartClear
    <2> QED  BY <1>18, <2>2, <2>3
  <1>19. ASSUME NEW p \in Procs, Sweep(p)
        PROVE  TypeOK' /\ IsFiniteSet(dir')
    <2>1. PICK n \in proc[p].todo :
                 /\ dir' = dir \ {n}
                 /\ proc' = [proc EXCEPT ![p].todo = @ \ {n}]
      BY <1>19 DEF Sweep
    <2> DEFINE r == [proc[p] EXCEPT !.todo = @ \ {n}]
    <2>2. r \in ProcState
      BY DEF ProcState
    <2>3. proc' \in [Procs -> ProcState]
      BY <2>1, <2>2, ProcMoves
    <2>4. IsFiniteSet(dir')
      BY <2>1, FS_Subset
    <2> QED  BY <1>19, <2>1, <2>3, <2>4 DEF Sweep
  <1>20. ASSUME NEW p \in Procs, EndSweep(p)
        PROVE  TypeOK' /\ IsFiniteSet(dir')
    <2>1. proc' \in [Procs -> ProcState]
      BY <1>0, <1>20, ProcMoves DEF EndSweep
    <2>2. overflow' \in Nat
      BY <1>20 DEF EndSweep
    <2> QED  BY <1>20, <2>1, <2>2 DEF EndSweep
  <1>21. ASSUME NEW p \in Procs, Crash(p)
        PROVE  TypeOK' /\ IsFiniteSet(dir')
    <2>1. accepted' \in [Events -> Nat] /\ doubt' \in [Events -> Nat] /\ faults' \in 0 .. MaxFaults
      BY <1>21, NumbersAssumption DEF Crash
    <2>2. proc' \in [Procs -> ProcState]
      BY <1>0, <1>21, ProcMoves DEF Crash
    <2> QED  BY <1>21, <2>1, <2>2 DEF Crash
  <1>22. CASE Tick
    BY <1>22, NumbersAssumption DEF Tick, Time
  <1>23. CASE UNCHANGED vars
    BY <1>23 DEF vars
  <1>24. ASSUME NEW p \in Procs, Start(p)
         PROVE  TypeOK' /\ IsFiniteSet(dir')
    BY <1>24, <1>1, <1>7, <1>18 DEF Start
  <1>25. ASSUME NEW p \in Procs, Step(p)
         PROVE  TypeOK' /\ IsFiniteSet(dir')
    BY <1>25, <1>2, <1>3, <1>4, <1>5, <1>6, <1>8, <1>9, <1>10, <1>11, <1>12, <1>13, <1>14,
       <1>15, <1>16, <1>17, <1>19, <1>20 DEF Step
  <1> QED  BY <1>21, <1>22, <1>23, <1>24, <1>25 DEF Next

-----------------------------------------------------------------------------
(* The steps that leave the holders alone.                                 *)

HoldersKept ==
    /\ OneFilePerEvent' /\ NamesUsed' /\ ExclusiveSend'
    /\ \A q \in Procs : HolderInv(q)' /\ ListInv(q)'

\* A step of p that renames nothing, takes no claim and keeps its own lists in
\* order: the rest of the invariant is about the others and about fewer names.
LEMMA QuietStep ==
    ASSUME IInv, NEW p \in Procs,
           \A q \in Procs \ {p} : proc'[q] = proc[q],
           now' = now, used' = used, dir' \subseteq dir,
           proc'[p].pc \in Holding =>
               /\ proc[p].pc \in Holding
               /\ proc'[p].cur = proc[p].cur
               /\ proc'[p].mark = proc[p].mark,
           ListInv(p)'
    PROVE  HoldersKept
  <1>1. OneFilePerEvent' /\ NamesUsed'
    BY DEF IInv, OneFilePerEvent, NamesUsed
  <1>2. \A q \in Procs :
            proc'[q].pc \in Holding =>
                /\ proc[q].pc \in Holding
                /\ proc'[q].cur = proc[q].cur
                /\ proc'[q].mark = proc[q].mark
    OBVIOUS
  <1>3. ExclusiveSend'
    BY <1>2 DEF IInv, ExclusiveSend
  <1>4. \A q \in Procs : HolderInv(q)'
    BY <1>2 DEF IInv, HolderInv, Expired
  <1>5. ASSUME NEW q \in Procs \ {p}
        PROVE  ListInv(q)'
    BY <1>5 DEF IInv, ListInv, At, Expired
  <1> QED  BY <1>1, <1>3, <1>4, <1>5 DEF HoldersKept

\* A step of p that renames a to b, two names of one event that no other process
\* holds, and after which p holds nothing.
LEMMA RenameStep ==
    ASSUME IInv, NEW p \in Procs, NEW a \in dir, NEW b, b.ev = a.ev,
           \A q \in Procs \ {p} : proc'[q] = proc[q],
           now' = now, used' = used, dir' = Renamed(a, b),
           proc'[p].pc \notin Holding,
           \A q \in Procs \ {p} : proc[q].pc \in Holding => proc[q].cur.ev # a.ev,
           ListInv(p)'
    PROVE  HoldersKept
  <1>1. dir' = (dir \ {a}) \cup {b}
    BY DEF Renamed
  <1>2. OneFilePerEvent' /\ NamesUsed'
    BY <1>1 DEF IInv, OneFilePerEvent, NamesUsed
  <1>3. ExclusiveSend'
    BY DEF IInv, ExclusiveSend
  <1>4. ASSUME NEW q \in Procs
        PROVE  HolderInv(q)'
    BY <1>1, <1>4 DEF IInv, HolderInv, Expired
  <1>5. ASSUME NEW q \in Procs \ {p}
        PROVE  ListInv(q)'
    BY <1>5 DEF IInv, ListInv, At, Expired
  <1> QED  BY <1>2, <1>3, <1>4, <1>5 DEF HoldersKept

-----------------------------------------------------------------------------
(* The inductive step.                                                     *)

\* Every step keeps the part of the invariant that is not about types.
LEMMA HoldersStep ==
    ASSUME IInv, [Next]_vars
    PROVE  HoldersKept
  <1> USE DEF ghosts
  <1>0. /\ proc \in [Procs -> ProcState] /\ dir \subseteq Names /\ now \in Time
        /\ \A p \in Procs : proc[p] \in ProcState
    BY DEF IInv, TypeOK
  <1>1. ASSUME NEW p \in Procs, NEW e \in Events, WriteTmp(p, e)
        PROVE  HoldersKept
    <2>1. /\ dir' = dir \cup {TmpName(e, now)} /\ used' = used \cup {e} /\ now' = now
          /\ e \notin used
      BY <1>1 DEF WriteTmp
    <2>2. TmpName(e, now).ev = e /\ TmpName(e, now).kind = "tmp"
      BY DEF TmpName
    <2>3. proc'[p].pc = "publish" /\ proc'[p].cur = TmpName(e, now)
      BY <1>0, <1>1 DEF WriteTmp, Idle
    <2>4. \A q \in Procs \ {p} : proc'[q] = proc[q]
      BY <1>0, <1>1 DEF WriteTmp
    <2>5. OneFilePerEvent' /\ NamesUsed'
      BY <2>1, <2>2 DEF IInv, OneFilePerEvent, NamesUsed
    <2>6. ExclusiveSend'
      BY <2>3, <2>4 DEF IInv, ExclusiveSend, Holding
    <2>7. ASSUME NEW q \in Procs
          PROVE  HolderInv(q)'
      BY <2>1, <2>2, <2>3, <2>4, <2>7 DEF IInv, HolderInv, Expired, Holding
    <2>8. ASSUME NEW q \in Procs
          PROVE  ListInv(q)'
      BY <2>1, <2>2, <2>3, <2>4, <2>8 DEF IInv, ListInv, At, Expired, Holding
    <2> QED  BY <2>5, <2>6, <2>7, <2>8 DEF HoldersKept
  <1>2. ASSUME NEW p \in Procs, PublishTmp(p)
        PROVE  HoldersKept
    <2>1. /\ proc'[p].pc \in {"cap", "idle"}
          /\ \A q \in Procs \ {p} : proc'[q] = proc[q]
          /\ now' = now /\ used' = used
      <3>1. \/ proc' = [proc EXCEPT ![p] = [Idle EXCEPT !.pc = "cap", !.op = "enqueue"]]
            \/ proc' = [proc EXCEPT ![p] = Idle]
        BY <1>2 DEF PublishTmp
      <3>2. proc'[p] \in {[Idle EXCEPT !.pc = "cap", !.op = "enqueue"], Idle}
        BY <1>0, <3>1
      <3>3. proc'[p].pc \in {"cap", "idle"}
        <4>1. [Idle EXCEPT !.pc = "cap", !.op = "enqueue"].pc = "cap" /\ Idle.pc = "idle"
          BY DEF Idle
        <4> QED  BY <3>2, <4>1
      <3> QED  BY <1>0, <1>2, <3>1, <3>3 DEF PublishTmp
    <2>2. proc'[p].pc \notin Holding /\ ListInv(p)'
      BY <2>1 DEF ListInv, At, Holding
    <2>3. CASE proc[p].cur \in dir
      <3>1. dir' = Renamed(proc[p].cur, JsonName(proc[p].cur))
        BY <1>2, <2>3 DEF PublishTmp
      <3>2. JsonName(proc[p].cur).ev = proc[p].cur.ev
        BY DEF JsonName
      <3>3. proc[p].cur.kind = "tmp"
        BY <1>2 DEF IInv, ListInv, PublishTmp
      <3>4. \A q \in Procs \ {p} : proc[q].pc \in Holding => proc[q].cur.ev # proc[p].cur.ev
        BY <2>3, <3>3 DEF IInv, HolderInv
      <3> QED  BY <2>1, <2>2, <2>3, <3>1, <3>2, <3>4, RenameStep
    <2>4. CASE proc[p].cur \notin dir
      <3>1. dir' = dir
        BY <1>2, <2>4 DEF PublishTmp
      <3> QED  BY <2>1, <2>2, <3>1, QuietStep
    <2> QED  BY <2>3, <2>4
  <1>3. ASSUME NEW p \in Procs, ListForCap(p)
        PROVE  HoldersKept
    <2>1. proc'[p].pc \in {"idle", "capRm"}
      <3>1. CASE Cardinality(Entries) <= MaxEntries
        BY <1>0, <1>3, <3>1 DEF ListForCap, Idle
      <3>2. CASE ~(Cardinality(Entries) <= MaxEntries)
        <4>1. PICK V : proc' = [proc EXCEPT ![p].pc = "capRm", ![p].todo = V,
                                            ![p].tally = Cardinality(V)]
          BY <1>3, <3>2 DEF ListForCap
        <4> QED  BY <1>0, <4>1 DEF ProcState
      <3> QED  BY <3>1, <3>2
    <2>2. \A q \in Procs \ {p} : proc'[q] = proc[q]
      BY <1>0, <1>3 DEF ListForCap
    <2>3. proc'[p].pc \notin Holding /\ ListInv(p)'
      BY <2>1 DEF ListInv, At, Holding
    <2> QED  BY <1>3, <2>2, <2>3, QuietStep DEF ListForCap
  <1>4. ASSUME NEW p \in Procs, RemoveVictim(p)
        PROVE  HoldersKept
    <2>1. proc'[p].pc \notin Holding /\ ListInv(p)'
      BY <1>0, <1>4 DEF RemoveVictim, ListInv, At, Holding, Idle
    <2>2. \A q \in Procs \ {p} : proc'[q] = proc[q]
      BY <1>0, <1>4 DEF RemoveVictim
    <2> QED  BY <1>4, <2>1, <2>2, QuietStep DEF RemoveVictim
  <1>5. ASSUME NEW p \in Procs, ReadOverflow(p)
        PROVE  HoldersKept
    <2>1. proc'[p].pc \notin Holding /\ ListInv(p)'
      BY <1>0, <1>5 DEF ReadOverflow, ListInv, At, Holding, Idle
    <2>2. \A q \in Procs \ {p} : proc'[q] = proc[q]
      BY <1>0, <1>5 DEF ReadOverflow
    <2> QED  BY <1>5, <2>1, <2>2, QuietStep DEF ReadOverflow
  <1>6. ASSUME NEW p \in Procs, WriteOverflow(p)
        PROVE  HoldersKept
    <2>1. proc'[p].pc \notin Holding /\ ListInv(p)'
      BY <1>0, <1>6 DEF WriteOverflow, ListInv, At, Holding, Idle
    <2>2. \A q \in Procs \ {p} : proc'[q] = proc[q]
      BY <1>0, <1>6 DEF WriteOverflow
    <2> QED  BY <1>6, <2>1, <2>2, QuietStep DEF WriteOverflow
  <1>7. ASSUME NEW p \in Procs, NEW op \in ReadOps, StartRead(p, op)
        PROVE  HoldersKept
    <2>1. proc'[p].pc \notin Holding /\ ListInv(p)'
      BY <1>0, <1>7 DEF StartRead, ListInv, At, Holding, Idle, Orphaned
    <2>2. \A q \in Procs \ {p} : proc'[q] = proc[q]
      BY <1>0, <1>7 DEF StartRead
    <2> QED  BY <1>7, <2>1, <2>2, QuietStep DEF StartRead
  <1>8. ASSUME NEW p \in Procs, Reclaim(p)
        PROVE  HoldersKept
    <2>1. PICK n \in proc[p].todo :
                 /\ dir' = IF n \in dir THEN Renamed(n, JsonName(n)) ELSE dir
                 /\ proc' = [proc EXCEPT ![p].todo = @ \ {n}]
      BY <1>8 DEF Reclaim
    <2>2. /\ proc'[p] = [proc[p] EXCEPT !.todo = @ \ {n}]
          /\ \A q \in Procs \ {p} : proc'[q] = proc[q]
          /\ now' = now /\ used' = used
      BY <1>0, <1>8, <2>1 DEF Reclaim
    <2>3. proc'[p].pc = "reclaim" /\ proc'[p].todo \subseteq proc[p].todo /\ proc'[p].fresh = proc[p].fresh
      BY <1>0, <1>8, <2>2 DEF Reclaim, At, ProcState
    <2>4. ListInv(p) /\ At(p, "reclaim")
      BY <1>8 DEF IInv, Reclaim
    <2>5. proc'[p].pc \notin Holding /\ ListInv(p)'
      BY <2>2, <2>3, <2>4 DEF ListInv, At, Holding
    <2>6. CASE n \in dir
      <3>1. n \in Names /\ n.since \in Time /\ n.since + ClaimReclaim <= now
        BY <1>0, <2>4, <2>6 DEF ListInv, Names
      <3>2. ASSUME NEW q \in Procs \ {p}, proc[q].pc \in Holding, proc[q].cur.ev = n.ev
            PROVE  FALSE
        <4>1. n = proc[q].cur /\ now <= n.since + SendBudget
          BY <2>6, <3>2 DEF IInv, HolderInv
        <4> QED
          BY <1>0, <3>1, <4>1, NumbersAssumption, BudgetAssumption DEF Time
      <3>3. JsonName(n).ev = n.ev
        BY DEF JsonName
      <3> QED  BY <2>1, <2>2, <2>5, <2>6, <3>2, <3>3, RenameStep
    <2>7. CASE n \notin dir
      BY <2>1, <2>2, <2>5, <2>7, QuietStep
    <2> QED  BY <2>6, <2>7
  <1>9. ASSUME NEW p \in Procs, Relist(p)
        PROVE  HoldersKept
    <2>1. /\ proc'[p] = [proc[p] EXCEPT !.pc = "read", !.todo = Entries]
          /\ \A q \in Procs \ {p} : proc'[q] = proc[q]
      BY <1>0, <1>9 DEF Relist
    <2>2. proc'[p].pc = "read" /\ proc'[p].todo = Entries /\ proc'[p].fresh = {}
      BY <1>0, <1>9, <2>1 DEF Relist, IInv, ListInv, ProcState
    <2>3. proc'[p].pc \notin Holding /\ ListInv(p)'
      BY <2>2 DEF ListInv, At, Holding, Entries
    <2> QED  BY <1>9, <2>1, <2>3, QuietStep DEF Relist
  <1>10. ASSUME NEW p \in Procs, ReadEntry(p)
         PROVE  HoldersKept
    <2>1. PICK n \in proc[p].todo :
                 \/ /\ ~Expired(n, proc[p].mark)
                    /\ proc' = [proc EXCEPT ![p].todo = @ \ {n}, ![p].fresh = @ \cup {n}]
                 \/ proc' = [proc EXCEPT ![p].todo = @ \ {n}, ![p].pc = "unlink", ![p].cur = n]
      BY <1>10 DEF ReadEntry
    <2>2. /\ proc'[p].pc \in {"read", "unlink"}
          /\ proc'[p].todo = proc[p].todo \ {n}
          /\ \/ proc'[p].fresh = proc[p].fresh
             \/ proc'[p].fresh = proc[p].fresh \cup {n} /\ ~Expired(n, proc[p].mark)
          /\ proc'[p].mark = proc[p].mark
          /\ \A q \in Procs \ {p} : proc'[q] = proc[q]
      BY <1>0, <1>10, <2>1 DEF ReadEntry, At, ProcState
    <2>3. /\ \A m \in proc[p].todo : m.kind = "json"
          /\ \A m \in proc[p].fresh : m.kind = "json" /\ ~Expired(m, proc[p].mark)
      BY <1>10 DEF ReadEntry, IInv, ListInv, At
    <2>4. proc'[p].pc \notin Holding /\ ListInv(p)'
      BY <2>2, <2>3 DEF ListInv, At, Holding, Expired
    <2> QED  BY <1>10, <2>2, <2>4, QuietStep DEF ReadEntry
  <1>11. ASSUME NEW p \in Procs, Unlink(p)
         PROVE  HoldersKept
    <2>1. /\ proc'[p] = [proc[p] EXCEPT !.pc = "read", !.cur = NoName]
          /\ \A q \in Procs \ {p} : proc'[q] = proc[q]
      BY <1>0, <1>11 DEF Unlink
    <2>2. /\ proc'[p].pc = "read" /\ proc'[p].todo = proc[p].todo
          /\ proc'[p].fresh = proc[p].fresh /\ proc'[p].mark = proc[p].mark
      BY <1>0, <2>1 DEF ProcState
    <2>3. ListInv(p) /\ At(p, "unlink")
      BY <1>11 DEF Unlink, IInv
    <2>4. proc'[p].pc \notin Holding /\ ListInv(p)'
      BY <2>2, <2>3 DEF ListInv, At, Holding, Expired
    <2> QED  BY <1>11, <2>1, <2>4, QuietStep DEF Unlink
  <1>12. ASSUME NEW p \in Procs, EndRead(p)
         PROVE  HoldersKept
    <2>1. \A q \in Procs \ {p} : proc'[q] = proc[q]
      BY <1>0, <1>12 DEF EndRead
    <2>2. CASE proc[p].op = "drain"
      <3>1. PICK V \in SUBSET proc[p].fresh :
                   proc' = [proc EXCEPT ![p].pc = "drain", ![p].todo = V, ![p].fresh = {}]
        BY <1>12, <2>2 DEF EndRead, OldestOf
      <3>2. proc'[p].pc = "drain" /\ proc'[p].todo = V /\ proc'[p].mark = proc[p].mark
        BY <1>0, <3>1 DEF ProcState
      <3>3. \A n \in V : n.kind = "json" /\ ~Expired(n, proc[p].mark)
        BY <1>12 DEF EndRead, IInv, ListInv, At
      <3>4. proc'[p].pc \notin Holding /\ ListInv(p)'
        BY <3>2, <3>3 DEF ListInv, At, Holding, Expired
      <3> QED  BY <1>12, <2>1, <3>4, QuietStep DEF EndRead
    <2>3. CASE proc[p].op # "drain"
      <3>1. proc'[p].pc \in {"idle", "cap"}
        <4>1. \/ proc' = [proc EXCEPT ![p] = [Idle EXCEPT !.pc = "cap", !.op = "prune"]]
            \/ proc' = [proc EXCEPT ![p] = Idle]
        BY <1>12, <2>3 DEF EndRead
      <4>2. proc'[p] \in {[Idle EXCEPT !.pc = "cap", !.op = "prune"], Idle}
        BY <1>0, <4>1
      <4>3. [Idle EXCEPT !.pc = "cap", !.op = "prune"].pc = "cap" /\ Idle.pc = "idle"
        BY DEF Idle
      <4> QED  BY <4>2, <4>3
      <3>2. proc'[p].pc \notin Holding /\ ListInv(p)'
        BY <3>1 DEF ListInv, At, Holding
      <3> QED  BY <1>12, <2>1, <3>2, QuietStep DEF EndRead
    <2> QED  BY <2>2, <2>3
  <1>13. ASSUME NEW p \in Procs, Claim(p)
         PROVE  HoldersKept
    <2>1. PICK n \in proc[p].todo :
                 IF n \in dir
                 THEN /\ dir' = Renamed(n, ClaimName(n, p, now))
                      /\ proc' = [proc EXCEPT ![p].todo = @ \ {n}, ![p].pc = "send",
                                              ![p].cur = ClaimName(n, p, now)]
                 ELSE /\ dir' = dir
                      /\ proc' = [proc EXCEPT ![p].todo = @ \ {n}]
      BY <1>13 DEF Claim
    <2>2. /\ \A q \in Procs \ {p} : proc'[q] = proc[q]
          /\ now' = now /\ used' = used
          /\ proc'[p].todo \subseteq proc[p].todo
          /\ proc'[p].mark = proc[p].mark
      BY <1>0, <1>13, <2>1 DEF Claim, ProcState
    <2>3. At(p, "drain") /\ \A m \in proc[p].todo : m.kind = "json" /\ ~Expired(m, proc[p].mark)
      BY <1>13 DEF Claim, IInv, ListInv, At
    <2>4. CASE n \in dir
      <3> DEFINE claim == ClaimName(n, p, now)
      <3>1. /\ dir' = (dir \ {n}) \cup {claim}
            /\ proc'[p].pc = "send" /\ proc'[p].cur = claim
        BY <1>0, <2>1, <2>4 DEF Renamed, ProcState
      <3>2. /\ claim \in Names /\ claim.ev = n.ev /\ claim.kind = "claim"
            /\ claim.since = now /\ claim.at = n.at
        BY <1>0, <2>4, NamesMade DEF ClaimName
      <3>3. \A q \in Procs \ {p} : proc[q].pc \in Holding => proc[q].cur.ev # n.ev
        BY <2>3, <2>4 DEF IInv, HolderInv
      <3>4. OneFilePerEvent' /\ NamesUsed'
        BY <2>2, <2>4, <3>1, <3>2 DEF IInv, OneFilePerEvent, NamesUsed
      <3>5. ExclusiveSend'
        BY <2>2, <3>1, <3>2, <3>3 DEF IInv, ExclusiveSend
      <3>6. HolderInv(p)'
        <4>1. n.ev \in used /\ ~Expired(n, proc[p].mark)
          BY <2>3, <2>4 DEF IInv, NamesUsed
        <4>2. now <= now + SendBudget
          BY <1>0, NumbersAssumption DEF Time
        <4>3. \A m \in dir' : m.ev = claim.ev => m = claim
          BY <2>4, <3>1, <3>2 DEF IInv, OneFilePerEvent
        <4> QED  BY <2>2, <3>1, <3>2, <4>1, <4>2, <4>3 DEF HolderInv, Expired
      <3>7. ASSUME NEW q \in Procs \ {p}
            PROVE  HolderInv(q)'
        BY <2>2, <3>1, <3>2, <3>3, <3>7 DEF IInv, HolderInv, Expired
      <3>8. ListInv(p)'
        BY <2>2, <2>3, <3>1 DEF ListInv, At, Holding, Expired
      <3>9. ASSUME NEW q \in Procs \ {p}
            PROVE  ListInv(q)'
        BY <2>2, <3>9 DEF IInv, ListInv, At, Expired
      <3> QED  BY <3>4, <3>5, <3>6, <3>7, <3>8, <3>9 DEF HoldersKept
    <2>5. CASE n \notin dir
      <3>1. dir' = dir /\ proc'[p].pc = "drain"
        BY <1>0, <2>1, <2>3, <2>5 DEF At, ProcState
      <3>2. proc'[p].pc \notin Holding /\ ListInv(p)'
        BY <2>2, <2>3, <3>1 DEF ListInv, At, Holding, Expired
      <3> QED  BY <2>2, <3>1, <3>2, QuietStep
    <2> QED  BY <2>4, <2>5
  <1>14. ASSUME NEW p \in Procs, EndDrain(p)
         PROVE  HoldersKept
    <2>1. proc'[p].pc \notin Holding /\ ListInv(p)'
      BY <1>0, <1>14 DEF EndDrain, ListInv, At, Holding, Idle
    <2>2. \A q \in Procs \ {p} : proc'[q] = proc[q]
      BY <1>0, <1>14 DEF EndDrain
    <2> QED  BY <1>14, <2>1, <2>2, QuietStep DEF EndDrain
  <1>15. ASSUME NEW p \in Procs, SendTaken(p) \/ SendAnswerLost(p) \/ SendRefused(p)
         PROVE  HoldersKept
    <2>1. At(p, "send")
      BY <1>15 DEF SendTaken, SendAnswerLost, SendRefused
    <2>2. /\ proc'[p].pc \in {"release", "remove"}
          /\ proc'[p].todo = proc[p].todo /\ proc'[p].cur = proc[p].cur
          /\ proc'[p].mark = proc[p].mark
          /\ \A q \in Procs \ {p} : proc'[q] = proc[q]
      BY <1>0, <1>15 DEF SendTaken, SendAnswerLost, SendRefused, ProcState
    <2>3. now' = now /\ used' = used /\ dir' = dir
      BY <1>15 DEF SendTaken, SendAnswerLost, SendRefused
    <2>4. ListInv(p)'
      BY <2>1, <2>2 DEF IInv, ListInv, At, Holding, Expired
    <2> QED  BY <2>1, <2>2, <2>3, <2>4, QuietStep DEF At, Holding
  <1>16. ASSUME NEW p \in Procs, Release(p) \/ Remove(p)
         PROVE  HoldersKept
    <2>1. At(p, "release") \/ At(p, "remove")
      BY <1>16 DEF Release, Remove
    <2>2. /\ proc'[p] = [proc[p] EXCEPT !.pc = "drain", !.cur = NoName]
          /\ \A q \in Procs \ {p} : proc'[q] = proc[q]
          /\ now' = now /\ used' = used
      BY <1>0, <1>16 DEF Release, Remove
    <2>3. proc'[p].pc = "drain" /\ proc'[p].todo = proc[p].todo /\ proc'[p].mark = proc[p].mark
      BY <1>0, <2>2 DEF ProcState
    <2>4. proc'[p].pc \notin Holding /\ ListInv(p)'
      BY <2>1, <2>3 DEF IInv, ListInv, At, Holding, Expired
    <2>5. CASE Release(p) /\ proc[p].cur \in dir
      <3>1. dir' = Renamed(proc[p].cur, JsonName(proc[p].cur))
        BY <2>5 DEF Release
      <3>2. JsonName(proc[p].cur).ev = proc[p].cur.ev
        BY DEF JsonName
      <3>3. \A q \in Procs \ {p} : proc[q].pc \in Holding => proc[q].cur.ev # proc[p].cur.ev
        BY <2>1 DEF IInv, ExclusiveSend, At, Holding
      <3> QED  BY <2>2, <2>4, <2>5, <3>1, <3>2, <3>3, RenameStep
    <2>6. CASE ~(Release(p) /\ proc[p].cur \in dir)
      <3>1. dir' \subseteq dir
        BY <1>16, <2>6 DEF Release, Remove
      <3> QED  BY <2>2, <2>4, <3>1, QuietStep
    <2> QED  BY <2>5, <2>6
  <1>17. ASSUME NEW p \in Procs, StartDiscard(p) \/ StartClear(p)
         PROVE  HoldersKept
    <2>1. proc'[p].pc \in {"sweep", "idle"} /\ \A q \in Procs \ {p} : proc'[q] = proc[q]
      <3>1. CASE StartDiscard(p)
        BY <1>0, <3>1 DEF StartDiscard, Idle
      <3>2. CASE StartClear(p)
        BY <1>0, <3>2 DEF StartClear, Idle
      <3> QED  BY <1>17, <3>1, <3>2
    <2>2. proc'[p].pc \notin Holding /\ ListInv(p)'
      BY <2>1 DEF ListInv, At, Holding
    <2>3. now' = now /\ used' = used /\ dir' \subseteq dir
      BY <1>17 DEF StartDiscard, StartClear
    <2> QED  BY <2>1, <2>2, <2>3, QuietStep
  <1>18. ASSUME NEW p \in Procs, Sweep(p) \/ EndSweep(p)
         PROVE  HoldersKept
    <2>1. proc'[p].pc \in {"sweep", "idle"} /\ \A q \in Procs \ {p} : proc'[q] = proc[q]
      BY <1>0, <1>18 DEF Sweep, EndSweep, Idle, At, ProcState
    <2>2. proc'[p].pc \notin Holding /\ ListInv(p)'
      BY <2>1 DEF ListInv, At, Holding
    <2>3. now' = now /\ used' = used /\ dir' \subseteq dir
      BY <1>18 DEF Sweep, EndSweep
    <2> QED  BY <2>1, <2>2, <2>3, QuietStep
  <1>19. ASSUME NEW p \in Procs, Crash(p)
         PROVE  HoldersKept
    <2>1. proc'[p].pc \in {"sweep", "idle"} /\ \A q \in Procs \ {p} : proc'[q] = proc[q]
      BY <1>0, <1>19 DEF Crash, Idle, At, ProcState
    <2>2. proc'[p].pc \notin Holding /\ ListInv(p)'
      BY <2>1 DEF ListInv, At, Holding
    <2>3. now' = now /\ used' = used /\ dir' \subseteq dir
      BY <1>19 DEF Crash
    <2> QED  BY <2>1, <2>2, <2>3, QuietStep
  <1>20. CASE Tick
    <2>1. now' = now + 1 /\ dir' = dir /\ used' = used /\ proc' = proc
      BY <1>20 DEF Tick
    <2>2. OneFilePerEvent' /\ NamesUsed' /\ ExclusiveSend'
      BY <2>1 DEF IInv, OneFilePerEvent, NamesUsed, ExclusiveSend
    <2>3. ASSUME NEW q \in Procs
          PROVE  HolderInv(q)'
      <3>1. proc[q].pc \in Holding => now < proc[q].cur.since + SendBudget
        BY <1>20 DEF Tick
      <3>2. proc[q].cur \in Names => proc[q].cur.since \in Nat
        BY NumbersAssumption DEF Names, Time
      <3>3. proc[q].pc \in Holding => now + 1 <= proc[q].cur.since + SendBudget
        BY <1>0, <3>1, <3>2, NumbersAssumption DEF Time, IInv, HolderInv
      <3> QED  BY <2>1, <3>3 DEF IInv, HolderInv, Expired
    <2>4. ASSUME NEW q \in Procs
          PROVE  ListInv(q)'
      <3>1. ASSUME At(q, "reclaim"), NEW n \in proc[q].todo
            PROVE  n.since + ClaimReclaim <= now + 1
        <4>1. n.since \in Nat /\ n.since + ClaimReclaim <= now
          BY <1>0, <3>1, NumbersAssumption DEF IInv, ListInv, ProcState, Names, Time
        <4> QED  BY <1>0, <4>1, NumbersAssumption DEF Time
      <3> QED  BY <2>1, <3>1 DEF IInv, ListInv, At, Expired
    <2> QED  BY <2>2, <2>3, <2>4 DEF HoldersKept
  <1>21. CASE UNCHANGED vars
    BY <1>21 DEF vars, HoldersKept, IInv, OneFilePerEvent, NamesUsed, ExclusiveSend, HolderInv, ListInv,
               At, Expired
  <1>22. ASSUME NEW p \in Procs, Start(p)
         PROVE  HoldersKept
    BY <1>22, <1>1, <1>7, <1>17 DEF Start
  <1>23. ASSUME NEW p \in Procs, Step(p)
         PROVE  HoldersKept
    BY <1>23, <1>2, <1>3, <1>4, <1>5, <1>6, <1>8, <1>9, <1>10, <1>11, <1>12, <1>13, <1>14,
       <1>15, <1>16, <1>18 DEF Step
  <1> QED  BY <1>19, <1>20, <1>21, <1>22, <1>23 DEF Next

-----------------------------------------------------------------------------
(* The theorems.                                                           *)

\* The inductive invariant holds initially and is kept by every step.
LEMMA InitInv == Init => IInv
  <1> SUFFICES ASSUME Init PROVE IInv
    OBVIOUS
  <1>1. TypeOK
    BY NumbersAssumption DEF Init, TypeOK, Time, Idle, ProcState, Labels, AllOps
  <1>2. IsFiniteSet(dir)
    BY FS_EmptySet DEF Init
  <1>3. \A p \in Procs : proc[p].pc = "idle"
    BY DEF Init, Idle
  <1>4. OneFilePerEvent /\ NamesUsed /\ ExclusiveSend
    BY <1>3 DEF Init, OneFilePerEvent, NamesUsed, ExclusiveSend, Holding
  <1>5. \A p \in Procs : HolderInv(p) /\ ListInv(p)
    BY <1>3 DEF HolderInv, ListInv, At, Holding
  <1> QED  BY <1>1, <1>2, <1>4, <1>5 DEF IInv

\* Every step of the queue, crash and tick included, keeps it.
LEMMA NextInv == IInv /\ [Next]_vars => IInv'
  <1> SUFFICES ASSUME IInv, [Next]_vars PROVE IInv'
    OBVIOUS
  <1>1. TypeOK' /\ IsFiniteSet(dir')
    BY TypeStep DEF IInv
  <1>2. HoldersKept
    BY HoldersStep
  <1> QED  BY <1>1, <1>2 DEF IInv, HoldersKept

\* The inductive invariant holds in every reachable state of the queue.
LEMMA Invariant == Spec => []IInv
  BY InitInv, NextInv, PTL DEF Spec

\* The types of the queue's state are kept whatever its processes interleave.
THEOREM TypeCorrect == Spec => []TypeOK
  <1>1. IInv => TypeOK
    BY DEF IInv
  <1> QED  BY <1>1, Invariant, PTL

\* No interleaving of the renames of any number of processes leaves an event in
\* the directory under two names.
THEOREM OneFile == Spec => []OneFilePerEvent
  <1>1. IInv => OneFilePerEvent
    BY DEF IInv
  <1> QED  BY <1>1, Invariant, PTL

\* Concurrent drains never send the same event, as long as a delivery attempt is
\* shorter than the age at which claims are reclaimed (BudgetAssumption).
THEOREM Exclusive == Spec => []ExclusiveSend
  <1>1. IInv => ExclusiveSend
    BY DEF IInv
  <1> QED  BY <1>1, Invariant, PTL

\* Under the same assumption no live drainer loses its claim to a reclaim.
THEOREM NotStolen == Spec => []ClaimNotStolen
  <1>1. IInv => ClaimNotStolen
    BY DEF IInv, HolderInv, ClaimNotStolen
  <1> QED  BY <1>1, Invariant, PTL

\* A drain sends nothing that was past retention when its pass began.
THEOREM SendsFresh == Spec => []NeverSendsExpired
  <1>1. IInv => NeverSendsExpired
    BY DEF IInv, HolderInv, NeverSendsExpired
  <1> QED  BY <1>1, Invariant, PTL

=============================================================================
