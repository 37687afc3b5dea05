--------------------------- MODULE HookDedupProofs ---------------------------
(***************************************************************************)
(* Proofs about HookDedup, for any number of fires, sessions, types and    *)
(* bodies and any windows, the collapse window within the other.           *)
(***************************************************************************)
EXTENDS HookDedup, FiniteSetTheorems, TLAPS

-----------------------------------------------------------------------------
(* Type correctness.                                                       *)

\* A set that is empty or has one element.
LEMMA OneAtMost ==
    /\ Cardinality({}) <= 1
    /\ \A x : Cardinality({x}) <= 1
  <1>1. Cardinality({}) = 0
    BY FS_EmptySet
  <1>2. \A x : Cardinality({x}) = 1
    BY FS_Singleton
  <1> QED  BY <1>1, <1>2

LEMMA Windows ==
    /\ Window \in Nat /\ CollapseWindow \in Nat /\ MaxTime \in Nat
    /\ WindowOf("content") = Window /\ WindowOf("approval") = CollapseWindow
    /\ Never \notin Time
  BY WindowsAssumption DEF WindowOf, Older, Never, Time

\* Types but for the number of files called .tmp.
Typed ==
    /\ now \in Time
    /\ ledger \subseteq Entries
    /\ tmp \subseteq SUBSET Entries
    /\ fire \in [Fires -> FireState]
    /\ \A f \in Fires : At(f, "read") => fire[f].clock # Never
    /\ disturbed \in BOOLEAN

\* A check that found nothing, or failed, answers no.
LEMMA AnswerNo ==
    ASSUME NEW r \in FireState
    PROVE  /\ Answered(r, FALSE) \in FireState
           /\ Answered(r, FALSE).beep = r.beep /\ Answered(r, FALSE).at = r.at
           /\ Answered(r, FALSE).draft = {}
           /\ \/ /\ r.check = "content" /\ r.beep.type = "approval"
                 /\ Answered(r, FALSE).pc = "check" /\ Answered(r, FALSE).check = "approval"
                 /\ ~Answered(r, FALSE).dup /\ Answered(r, FALSE).outcome = r.outcome
              \/ /\ ~(r.check = "content" /\ r.beep.type = "approval")
                 /\ Answered(r, FALSE).pc = "done" /\ Answered(r, FALSE).check = "content"
                 /\ ~Answered(r, FALSE).dup
                 /\ Answered(r, FALSE).outcome = IF r.dup THEN "deduped" ELSE "sent"
  BY DEF Answered, Outcome, FireState, Labels, Checks, Outcomes

LEMMA AnswerYes ==
    ASSUME NEW r \in FireState
    PROVE  /\ Answered(r, TRUE) \in FireState
           /\ Answered(r, TRUE).beep = r.beep /\ Answered(r, TRUE).at = r.at
           /\ Answered(r, TRUE).draft = {}
           /\ \/ /\ r.check = "content" /\ r.beep.type = "approval"
                 /\ Answered(r, TRUE).pc = "check" /\ Answered(r, TRUE).check = "approval"
                 /\ Answered(r, TRUE).dup /\ Answered(r, TRUE).outcome = r.outcome
              \/ /\ Answered(r, TRUE).pc = "done" /\ Answered(r, TRUE).check = "content"
                 /\ Answered(r, TRUE).outcome = "deduped"
  BY DEF Answered, Outcome, FireState, Labels, Checks, Outcomes

\* The fire as it is when its check has read the ledger.
Stamped(f) == [fire[f] EXCEPT !.at[fire[f].check] = fire[f].clock, !.clock = Never]

LEMMA StampTyped ==
    ASSUME Typed, NEW f \in Fires
    PROVE  /\ Stamped(f) \in FireState
           /\ Stamped(f).at[fire[f].check] = fire[f].clock
           /\ \A c \in Checks \ {fire[f].check} : Stamped(f).at[c] = fire[f].at[c]
           /\ Stamped(f).pc = fire[f].pc /\ Stamped(f).beep = fire[f].beep
           /\ Stamped(f).check = fire[f].check /\ Stamped(f).draft = fire[f].draft
           /\ Stamped(f).dup = fire[f].dup /\ Stamped(f).outcome = fire[f].outcome
  <1>1. fire[f] \in FireState
    BY DEF Typed
  <1> QED  BY <1>1 DEF Stamped, FireState, Typed

LEMMA IdTyped ==
    ASSUME NEW b \in Beeps, NEW c \in Checks
    PROVE  Identity(b, c) \in Ids
  BY DEF Ids

\* A fire moves to another well-formed state.
LEMMA FireMoves ==
    ASSUME fire \in [Fires -> FireState], NEW f \in Fires, NEW r \in FireState,
           fire' = [fire EXCEPT ![f] = r]
    PROVE  /\ fire' \in [Fires -> FireState]
           /\ fire'[f] = r
           /\ \A g \in Fires \ {f} : fire'[g] = fire[g]
  OBVIOUS

\* The check finds a duplicate, and what it writes when it does not.
Found(f) ==
    Dup(Fresh(ledger, fire[f].check, fire[f].clock), Identity(fire[f].beep, fire[f].check),
        fire[f].check, fire[f].clock)
Update(f) ==
    Fresh(ledger, fire[f].check, fire[f].clock)
    \cup {Mark(Identity(fire[f].beep, fire[f].check), fire[f].clock)}

LEMMA ReadEffect ==
    ASSUME Typed, NEW f \in Fires, ReadLedger(f)
    PROVE  /\ fire' \in [Fires -> FireState]
           /\ \A g \in Fires \ {f} : fire'[g] = fire[g]
           /\ fire'[f].beep = fire[f].beep
           /\ fire'[f].at[fire[f].check] = fire[f].clock
           /\ \A c \in Checks \ {fire[f].check} : fire'[f].at[c] = fire[f].at[c]
           /\ \/ /\ Found(f) /\ disturbed' = disturbed /\ fire'[f].draft = {}
                 /\ \/ /\ fire[f].check = "content" /\ fire[f].beep.type = "approval"
                       /\ fire'[f].pc = "check" /\ fire'[f].check = "approval"
                       /\ fire'[f].dup /\ fire'[f].outcome = fire[f].outcome
                    \/ /\ fire'[f].pc = "done" /\ fire'[f].check = "content"
                       /\ fire'[f].outcome = "deduped"
              \/ /\ ~Found(f) /\ disturbed' = (disturbed \/ \E g \in Fires \ {f} : Checking(g))
                 /\ fire'[f].draft = Update(f)
                 /\ fire'[f].pc = "write" /\ fire'[f].check = fire[f].check
                 /\ fire'[f].dup = fire[f].dup /\ fire'[f].outcome = fire[f].outcome
  <1>0. fire \in [Fires -> FireState] /\ fire[f] \in FireState
    BY DEF Typed
  <1>t. fire[f].clock \in Time
    BY <1>0 DEF Typed, ReadLedger, FireState
  <1>1. CASE Found(f)
    <2> DEFINE r == Answered(Stamped(f), TRUE)
    <2>1. fire' = [fire EXCEPT ![f] = r] /\ disturbed' = disturbed
      BY <1>1, StampTyped DEF ReadLedger, Stamped, Found
    <2>2. Stamped(f) \in FireState
      BY StampTyped
    <2>3. r \in FireState /\ r.beep = Stamped(f).beep /\ r.at = Stamped(f).at /\ r.draft = {}
      BY <2>2, AnswerYes
    <2>4. \/ /\ Stamped(f).check = "content" /\ Stamped(f).beep.type = "approval"
             /\ r.pc = "check" /\ r.check = "approval"
             /\ r.dup /\ r.outcome = Stamped(f).outcome
          \/ r.pc = "done" /\ r.check = "content" /\ r.outcome = "deduped"
      BY <2>2, AnswerYes
    <2> HIDE DEF r
    <2>5. /\ fire' \in [Fires -> FireState] /\ fire'[f] = r
          /\ \A g \in Fires \ {f} : fire'[g] = fire[g]
      BY <1>0, <2>1, <2>3, FireMoves
    <2> QED  BY <1>1, <2>1, <2>3, <2>4, <2>5, StampTyped
  <1>2. CASE ~Found(f)
    <2> DEFINE D == Update(f)
               r == [Stamped(f) EXCEPT !.pc = "write", !.draft = D]
    <2>1. /\ fire' = [fire EXCEPT ![f] = r]
          /\ disturbed' = (disturbed \/ \E g \in Fires \ {f} : Checking(g))
      BY <1>2, StampTyped DEF ReadLedger, Stamped, Found, Update
    <2>2. D \subseteq Entries
      <3>1. Identity(fire[f].beep, fire[f].check) \in Ids
        BY <1>0, IdTyped DEF FireState
      <3> QED  BY <1>t, <3>1 DEF Update, Typed, Fresh, Mark, Entries
    <2> HIDE DEF D
    <2>3. /\ r \in FireState /\ r.pc = "write" /\ r.draft = D /\ r.at = Stamped(f).at
          /\ r.beep = Stamped(f).beep /\ r.check = Stamped(f).check
          /\ r.dup = Stamped(f).dup /\ r.outcome = Stamped(f).outcome
      BY <2>2, StampTyped DEF FireState, Labels
    <2> HIDE DEF r
    <2>4. /\ fire' \in [Fires -> FireState] /\ fire'[f] = r
          /\ \A g \in Fires \ {f} : fire'[g] = fire[g]
      BY <1>0, <2>1, <2>3, FireMoves
    <2> QED  BY <1>2, <2>1, <2>3, <2>4, StampTyped DEF D
  <1> QED  BY <1>1, <1>2

\* The end of an update answers no, whether it succeeded or failed.
LEMMA UpdateEffect ==
    ASSUME Typed, NEW f \in Fires, RenameTmp(f) \/ LedgerFails(f)
    PROVE  /\ Writing(f) /\ now' = now
           /\ fire' \in [Fires -> FireState]
           /\ \A g \in Fires \ {f} : fire'[g] = fire[g]
           /\ fire'[f].beep = fire[f].beep /\ fire'[f].at = fire[f].at /\ fire'[f].draft = {}
           /\ \/ /\ fire[f].check = "content" /\ fire[f].beep.type = "approval"
                 /\ fire'[f].pc = "check" /\ fire'[f].check = "approval"
                 /\ ~fire'[f].dup /\ fire'[f].outcome = fire[f].outcome
              \/ /\ ~(fire[f].check = "content" /\ fire[f].beep.type = "approval")
                 /\ fire'[f].pc = "done" /\ fire'[f].check = "content" /\ ~fire'[f].dup
                 /\ fire'[f].outcome = IF fire[f].dup THEN "deduped" ELSE "sent"
  <1> DEFINE r == Answered(fire[f], FALSE)
  <1>0. fire \in [Fires -> FireState] /\ fire[f] \in FireState
    BY DEF Typed
  <1>1. fire' = [fire EXCEPT ![f] = r] /\ Writing(f) /\ now' = now
    BY DEF RenameTmp, LedgerFails, Writing, At
  <1>2. r \in FireState
    BY <1>0, AnswerNo
  <1>3. fire'[f] = r /\ fire' \in [Fires -> FireState] /\ \A g \in Fires \ {f} : fire'[g] = fire[g]
    BY <1>0, <1>1, <1>2, FireMoves
  <1> QED  BY <1>0, <1>1, <1>3, AnswerNo

\* The other steps of a fire change little of it.
LEMMA PlainEffect ==
    ASSUME Typed, NEW f \in Fires, Filter(f) \/ ReadClock(f) \/ WriteTmp(f)
    PROVE  /\ now' = now
           /\ fire' \in [Fires -> FireState]
           /\ \A g \in Fires \ {f} : fire'[g] = fire[g]
           /\ fire'[f].beep = fire[f].beep /\ fire'[f].at = fire[f].at
           /\ fire'[f].check = fire[f].check /\ fire'[f].dup = fire[f].dup
           /\ \/ /\ ReadClock(f) /\ At(f, "check") /\ fire'[f].pc = "read"
                 /\ fire'[f].clock = now
                 /\ fire'[f].outcome = fire[f].outcome /\ fire'[f].draft = fire[f].draft
              \/ /\ Filter(f) /\ At(f, "check") /\ fire'[f].pc = "done"
                 /\ fire'[f].outcome = "filtered" /\ fire'[f].draft = fire[f].draft
              \/ /\ WriteTmp(f) /\ At(f, "write") /\ fire'[f].pc = "rename"
                 /\ fire'[f].outcome = fire[f].outcome /\ fire'[f].draft = {}
  <1>0. fire \in [Fires -> FireState] /\ fire[f] \in FireState
    BY DEF Typed
  <1>1. CASE Filter(f)
    <2> DEFINE r == [fire[f] EXCEPT !.pc = "done", !.outcome = "filtered"]
    <2>1. /\ r \in FireState /\ r.pc = "done" /\ r.outcome = "filtered" /\ r.draft = fire[f].draft
          /\ r.beep = fire[f].beep /\ r.at = fire[f].at /\ r.check = fire[f].check
          /\ r.dup = fire[f].dup
      BY <1>0 DEF FireState, Labels, Outcomes
    <2>2. fire' = [fire EXCEPT ![f] = r] /\ At(f, "check") /\ now' = now
      BY <1>1 DEF Filter
    <2> HIDE DEF r
    <2> QED  BY <1>0, <1>1, <2>1, <2>2, FireMoves
  <1>2. CASE WriteTmp(f)
    <2> DEFINE r == [fire[f] EXCEPT !.pc = "rename", !.draft = {}]
    <2>1. /\ r \in FireState /\ r.pc = "rename" /\ r.outcome = fire[f].outcome /\ r.draft = {}
          /\ r.beep = fire[f].beep /\ r.at = fire[f].at /\ r.check = fire[f].check
          /\ r.dup = fire[f].dup
      BY <1>0 DEF FireState, Labels
    <2>2. fire' = [fire EXCEPT ![f] = r] /\ At(f, "write") /\ now' = now
      BY <1>2 DEF WriteTmp
    <2> HIDE DEF r
    <2> QED  BY <1>0, <1>2, <2>1, <2>2, FireMoves
  <1>3. CASE ReadClock(f)
    <2> DEFINE r == [fire[f] EXCEPT !.pc = "read", !.clock = now]
    <2>1. /\ r \in FireState /\ r.pc = "read" /\ r.outcome = fire[f].outcome
          /\ r.draft = fire[f].draft /\ r.clock = now
          /\ r.beep = fire[f].beep /\ r.at = fire[f].at /\ r.check = fire[f].check
          /\ r.dup = fire[f].dup
      BY <1>0 DEF FireState, Labels, Typed
    <2>2. fire' = [fire EXCEPT ![f] = r] /\ At(f, "check") /\ now' = now
      BY <1>3 DEF ReadClock
    <2> HIDE DEF r
    <2> QED  BY <1>0, <1>3, <2>1, <2>2, FireMoves
  <1> QED  BY <1>1, <1>2, <1>3

\* What every step of a fire has in common.
FireStep(f) ==
    Filter(f) \/ ReadClock(f) \/ ReadLedger(f) \/ WriteTmp(f) \/ RenameTmp(f) \/ LedgerFails(f)

LEMMA FireSteps ==
    ASSUME Typed, NEW f \in Fires, FireStep(f)
    PROVE  /\ now' = now
           /\ fire' \in [Fires -> FireState]
           /\ \A g \in Fires \ {f} : fire'[g] = fire[g]
           /\ fire'[f].beep = fire[f].beep
  <1>1. CASE ReadLedger(f)
    <2>1. now' = now
      BY <1>1 DEF ReadLedger
    <2> QED  BY <1>1, <2>1, ReadEffect
  <1>2. CASE RenameTmp(f) \/ LedgerFails(f)
    BY <1>2, UpdateEffect
  <1>3. CASE Filter(f) \/ ReadClock(f) \/ WriteTmp(f)
    BY <1>3, PlainEffect
  <1> QED  BY <1>1, <1>2, <1>3 DEF FireStep

LEMMA TypeStep ==
    ASSUME TypeOK, [Next]_vars
    PROVE  TypeOK'
  <1>0. Typed
    BY DEF TypeOK, Typed
  <1>1. ASSUME NEW f \in Fires, FireStep(f)
        PROVE  TypeOK'
    <2>1. fire' \in [Fires -> FireState]
      BY <1>0, <1>1, FireSteps
    <2>7. \A g \in Fires : At(g, "read")' => fire'[g].clock # Never
      <3>1. CASE ReadClock(f)
        <4>1. fire'[f].clock = now /\ now # Never
          BY <1>0, <3>1, PlainEffect, Windows DEF Typed, ReadClock, Filter, WriteTmp, At
        <4> QED  BY <1>0, <1>1, <4>1, FireSteps DEF Typed, At
      <3>2. CASE ~ReadClock(f)
        <4>1. fire'[f].pc # "read"
          BY <1>0, <1>1, <3>2, PlainEffect, ReadEffect, UpdateEffect DEF FireStep
        <4> QED  BY <1>0, <1>1, <4>1, FireSteps DEF Typed, At
      <3> QED  BY <3>1, <3>2
    <2>2. fire[f].draft \subseteq Entries
      BY DEF TypeOK, FireState
    <2>3. tmp' \subseteq SUBSET Entries /\ Cardinality(tmp') <= 1
      BY <1>1, <2>2, OneAtMost DEF TypeOK, FireStep, Filter, ReadClock, ReadLedger,
             WriteTmp, RenameTmp, LedgerFails, files
    <2>4. ledger' \subseteq Entries
      BY <1>1 DEF TypeOK, FireStep, Filter, ReadClock, ReadLedger,
             WriteTmp, RenameTmp, LedgerFails, files
    <2>5. now' = now
      BY <1>0, <1>1, FireSteps
    <2>6. disturbed' \in BOOLEAN
      <3>1. CASE ReadLedger(f)
        <4>1. disturbed' = disturbed \/ disturbed' = (disturbed \/ \E g \in Fires \ {f} : Checking(g))
          BY <1>0, <3>1, ReadEffect
        <4> QED  BY <4>1 DEF TypeOK
      <3>2. CASE Filter(f) \/ ReadClock(f) \/ WriteTmp(f) \/ RenameTmp(f) \/ LedgerFails(f)
        BY <3>2 DEF TypeOK, Filter, ReadClock, WriteTmp, RenameTmp, LedgerFails
      <3> QED  BY <1>1, <3>1, <3>2 DEF FireStep
    <2> QED  BY <2>1, <2>3, <2>4, <2>5, <2>6, <2>7 DEF TypeOK
  <1>2. CASE Tick
    BY <1>2, WindowsAssumption DEF TypeOK, Tick, Time, files, At
  <1>3. CASE UNCHANGED vars
    BY <1>3 DEF TypeOK, vars, At
  <1> QED  BY <1>1, <1>2, <1>3 DEF Next, FireStep

-----------------------------------------------------------------------------
(* The marks and where they come from.                                     *)

Made(f, c) == fire[f].at[c] # Never

\* When a fire has made its checks.
StampInv(f) ==
    /\ \A c \in Checks : Made(f, c) => fire[f].at[c] <= now
    /\ Made(f, "approval") => fire[f].beep.type = "approval"
    /\ fire[f].check = "approval" => fire[f].beep.type = "approval"
    /\ At(f, "read") => fire[f].clock <= now
    /\ At(f, "check") \/ At(f, "read") => ~Made(f, fire[f].check)
    /\ fire[f].check = "content" /\ ~At(f, "done") => ~Made(f, "approval")
    /\ ~At(f, "done") => fire[f].outcome = "none"
    /\ fire[f].check = "content" /\ ~At(f, "done") => ~fire[f].dup
    /\ fire[f].outcome = "sent" => ~fire[f].dup

\* Entry n is the mark of some check of some fire.
Origin(n) ==
    \E g \in Fires, c \in Checks :
        Made(g, c) /\ n.id = Identity(fire[g].beep, c) /\ n.ts = fire[g].at[c]

OriginInv ==
    /\ \A n \in ledger : Origin(n)
    /\ \A S \in tmp : \A n \in S : Origin(n)
    /\ \A f \in Fires : \A n \in fire[f].draft : Origin(n)

HasTwin(f) == \E g \in Fires \ {f}, c \in Checks : TwinOf(f, g, c)

\* A fire that is or will be suppressed has a twin.
SuppressedInv(f) == fire[f].dup \/ fire[f].outcome = "deduped" => HasTwin(f)

\* Identities of the two checks never meet, and equal ones mean what they say.
LEMMA Identities ==
    ASSUME NEW a \in Beeps, NEW b \in Beeps, NEW c \in Checks, NEW d \in Checks,
           Identity(a, c) = Identity(b, d)
    PROVE  /\ c = d
           /\ c = "content" => a = b
           /\ c = "approval" => a.session = b.session
  <1>1. a.body \in Bodies /\ b.body \in Bodies
    BY DEF Beeps
  <1>2. a.body # "any" /\ b.body # "any"
    BY <1>1, BodiesAssumption
  <1>3. c = d
    BY <1>2 DEF Identity, eventIdentity, approvalCollapseIdentity, Checks
  <1>4. CASE c = "content"
    <2>1. a.session = b.session /\ a.type = b.type /\ a.body = b.body
      BY <1>3, <1>4 DEF Identity, eventIdentity
    <2> QED  BY <1>3, <1>4, <2>1 DEF Beeps
  <1>5. CASE c = "approval"
    BY <1>3, <1>5 DEF Identity, approvalCollapseIdentity
  <1> QED  BY <1>3, <1>4, <1>5 DEF Checks

\* What a step changes of the stamps: nothing but the one of a check that is being made.
LEMMA StampsStay ==
    ASSUME Typed, \A f \in Fires : StampInv(f), [Next]_vars
    PROVE  /\ now <= now'
           /\ \A f \in Fires : fire'[f].beep = fire[f].beep
           /\ \A f \in Fires, c \in Checks : Made(f, c) => fire'[f].at[c] = fire[f].at[c]
  <1> USE DEF Typed
  <1>1. ASSUME NEW f \in Fires, FireStep(f)
        PROVE  /\ now' = now
               /\ \A g \in Fires : fire'[g].beep = fire[g].beep
               /\ \A g \in Fires, c \in Checks : Made(g, c) => fire'[g].at[c] = fire[g].at[c]
    <2>1. ASSUME NEW c \in Checks, Made(f, c)
          PROVE  fire'[f].at[c] = fire[f].at[c]
      <3>1. CASE Filter(f) \/ ReadClock(f) \/ WriteTmp(f)
        BY <3>1, PlainEffect
      <3>2. CASE RenameTmp(f) \/ LedgerFails(f)
        BY <3>2, UpdateEffect
      <3>3. CASE ReadLedger(f)
        <4>1. c # fire[f].check
          BY <2>1, <3>3 DEF StampInv, ReadLedger
        <4> QED  BY <3>3, <4>1, ReadEffect
      <3> QED  BY <1>1, <3>1, <3>2, <3>3 DEF FireStep
    <2> QED  BY <1>1, <2>1, FireSteps
  <1>2. CASE Tick \/ UNCHANGED vars
    BY <1>2 DEF Tick, vars, Time
  <1> QED  BY <1>1, <1>2, WindowsAssumption DEF Next, Time, FireStep

\* Marks and twins once there stay.
LEMMA MarksStay ==
    ASSUME Typed, Typed', \A f \in Fires : StampInv(f), [Next]_vars
    PROVE  /\ \A n : Origin(n) => Origin(n)'
           /\ \A f \in Fires : HasTwin(f) => HasTwin(f)'
  <1>1. \A n : Origin(n) => Origin(n)'
    BY StampsStay DEF Origin, Made
  <1>2. ASSUME NEW f \in Fires, NEW g \in Fires \ {f}, NEW c \in Checks, TwinOf(f, g, c)
        PROVE  TwinOf(f, g, c)'
    <2>2. fire[f].at[c] # Never /\ fire[g].at[c] # Never
      BY <1>2 DEF TwinOf
    <2>3. fire'[f].at[c] = fire[f].at[c] /\ fire'[g].at[c] = fire[g].at[c]
      BY <1>2, <2>2, StampsStay DEF TwinOf, Made
    <2> QED  BY <1>2, <2>3, StampsStay DEF TwinOf
  <1> QED  BY <1>1, <1>2 DEF HasTwin

LEMMA StampStep ==
    ASSUME Typed, Typed', \A f \in Fires : StampInv(f), [Next]_vars, NEW f \in Fires
    PROVE  StampInv(f)'
  <1>0. fire[f] \in FireState /\ now \in Time /\ Never \notin Time
    BY Windows DEF Typed
  <1>1. ASSUME fire'[f] = fire[f]
        PROVE  StampInv(f)'
    <2>1. now <= now' /\ now \in Nat /\ now' \in Nat
      BY StampsStay DEF Typed, Time
    <2>2. At(f, "read") => fire[f].clock \in Nat
      BY <1>0 DEF Typed, FireState, Time
    <2> QED  BY <1>0, <1>1, <2>1, <2>2 DEF StampInv, Made, At, FireState, Time
  <1>2. CASE Filter(f) \/ ReadClock(f) \/ WriteTmp(f)
    <2>1. fire[f].check \in Checks /\ now \in Nat
      BY <1>0 DEF FireState, Time
    <2> QED  BY <1>2, <2>1, PlainEffect DEF StampInv, Made, At
  <1>3. CASE RenameTmp(f) \/ LedgerFails(f)
    <2>1. /\ now' = now /\ fire'[f].at = fire[f].at /\ fire'[f].beep = fire[f].beep
          /\ ~At(f, "done")
      BY <1>3, UpdateEffect DEF Writing, At
    <2>2. \/ /\ fire[f].check = "content" /\ fire[f].beep.type = "approval"
             /\ fire'[f].pc = "check" /\ fire'[f].check = "approval"
             /\ fire'[f].outcome = fire[f].outcome
          \/ fire'[f].pc = "done" /\ fire'[f].check = "content" /\ ~fire'[f].dup
      BY <1>3, UpdateEffect
    <2>3. fire[f].outcome = "none"
      BY <2>1 DEF StampInv
    <2> QED  BY <2>1, <2>2, <2>3 DEF StampInv, Made, At
  <1>5. CASE ReadLedger(f)
    <2> DEFINE c == fire[f].check
    <2>0. now' = now /\ c \in Checks
      BY <1>0, <1>5 DEF ReadLedger, FireState
    <2>1. At(f, "read") /\ fire[f].outcome = "none" /\ (c = "content" => ~Made(f, "approval"))
          /\ (c = "content" => ~fire[f].dup)
          /\ (c = "approval" => fire[f].beep.type = "approval")
      BY <1>5 DEF ReadLedger, StampInv, At
    <2>2. /\ now \in Nat /\ now # Never
          /\ fire[f].clock # Never /\ fire[f].clock <= now
      BY <1>0, <2>1 DEF Time, Typed, StampInv
    <2>3. /\ fire'[f].beep = fire[f].beep /\ fire'[f].at[c] = fire[f].clock
          /\ \A d \in Checks \ {c} : fire'[f].at[d] = fire[f].at[d]
          /\ \/ /\ c = "content" /\ fire[f].beep.type = "approval"
                /\ fire'[f].pc = "check" /\ fire'[f].check = "approval"
                /\ fire'[f].outcome = "none"
             \/ /\ fire'[f].pc = "done" /\ fire'[f].check = "content"
                /\ fire'[f].outcome = "deduped"
             \/ /\ fire'[f].pc = "write" /\ fire'[f].check = c /\ fire'[f].outcome = "none"
                /\ c = "content" => ~fire'[f].dup
      BY <1>5, <2>1, ReadEffect
    <2> HIDE DEF c
    <2> QED  BY <2>0, <2>1, <2>2, <2>3 DEF StampInv, Made, At, Checks
  <1>6. ASSUME NEW g \in Fires \ {f},
               FireStep(g)
        PROVE  fire'[f] = fire[f]
    BY <1>6, FireSteps
  <1>7. CASE Tick \/ UNCHANGED vars
    BY <1>1, <1>7 DEF Tick, vars
  <1> QED  BY <1>1, <1>2, <1>3, <1>5, <1>6, <1>7 DEF Next, FireStep

\* Every entry anywhere is some fire's mark.
LEMMA OriginStep ==
    ASSUME Typed, Typed', \A f \in Fires : StampInv(f), OriginInv, [Next]_vars
    PROVE  OriginInv'
  <1>0. \A n : Origin(n) => Origin(n)'
    BY MarksStay
  <1>1. ASSUME NEW f \in Fires, FireStep(f)
        PROVE  OriginInv'
    <2>1. /\ ledger' = ledger \/ ledger' \in tmp \/ ledger' = {}
          /\ tmp' \in {tmp, {fire[f].draft}, {{}}, {}}
      BY <1>1 DEF FireStep, Filter, ReadClock, ReadLedger,
             WriteTmp, RenameTmp, LedgerFails, files
    <2>2. \A n \in fire'[f].draft : Origin(n)'
      <3>1. CASE Filter(f) \/ ReadClock(f) \/ WriteTmp(f)
        BY <1>0, <3>1, PlainEffect DEF OriginInv
      <3>2. CASE RenameTmp(f) \/ LedgerFails(f)
        BY <3>2, UpdateEffect
      <3>3. CASE ReadLedger(f)
        <4>0. PICK c \in Checks : c = fire[f].check
          BY DEF Typed, FireState
        <4>m. PICK m : m = Mark(Identity(fire[f].beep, c), fire[f].clock)
          OBVIOUS
        <4>1. fire[f].clock # Never
          BY <3>3 DEF Typed, ReadLedger
        <4>2. fire'[f].at[c] = fire[f].clock /\ fire'[f].beep = fire[f].beep
          BY <3>3, <4>0, ReadEffect
        <4>3. m.id = Identity(fire[f].beep, c) /\ m.ts = fire[f].clock
          BY <4>m DEF Mark
        <4>4. Origin(m)'
          BY <4>1, <4>2, <4>3 DEF Origin, Made
        <4>5. fire'[f].draft \subseteq ledger \cup {m}
          BY <3>3, <4>0, <4>m, ReadEffect DEF Update, Fresh
        <4> QED  BY <1>0, <4>4, <4>5 DEF OriginInv
      <3> QED  BY <1>1, <3>1, <3>2, <3>3 DEF FireStep
    <2>3. \A g \in Fires \ {f} : fire'[g] = fire[g]
      BY <1>1, FireSteps
    <2>4. \A S \in tmp' : \A n \in S : Origin(n)
      BY <2>1 DEF OriginInv
    <2>5. \A n \in ledger' : Origin(n)
      BY <2>1 DEF OriginInv
    <2> QED  BY <1>0, <2>2, <2>3, <2>4, <2>5 DEF OriginInv
  <1>2. CASE Tick \/ UNCHANGED vars
    BY <1>0, <1>2 DEF Tick, vars, files, OriginInv
  <1> QED  BY <1>1, <1>2 DEF Next, FireStep

\* A check that says duplicate has found the mark of a twin.
LEMMA DupFindsTwin ==
    ASSUME Typed, \A g \in Fires : StampInv(g), OriginInv, NEW f \in Fires, ReadLedger(f), Found(f)
    PROVE  HasTwin(f)'
  <1>c. PICK c \in Checks : c = fire[f].check
    BY DEF Typed, FireState
  <1>t. PICK t : t = fire[f].clock
    OBVIOUS
  <1>0. fire[f] \in FireState /\ t \in Nat /\ t # Never
    BY <1>t, Windows DEF Typed, FireState, Time, ReadLedger
  <1>1. PICK n \in ledger : n.id = Identity(fire[f].beep, c) /\ n.ts + WindowOf(c) >= t
    BY <1>c, <1>t DEF Found, Dup, Fresh
  <1>2. PICK g \in Fires, d \in Checks :
           Made(g, d) /\ n.id = Identity(fire[g].beep, d) /\ n.ts = fire[g].at[d]
    BY DEF OriginInv, Origin
  <1>3. fire[f].beep \in Beeps /\ fire[g].beep \in Beeps
    BY DEF Typed, FireState
  <1>i. Identity(fire[f].beep, c) = Identity(fire[g].beep, d)
    BY <1>1, <1>2
  <1>4. /\ c = d /\ (c = "content" => fire[f].beep = fire[g].beep)
        /\ (c = "approval" => fire[f].beep.session = fire[g].beep.session)
    BY <1>0, <1>3, <1>i, Identities
  <1>5. ~Made(f, c) /\ g # f
    BY <1>2, <1>4, <1>c DEF ReadLedger, StampInv
  <1>6. /\ fire'[f].at[c] = t /\ fire'[f].beep = fire[f].beep /\ fire'[g] = fire[g]
    BY <1>5, <1>c, <1>t, ReadEffect
  <1>7. fire[g].at[c] # Never /\ fire[g].at[c] \in Nat
    BY <1>0, <1>2, <1>4 DEF Made, Typed, FireState, Time
  <1>8. t <= fire[g].at[c] + (IF c = "content" THEN Window ELSE CollapseWindow)
    BY <1>0, <1>1, <1>2, <1>4, <1>7, Windows DEF Checks
  <1>9. c = "approval" => fire[f].beep.type = "approval" /\ fire[g].beep.type = "approval"
    BY <1>2, <1>4, <1>c DEF StampInv
  <1>10. TwinOf(f, g, c)'
    BY <1>0, <1>4, <1>5, <1>6, <1>7, <1>8, <1>9 DEF TwinOf
  <1> QED  BY <1>0, <1>5, <1>10 DEF HasTwin

LEMMA SuppressedStep ==
    ASSUME Typed, Typed', \A g \in Fires : StampInv(g), OriginInv, [Next]_vars,
           NEW f \in Fires, SuppressedInv(f)
    PROVE  SuppressedInv(f)'
  <1>0. HasTwin(f) => HasTwin(f)'
    BY MarksStay
  <1>1. ASSUME fire'[f].dup \/ fire'[f].outcome = "deduped" =>
                  fire[f].dup \/ fire[f].outcome = "deduped"
        PROVE  SuppressedInv(f)'
    BY <1>0, <1>1 DEF SuppressedInv
  <1>2. CASE Filter(f) \/ ReadClock(f) \/ WriteTmp(f)
    BY <1>1, <1>2, PlainEffect
  <1>3. CASE RenameTmp(f) \/ LedgerFails(f)
    BY <1>1, <1>3, UpdateEffect
  <1>4. CASE ReadLedger(f)
    <2>1. CASE Found(f)
      BY <1>4, <2>1, DupFindsTwin DEF SuppressedInv
    <2>2. CASE ~Found(f)
      BY <1>1, <1>4, <2>2, ReadEffect
    <2> QED  BY <2>1, <2>2
  <1>6. ASSUME NEW g \in Fires \ {f}, FireStep(g)
        PROVE  fire'[f] = fire[f]
    BY <1>6, FireSteps
  <1>7. CASE Tick \/ UNCHANGED vars
    BY <1>1, <1>7 DEF Tick, vars
  <1> QED  BY <1>1, <1>2, <1>3, <1>4, <1>6, <1>7 DEF Next, FireStep

-----------------------------------------------------------------------------
(* Undisturbed, the ledger keeps every mark that matters.                  *)

\* No check of the fire has found a duplicate.
Clear(f) == ~fire[f].dup /\ fire[f].outcome # "deduped"

\* A mark of that time is in the window of a check that is yet to come, or of one that
\* has read the clock only.
Wanted(time, clock, fires) ==
    \/ time + Window >= clock
    \/ \E h \in Fires : fires[h].pc = "read" /\ time + Window >= fires[h].clock

\* S has the mark of each such fire, as long as it is wanted.
Marked(S) ==
    \A g \in Fires, c \in Checks :
        Made(g, c) /\ Clear(g) /\ Wanted(fire[g].at[c], now, fire)
        => [id |-> Identity(fire[g].beep, c), ts |-> fire[g].at[c]] \in S

\* One update at a time carries all marks from the ledger to the ledger.
AloneInv ==
    ~disturbed =>
        /\ \A f, g \in Fires : Writing(f) /\ Writing(g) => f = g
        /\ (\A f \in Fires : ~Writing(f)) => Marked(ledger)
        /\ \A f \in Fires : At(f, "write") => Marked(fire[f].draft)
        /\ \A f \in Fires : At(f, "rename") => \E D : tmp = {D} /\ Marked(D)

ApartInv ==
    ~disturbed =>
        \A f, g \in Fires : Clear(f) /\ Clear(g) =>
            \A c \in Checks : ~(TwinOf(f, g, c) /\ TwinOf(g, f, c))

\* A fire that has found a duplicate does not forget it.
LEMMA ClearStays ==
    ASSUME Typed, [Next]_vars, NEW f \in Fires, StampInv(f), Clear(f)'
    PROVE  Clear(f)
  <1>1. CASE fire'[f] = fire[f]
    BY <1>1 DEF Clear
  <1>2. CASE Filter(f) \/ ReadClock(f) \/ WriteTmp(f)
    BY <1>2, PlainEffect DEF Clear, StampInv, At
  <1>3. CASE RenameTmp(f) \/ LedgerFails(f)
    <2>1. ~At(f, "done")
      BY <1>3, UpdateEffect DEF Writing, At
    <2> QED  BY <1>3, <2>1, UpdateEffect DEF Clear, StampInv
  <1>4. CASE ReadLedger(f)
    BY <1>4, ReadEffect DEF Clear
  <1>5. ASSUME NEW g \in Fires \ {f}, FireStep(g)
        PROVE  fire'[f] = fire[f]
    BY <1>5, FireSteps
  <1>6. CASE Tick \/ UNCHANGED vars
    BY <1>1, <1>6 DEF Tick, vars
  <1> QED  BY <1>1, <1>2, <1>3, <1>4, <1>5, <1>6 DEF Next, FireStep

LEMMA DisturbedStays ==
    ASSUME Typed, [Next]_vars, disturbed
    PROVE  disturbed'
  <1>1. ASSUME NEW f \in Fires, FireStep(f)
        PROVE  disturbed'
    <2>1. CASE ReadLedger(f)
      BY <2>1, ReadEffect
    <2>2. CASE Filter(f) \/ ReadClock(f) \/ WriteTmp(f) \/ RenameTmp(f) \/ LedgerFails(f)
      BY <2>2 DEF Filter, ReadClock, WriteTmp, RenameTmp, LedgerFails
    <2> QED  BY <1>1, <2>1, <2>2 DEF FireStep
  <1> QED  BY <1>1 DEF Next, FireStep, Tick, vars

\* A check that has read the clock did so just now, or had before.
LEMMA ReadersStay ==
    ASSUME Typed, [Next]_vars, NEW h \in Fires, At(h, "read")'
    PROVE  \/ At(h, "read") /\ fire'[h].clock = fire[h].clock
           \/ fire'[h].clock = now /\ now' = now
  <1>1. CASE fire'[h] = fire[h]
    BY <1>1 DEF At
  <1>2. CASE ReadClock(h)
    BY <1>2, PlainEffect DEF ReadClock, Filter, WriteTmp, At
  <1>3. CASE Filter(h) \/ WriteTmp(h)
    BY <1>3, PlainEffect DEF ReadClock, Filter, WriteTmp, At
  <1>4. CASE ReadLedger(h) \/ RenameTmp(h) \/ LedgerFails(h)
    BY <1>4, ReadEffect, UpdateEffect DEF At
  <1>5. ASSUME NEW g \in Fires \ {h}, FireStep(g)
        PROVE  fire'[h] = fire[h]
    BY <1>5, FireSteps
  <1>6. CASE Tick \/ UNCHANGED vars
    BY <1>1, <1>6 DEF Tick, vars
  <1> QED  BY <1>1, <1>2, <1>3, <1>4, <1>5, <1>6 DEF Next, FireStep

\* No step makes a check want a mark that none wanted.
LEMMA WantedStays ==
    ASSUME Typed, Typed', \A f \in Fires : StampInv(f), [Next]_vars
    PROVE  \A t \in Nat : Wanted(t, now', fire') => Wanted(t, now, fire)
  <1> SUFFICES ASSUME NEW t \in Nat, Wanted(t, now', fire')
               PROVE  Wanted(t, now, fire)
    OBVIOUS
  <1>1. now <= now' /\ now \in Nat /\ now' \in Nat
    BY StampsStay DEF Typed, Time
  <1>2. CASE t + Window >= now'
    BY <1>1, <1>2, Windows DEF Wanted
  <1>3. ASSUME NEW h \in Fires, At(h, "read")', t + Window >= fire'[h].clock
        PROVE  Wanted(t, now, fire)
    BY <1>1, <1>3, ReadersStay, Windows DEF Wanted, At
  <1> QED  BY <1>2, <1>3 DEF Wanted, At

\* As long as no check that counts is made, marks stay where they are and nobody
\* becomes a twin.
LEMMA QuietStep ==
    ASSUME Typed, Typed', \A f \in Fires : StampInv(f), ApartInv, [Next]_vars,
           \A g \in Fires, c \in Checks : Made(g, c)' /\ Clear(g)' => Made(g, c)
    PROVE  /\ \A S : Marked(S) => Marked(S)'
           /\ ApartInv'
  <1>1. /\ now <= now' /\ now \in Nat /\ now' \in Nat
        /\ \A f \in Fires : fire'[f].beep = fire[f].beep
        /\ \A f \in Fires, c \in Checks : Made(f, c) => fire'[f].at[c] = fire[f].at[c]
        /\ \A f \in Fires : Clear(f)' => Clear(f)
    BY StampsStay, ClearStays DEF Typed, Time
  <1>2. ASSUME NEW S, Marked(S), NEW g \in Fires, NEW c \in Checks,
               Made(g, c)', Clear(g)', Wanted(fire'[g].at[c], now', fire')
        PROVE  [id |-> Identity(fire'[g].beep, c), ts |-> fire'[g].at[c]] \in S
    <2>1. Made(g, c) /\ Clear(g) /\ fire'[g].at[c] = fire[g].at[c]
      BY <1>1, <1>2
    <2>2. fire[g].at[c] \in Nat
      BY <2>1 DEF Made, Typed, FireState, Time
    <2>3. Wanted(fire[g].at[c], now, fire)
      BY <1>2, <2>1, <2>2, WantedStays
    <2> QED  BY <1>1, <1>2, <2>1, <2>3 DEF Marked
  <1>3. ASSUME ~disturbed', NEW f \in Fires, NEW g \in Fires, Clear(f)', Clear(g)',
               NEW c \in Checks, TwinOf(f, g, c)', TwinOf(g, f, c)'
        PROVE  FALSE
    <2>1. Made(f, c)' /\ Made(g, c)'
      BY <1>3 DEF TwinOf, Made
    <2>3. Made(f, c) /\ Made(g, c) /\ Clear(f) /\ Clear(g) /\ ~disturbed
      BY <1>1, <1>3, <2>1, DisturbedStays
    <2>4. fire'[f].at[c] = fire[f].at[c] /\ fire'[g].at[c] = fire[g].at[c]
      BY <1>1, <2>3
    <2>5. TwinOf(f, g, c) /\ TwinOf(g, f, c)
      BY <1>1, <1>3, <2>3, <2>4 DEF TwinOf, Made
    <2> QED  BY <2>3, <2>5 DEF ApartInv
  <1>4. \A S : Marked(S) => Marked(S)'
    BY <1>2 DEF Marked
  <1> QED  BY <1>3, <1>4 DEF ApartInv

\* A twin's mark in the ledger is found.
LEMMA MarkIsFound ==
    ASSUME Typed, NEW f \in Fires, NEW g \in Fires, NEW c \in Checks, c = fire[f].check,
           At(f, "read"), Marked(ledger), Made(g, c), Clear(g),
           fire[g].at[c] + WindowOf(c) >= fire[f].clock,
           Identity(fire[f].beep, c) = Identity(fire[g].beep, c)
    PROVE  Found(f)
  <1>t. PICK t : t = fire[f].clock
    OBVIOUS
  <1>1. fire[g].at[c] \in Nat /\ t \in Nat
    BY <1>t DEF Made, Typed, FireState, Time
  <1>2. fire[g].at[c] + Window >= t
    BY <1>1, <1>t, Windows, WindowsAssumption DEF Checks
  <1> DEFINE n == [id |-> Identity(fire[g].beep, c), ts |-> fire[g].at[c]]
  <1>w. Wanted(fire[g].at[c], now, fire)
    BY <1>2, <1>t DEF Wanted, At
  <1>3. n \in ledger /\ n.id = Identity(fire[f].beep, c) /\ n.ts = fire[g].at[c]
    BY <1>w DEF Marked
  <1> HIDE DEF n
  <1>4. n \in Fresh(ledger, c, t)
    BY <1>2, <1>3 DEF Fresh
  <1> QED  BY <1>3, <1>4, <1>t DEF Found, Dup

\* Two beeps that are twins have the same identity.
LEMMA TwinsAgree ==
    ASSUME NEW a, NEW b, NEW c \in Checks,
           c = "content" => a = b, c = "approval" => a.session = b.session
    PROVE  Identity(a, c) = Identity(b, c)
  BY DEF Identity, approvalCollapseIdentity, Checks

\* A check that finds nothing starts an update with all marks, and has no twin.
LEMMA FreshMark ==
    ASSUME Typed, Typed', \A g \in Fires : StampInv(g), AloneInv, ApartInv, [Next]_vars,
           NEW f \in Fires, ReadLedger(f), ~Found(f), ~disturbed'
    PROVE  AloneInv' /\ ApartInv'
  <1>c. PICK c \in Checks : c = fire[f].check
    BY DEF Typed, FireState
  <1>t. PICK t : t = fire[f].clock
    OBVIOUS
  <1>1. /\ ~disturbed /\ \A g \in Fires : ~Writing(g)
        /\ \A g \in Fires \ {f} : ~Checking(g)
        /\ Marked(ledger) /\ At(f, "read")
    <2>1. ~disturbed /\ (\A g \in Fires \ {f} : ~Checking(g)) /\ At(f, "read")
      BY ReadEffect DEF ReadLedger
    <2>2. \A g \in Fires : ~Writing(g)
      BY <2>1 DEF Checking, Writing, At
    <2> QED  BY <2>1, <2>2 DEF AloneInv
  <1>2. /\ fire'[f].at[c] = t /\ \A d \in Checks \ {c} : fire'[f].at[d] = fire[f].at[d]
        /\ fire'[f].draft = Update(f) /\ fire'[f].pc = "write"
        /\ fire'[f].beep = fire[f].beep /\ ~Made(f, c)
    BY <1>c, <1>t, ReadEffect DEF ReadLedger, StampInv
  <1>3. \A g \in Fires \ {f} : fire'[g] = fire[g]
    BY ReadEffect
  <1>4. now' = now /\ now \in Nat /\ t \in Nat /\ t # Never /\ t <= now
    BY <1>1, <1>t, Windows DEF ReadLedger, Typed, Time, StampInv, FireState
  <1>r. \A g \in Fires : ~At(g, "read")'
    BY <1>1, <1>2, <1>3 DEF Checking, At
  <1>5. \A g \in Fires : Clear(g)' => Clear(g)
    BY ClearStays
  <1>6. ASSUME NEW g \in Fires, NEW d \in Checks,
               Made(g, d)', Clear(g)', Wanted(fire'[g].at[d], now', fire')
        PROVE  [id |-> Identity(fire'[g].beep, d), ts |-> fire'[g].at[d]] \in Update(f)
    <2>m. fire'[g].at[d] \in Nat
      BY <1>6 DEF Made, Typed, FireState, Time
    <2>n. fire'[g].at[d] \in Nat /\ fire'[g].at[d] + Window >= now
      BY <1>4, <1>6, <1>r, <2>m DEF Wanted, At
    <2>w. fire'[g].at[d] + Window >= t
      BY <1>4, <2>n, Windows
    <2>1. CASE g = f /\ d = c
      <3>1. [id |-> Identity(fire'[g].beep, d), ts |-> fire'[g].at[d]]
              = Mark(Identity(fire[f].beep, fire[f].check), fire[f].clock)
        BY <1>c, <1>t, <1>2, <2>1 DEF Mark
      <3> QED  BY <3>1 DEF Update
    <2>2. CASE ~(g = f /\ d = c)
      <3>1. fire'[g].at[d] = fire[g].at[d] /\ fire'[g].beep = fire[g].beep
        BY <1>2, <1>3, <2>2
      <3>2. [id |-> Identity(fire[g].beep, d), ts |-> fire[g].at[d]] \in ledger
        BY <1>1, <1>4, <1>5, <1>6, <2>n, <3>1 DEF Marked, Made, Wanted
      <3>3. [id |-> Identity(fire[g].beep, d), ts |-> fire[g].at[d]] \in Fresh(ledger, c, t)
        BY <2>w, <3>1, <3>2 DEF Fresh
      <3> QED  BY <1>c, <1>t, <3>1, <3>3 DEF Update
    <2> QED  BY <2>1, <2>2
  <1>7. AloneInv'
    <2>1. Marked(fire[f].draft)'
      BY <1>2, <1>6 DEF Marked
    <2>2. \A g \in Fires : Writing(g)' => g = f
      BY <1>1, <1>3 DEF Writing
    <2>3. Writing(f)' /\ ~At(f, "rename")'
      BY <1>2 DEF Writing, At
    <2>4. \A g \in Fires : At(g, "write")' \/ At(g, "rename")' => Writing(g)'
      BY DEF Writing, At
    <2> QED  BY <2>1, <2>2, <2>3, <2>4 DEF AloneInv
  <1>8. ASSUME NEW g \in Fires \ {f}, Clear(g)', TwinOf(f, g, c)'
        PROVE  FALSE
    <2>1. fire'[g] = fire[g] /\ Clear(g)
      BY <1>3, <1>5, <1>8
    <2>2. Made(g, c) /\ fire[g].at[c] \in Nat
      BY <1>8, <2>1 DEF TwinOf, Made, Typed, FireState, Time
    <2>4. fire[g].at[c] + WindowOf(c) >= fire[f].clock
      BY <1>2, <1>4, <1>t, <1>8, <2>1, <2>2, Windows DEF TwinOf, Checks
    <2>5. /\ c = "content" => fire[f].beep = fire[g].beep
          /\ c = "approval" => fire[f].beep.session = fire[g].beep.session
      BY <1>2, <1>8, <2>1 DEF TwinOf
    <2>6. Identity(fire[f].beep, c) = Identity(fire[g].beep, c)
      BY <2>5, TwinsAgree
    <2> QED  BY <1>1, <1>c, <2>1, <2>2, <2>4, <2>6, MarkIsFound
  <1>9. ASSUME NEW g \in Fires, NEW h \in Fires, Clear(g)', Clear(h)', NEW d \in Checks,
               TwinOf(g, h, d)', TwinOf(h, g, d)', ~(d = c /\ (g = f \/ h = f))
        PROVE  FALSE
    <2>1. /\ fire'[g].at[d] = fire[g].at[d] /\ fire'[h].at[d] = fire[h].at[d]
          /\ fire'[g].beep = fire[g].beep /\ fire'[h].beep = fire[h].beep
      BY <1>2, <1>3, <1>9
    <2>2. TwinOf(g, h, d) /\ TwinOf(h, g, d)
      BY <1>9, <2>1 DEF TwinOf
    <2> QED  BY <1>1, <1>5, <1>9, <2>2 DEF ApartInv
  <1>10. ApartInv'
    <2>1. \A g, h \in Fires, d \in Checks : TwinOf(g, h, d)' => g # h
      BY DEF TwinOf
    <2> QED  BY <1>8, <1>9, <2>1 DEF ApartInv
  <1> QED  BY <1>7, <1>10

LEMMA AloneStep ==
    ASSUME Typed, Typed', \A f \in Fires : StampInv(f), AloneInv, ApartInv, [Next]_vars
    PROVE  AloneInv' /\ ApartInv'
  <1>0. \A g \in Fires : Clear(g)' => Clear(g)
    BY ClearStays
  <1>d. disturbed => disturbed'
    BY DisturbedStays
  <1>1. ASSUME disturbed'
        PROVE  AloneInv' /\ ApartInv'
    BY <1>1 DEF AloneInv, ApartInv
  <1>2. ASSUME NEW f \in Fires, ~disturbed',
               Filter(f) \/ ReadClock(f) \/ (ReadLedger(f) /\ Found(f))
        PROVE  AloneInv' /\ ApartInv'
    <2>1. /\ ~Writing(f) /\ ~Writing(f)'
          /\ UNCHANGED <<ledger, tmp>> /\ ~disturbed
          /\ \A g \in Fires \ {f} : fire'[g] = fire[g]
      <3>1. CASE Filter(f) \/ ReadClock(f)
        BY <1>d, <1>2, <3>1, PlainEffect DEF Writing, At, Filter, ReadClock, files, WriteTmp
      <3>2. CASE ReadLedger(f) /\ Found(f)
        BY <1>d, <1>2, <3>2, ReadEffect DEF Writing, At, ReadLedger, files
      <3> QED  BY <1>2, <3>1, <3>2
    <2>2. ASSUME NEW g \in Fires, NEW c \in Checks, Made(g, c)', Clear(g)'
          PROVE  Made(g, c)
      <3>1. CASE Filter(f) \/ ReadClock(f)
        BY <2>2, <3>1, PlainEffect DEF Made
      <3>2. CASE ReadLedger(f) /\ Found(f)
        <4>1. ~Clear(f)'
          BY <3>2, ReadEffect DEF Clear
        <4> QED  BY <2>1, <2>2, <4>1 DEF Made
      <3> QED  BY <1>2, <3>1, <3>2
    <2>3. (\A S : Marked(S) => Marked(S)') /\ ApartInv'
      BY <2>2, QuietStep
    <2>4. \A g \in Fires : Writing(g)' => g # f /\ Writing(g) /\ fire'[g] = fire[g]
      BY <2>1 DEF Writing
    <2>5. \A g \in Fires : At(g, "write")' \/ At(g, "rename")' => Writing(g)'
      BY DEF Writing, At
    <2>6. \A g \in Fires : Writing(g) => Writing(g)'
      BY <2>1 DEF Writing
    <2>7. \A g \in Fires : At(g, "write")' => Marked(fire[g].draft)'
      <3> SUFFICES ASSUME NEW g \in Fires, At(g, "write")'
                   PROVE  Marked(fire[g].draft)'
        OBVIOUS
      <3>1. PICK D : D = fire[g].draft
        OBVIOUS
      <3>2. At(g, "write") /\ fire'[g].draft = D
        BY <2>4, <2>5, <3>1 DEF At
      <3>3. Marked(D)'
        BY <2>1, <2>3, <3>1, <3>2 DEF AloneInv
      <3> QED  BY <3>2, <3>3
    <2>8. (\A g \in Fires : ~Writing(g)') => Marked(ledger)'
      <3>1. PICK D : D = ledger
        OBVIOUS
      <3>2. (\A g \in Fires : ~Writing(g)') => Marked(D)'
        BY <2>1, <2>3, <2>6, <3>1 DEF AloneInv
      <3> QED  BY <2>1, <3>1, <3>2
    <2>9. \A g \in Fires : At(g, "rename")' => \E D : tmp' = {D} /\ Marked(D)'
      <3> SUFFICES ASSUME NEW g \in Fires, At(g, "rename")'
                   PROVE  \E D : tmp' = {D} /\ Marked(D)'
        OBVIOUS
      <3>1. At(g, "rename")
        BY <2>4, <2>5 DEF At
      <3>2. PICK D : tmp = {D} /\ Marked(D)
        BY <2>1, <3>1 DEF AloneInv
      <3> QED  BY <2>1, <2>3, <3>2
    <2> QED  BY <2>1, <2>3, <2>4, <2>7, <2>8, <2>9 DEF AloneInv
  <1>3. ASSUME NEW f \in Fires, ReadLedger(f), ~Found(f), ~disturbed'
        PROVE  AloneInv' /\ ApartInv'
    BY <1>3, FreshMark
  <1>4. ASSUME NEW f \in Fires, WriteTmp(f) \/ RenameTmp(f), ~disturbed'
        PROVE  AloneInv' /\ ApartInv'
    <2>1. /\ Writing(f) /\ ~disturbed /\ Beside(f) = {}
          /\ \A g \in Fires \ {f} : fire'[g] = fire[g] /\ ~Writing(g)
      BY <1>d, <1>4, FireSteps DEF FireStep, AloneInv, Beside, Writing, WriteTmp, RenameTmp, At
    <2>2. fire'[f].at = fire[f].at
      BY <1>4, PlainEffect, UpdateEffect
    <2>3. \A g \in Fires, c \in Checks : Made(g, c)' => Made(g, c)
      BY <2>1, <2>2 DEF Made
    <2>4. (\A S : Marked(S) => Marked(S)') /\ ApartInv'
      BY <2>3, QuietStep
    <2>5. \A g \in Fires \ {f} : ~Writing(g)'
      BY <2>1 DEF Writing
    <2>6. \A g \in Fires : At(g, "write")' \/ At(g, "rename")' => Writing(g)'
      BY DEF Writing, At
    <2>7. CASE WriteTmp(f)
      <3>1. PICK D : D = fire[f].draft
        OBVIOUS
      <3>2. Marked(D) /\ tmp' = {D}
        BY <2>1, <2>7, <3>1 DEF AloneInv, WriteTmp
      <3>3. fire'[f].pc = "rename"
        BY <2>7, PlainEffect DEF Filter, ReadClock, WriteTmp, At
      <3>4. Writing(f)' /\ ~At(f, "write")'
        BY <3>3 DEF Writing, At
      <3> QED  BY <2>4, <2>5, <2>6, <3>2, <3>4 DEF AloneInv
    <2>8. CASE RenameTmp(f)
      <3>1. PICK D : tmp = {D} /\ Marked(D)
        BY <2>1, <2>8 DEF AloneInv, RenameTmp
      <3>2. ledger' = D
        BY <2>1, <2>8, <3>1 DEF RenameTmp
      <3>3. ~Writing(f)'
        BY <2>8, UpdateEffect DEF Writing
      <3>4. Marked(ledger)'
        BY <2>4, <3>1, <3>2
      <3> QED  BY <2>4, <2>5, <2>6, <3>3, <3>4 DEF AloneInv
    <2> QED  BY <1>4, <2>7, <2>8
  <1>5. ASSUME NEW f \in Fires, LedgerFails(f)
        PROVE  disturbed'
    BY <1>5 DEF LedgerFails
  <1>6. ASSUME Tick \/ UNCHANGED vars, ~disturbed'
        PROVE  AloneInv' /\ ApartInv'
    <2>1. UNCHANGED <<ledger, tmp, fire, disturbed>>
      BY <1>6 DEF Tick, vars, files
    <2>2. \A g \in Fires, c \in Checks : Made(g, c)' => Made(g, c)
      BY <2>1 DEF Made
    <2>3. (\A S : Marked(S) => Marked(S)') /\ ApartInv'
      BY <2>2, QuietStep
    <2>4. \A g \in Fires : Writing(g)' <=> Writing(g)
      BY <2>1 DEF Writing
    <2>5. \A g \in Fires : At(g, "write")' => Marked(fire[g].draft)'
      <3> SUFFICES ASSUME NEW g \in Fires, At(g, "write")'
                   PROVE  Marked(fire[g].draft)'
        OBVIOUS
      <3>1. PICK D : D = fire[g].draft
        OBVIOUS
      <3>2. Marked(D)'
        BY <1>6, <2>1, <2>3, <3>1 DEF AloneInv, At
      <3> QED  BY <2>1, <3>1, <3>2
    <2>6. (\A g \in Fires : ~Writing(g)') => Marked(ledger)'
      <3>1. PICK D : D = ledger
        OBVIOUS
      <3>2. (\A g \in Fires : ~Writing(g)') => Marked(D)'
        BY <1>6, <2>1, <2>3, <2>4, <3>1 DEF AloneInv
      <3> QED  BY <2>1, <3>1, <3>2
    <2>7. \A g \in Fires : At(g, "rename")' => \E D : tmp' = {D} /\ Marked(D)'
      BY <1>6, <2>1, <2>3 DEF AloneInv, At
    <2> QED  BY <1>6, <2>1, <2>3, <2>4, <2>5, <2>6, <2>7 DEF AloneInv
  <1> QED  BY <1>1, <1>2, <1>3, <1>4, <1>5, <1>6 DEF Next

-----------------------------------------------------------------------------
(* The invariant, and what follows from it.                                *)

HookInv ==
    /\ TypeOK
    /\ \A f \in Fires : StampInv(f) /\ SuppressedInv(f)
    /\ OriginInv
    /\ AloneInv
    /\ ApartInv

\* A fire before its first check.
Waiting(b) ==
    [pc |-> "check", beep |-> b, check |-> "content", clock |-> Never, draft |-> {},
     at |-> [c \in Checks |-> Never], dup |-> FALSE, outcome |-> "none"]

\* At the start nobody has made a check.
LEMMA HookInitInv ==
    ASSUME Init
    PROVE  HookInv
  <1>1. PICK b \in [Fires -> Beeps] : fire = [f \in Fires |-> Waiting(b[f])]
    <2>1. fire \in [Fires -> {Waiting(x) : x \in Beeps}]
      BY DEF Init, Waiting
    <2> DEFINE b == [f \in Fires |-> fire[f].beep]
    <2>2. \A f \in Fires : \E x \in Beeps : fire[f] = Waiting(x)
      BY <2>1
    <2>3. \A f \in Fires : fire[f].beep \in Beeps /\ fire[f] = Waiting(fire[f].beep)
      <3> TAKE f \in Fires
      <3>1. PICK x \in Beeps : fire[f] = Waiting(x)
        BY <2>2
      <3>2. fire[f].beep = x
        BY <3>1 DEF Waiting
      <3> QED  BY <3>1, <3>2
    <2>4. b \in [Fires -> Beeps] /\ \A f \in Fires : b[f] = fire[f].beep
      BY <2>3
    <2> HIDE DEF b
    <2>5. fire = [f \in Fires |-> Waiting(b[f])]
      BY <2>1, <2>3, <2>4
    <2> QED  BY <2>4, <2>5
  <1>2. \A f \in Fires :
           /\ fire[f] \in FireState /\ fire[f].check = "content" /\ fire[f].draft = {}
           /\ At(f, "check") /\ ~fire[f].dup /\ fire[f].outcome = "none"
           /\ \A c \in Checks : ~Made(f, c)
    BY <1>1 DEF Waiting, FireState, Labels, Checks, Outcomes, At, Made
  <1>3. TypeOK
    <2>1. fire \in [Fires -> FireState]
      BY <1>1, <1>2
    <2>2. now = 0 /\ 0 \in Time
      BY Windows DEF Init, Time
    <2>3. ledger = {} /\ tmp = {} /\ disturbed = FALSE
      BY DEF Init
    <2>4. \A f \in Fires : ~At(f, "read")
      BY <1>2 DEF At
    <2> QED  BY <2>1, <2>2, <2>3, <2>4, OneAtMost DEF TypeOK
  <1>4. \A f \in Fires : StampInv(f) /\ SuppressedInv(f)
    BY <1>2 DEF StampInv, SuppressedInv, Checks, At
  <1>5. OriginInv
    BY <1>2 DEF OriginInv, Init
  <1>6. AloneInv
    BY <1>2 DEF AloneInv, Marked, Writing, At
  <1>7. ApartInv
    BY <1>2 DEF ApartInv, TwinOf, Made
  <1> QED  BY <1>3, <1>4, <1>5, <1>6, <1>7 DEF HookInv

\* Every step keeps the invariant.
LEMMA HookStepInv ==
    ASSUME HookInv, [Next]_vars
    PROVE  HookInv'
  <1>1. TypeOK' /\ Typed /\ Typed'
    BY TypeStep DEF HookInv, TypeOK, Typed
  <1>2. \A f \in Fires : StampInv(f)'
    BY <1>1, StampStep DEF HookInv
  <1>3. \A f \in Fires : SuppressedInv(f)'
    BY <1>1, SuppressedStep DEF HookInv
  <1>4. OriginInv'
    BY <1>1, OriginStep DEF HookInv
  <1>5. AloneInv' /\ ApartInv'
    BY <1>1, AloneStep DEF HookInv
  <1> QED  BY <1>1, <1>2, <1>3, <1>4, <1>5 DEF HookInv

LEMMA HookInvariant == Spec => []HookInv
  BY HookInitInv, HookStepInv, PTL DEF Spec

\* Types: the fires, the ledger and its .tmp stay what they are declared to be.
THEOREM HookTyped == Spec => []TypeOK
  <1>1. HookInv => TypeOK
    BY DEF HookInv
  <1> QED  BY <1>1, HookInvariant, PTL

\* runAgentHook suppresses a beep only for a twin within its window, however the
\* updates of any number of fires interleave, tear and fail (markAndCheck).
THEOREM OnlyForATwin == Spec => []SuppressedOnlyForATwin
  <1>1. HookInv => SuppressedOnlyForATwin
    BY DEF HookInv, SuppressedInv, HasTwin, SuppressedOnlyForATwin, Reported
  <1> QED  BY <1>1, HookInvariant, PTL

\* As long as no update of the ledger fails or begins while another check is under way,
\* no two twins are both sent (markAndCheck: "no double-beep").
THEOREM NoDoubleBeep == Spec => []DoubleBeepNeedsDisturbance
  <1>1. ASSUME HookInv, ~disturbed, NEW f \in Fires, NEW g \in Fires,
               Reported(f, "sent"), Reported(g, "sent"), NEW c \in Checks,
               TwinOf(f, g, c), TwinOf(g, f, c)
        PROVE  FALSE
    <2>1. Clear(f) /\ Clear(g)
      BY <1>1 DEF HookInv, StampInv, Clear, Reported
    <2> QED  BY <1>1, <2>1 DEF HookInv, ApartInv
  <1>2. HookInv => DoubleBeepNeedsDisturbance
    BY <1>1 DEF DoubleBeepNeedsDisturbance
  <1> QED  BY <1>2, HookInvariant, PTL

=============================================================================
