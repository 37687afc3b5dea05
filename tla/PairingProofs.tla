--------------------------- MODULE PairingProofs ----------------------------
(***************************************************************************)
(* Proofs about Pairing, for any number of pairings, unpairings, hooks,    *)
(* tokens, events and accounts and any values of the bounds.               *)
(***************************************************************************)
EXTENDS Pairing, TokenStoreProofs

-----------------------------------------------------------------------------
(* Type correctness.                                                       *)

LEMMA UsersAre == Pairs \subseteq Users /\ Outs \subseteq Users /\ Hooks \subseteq Users
  BY PartiesAssumption

LEMMA Bounds ==
    /\ 0 \in 0 .. (Window + MaxSkew) /\ 0 \in 0 .. Window /\ Window \in 0 .. Window
    /\ \A n \in 0 .. (Window + MaxSkew) : (IF n > 0 THEN n - 1 ELSE 0) \in 0 .. (Window + MaxSkew)
    /\ \A n \in 0 .. Window : (IF n > 0 THEN n - 1 ELSE 0) \in 0 .. Window
  BY WindowAssumption

LEMMA RestingTyped == Resting \in PairState
  BY Bounds DEF Resting, PairState, PairLabels, Outcomes

LEMMA EndTyped ==
    ASSUME NEW r \in PairState, NEW outcome \in Outcomes
    PROVE  /\ End(r, outcome) \in PairState
           /\ End(r, outcome).pc = "done"
           /\ End(r, outcome).outcome = outcome
           /\ End(r, outcome).trusted = r.trusted
  <1>1. r.trusted \in BOOLEAN
    BY DEF PairState
  <1> QED  BY <1>1, RestingTyped DEF End, Resting, PairState, PairLabels

\* A pairing process moves to another well-formed state.
LEMMA PairMoves ==
    ASSUME pair \in [Pairs -> PairState], NEW p \in Pairs, NEW r \in PairState,
           pair' = [pair EXCEPT ![p] = r]
    PROVE  /\ pair' \in [Pairs -> PairState]
           /\ pair'[p] = r
           /\ \A q \in Pairs \ {p} : pair'[q] = pair[q]
  OBVIOUS

\* One step of the store.
LEMMA StoreSteps ==
    ASSUME NEW u \in Users,
           \/ StoreStep(u) \/ StartRead(u) \/ StartClear(u) \/ Die(u) \/ Consume(u)
           \/ ToggleLock \/ UNCHANGED storeVars
           \/ \E t \in FreshTokens : StartSet(u, t)
    PROVE  [StoreNext]_storeVars
  BY DEF StoreNext

\* A failure elsewhere only counts.
LEMMA FailureKeeps ==
    ASSUME StoreInv, Failure
    PROVE  StoreInv'
  <1>1. StoreTypeOK'
    BY FaultsAssumption DEF Failure, Fault, StoreInv, StoreTypeOK
  <1> QED  BY <1>1 DEF Failure, StoreInv, PlatformInv, SettledInv, WriterInv, FreshInv, ReaderInv,
                       QuietLookupExact, NoResurrection, Writing, StoreAt, Current

\* The gate opens only for an account the operator trusts.
LEMMA GateStep ==
    ASSUME pair \in [Pairs -> PairState], NEW p \in Pairs, Gate(p)
    PROVE  \/ /\ pair' = [pair EXCEPT ![p] = [Resting EXCEPT !.pc = "persist", !.trusted = TRUE]]
              /\ StartSet(p, p)
           \/ /\ pair' = [pair EXCEPT ![p] = End(@, "refused")]
              /\ UNCHANGED storeVars
  <1>1. pair[p].by \in Accounts \cup {NoAccount}
    BY DEF PairState
  <1>2. PICK flagPin \in Accounts \cup {NoAccount}, configPin \in Accounts \cup {NoAccount},
             yes \in BOOLEAN, silent \in BOOLEAN, answer \in BOOLEAN,
             terminal \in {"stdin", "controlling-terminal", "none"} :
        LET by       == pair[p].by
            pin      == IF flagPin # NoAccount THEN flagPin ELSE configPin
            decision == decidePairConfirmation(by, pin, yes, silent, terminal)
            go       == decision = "approve" \/ (decision = "prompt" /\ answer)
            asked    == ~silent /\ terminal # "none"
        IN  IF go
            THEN /\ pair' = [pair EXCEPT
                        ![p] = [Resting EXCEPT !.pc = "persist", !.trusted =
                            by \in Trusted(by, flagPin, configPin, yes, asked, answer)]]
                 /\ StartSet(p, p)
            ELSE /\ pair' = [pair EXCEPT ![p] = End(@, "refused")]
                 /\ UNCHANGED storeVars
    BY DEF Gate
  <1> DEFINE by       == pair[p].by
             pin      == IF flagPin # NoAccount THEN flagPin ELSE configPin
             decision == decidePairConfirmation(by, pin, yes, silent, terminal)
             go       == decision = "approve" \/ (decision = "prompt" /\ answer)
             asked    == ~silent /\ terminal # "none"
             willing  == by \in Trusted(by, flagPin, configPin, yes, asked, answer)
  <1>3. CASE go
    <2>1. willing
      BY <1>1, <1>3, AccountsAssumption DEF decidePairConfirmation, sameEmail, Trusted
    <2>2. /\ pair' = [pair EXCEPT ![p] = [Resting EXCEPT !.pc = "persist", !.trusted = willing]]
          /\ StartSet(p, p)
      BY <1>2, <1>3
    <2>3. willing = TRUE
      BY <2>1
    <2> QED  BY <2>2, <2>3
  <1>4. CASE ~go
    BY <1>2, <1>4
  <1> QED  BY <1>3, <1>4

\* What a pairing process of this module looks like, and the rest of the state.
PartsTyped ==
    /\ pair \in [Pairs -> PairState]
    /\ out \in [Outs -> {"rest", "revoke", "clear", "done"}]
    /\ hook \in [Hooks -> HookState]
    /\ stage \in [Events -> Queue!Stages]
    /\ holds \in [Hooks -> Events \cup {NoEvent}]
    /\ prior \in [Pairs -> SUBSET Events]
    /\ shifted \subseteq Events

LEMMA PartsStep ==
    ASSUME PartsTyped, [Next]_vars
    PROVE  PartsTyped'
  <1> USE Bounds, RestingTyped DEF PartsTyped, otherVars, queueVars
  <1>1. ASSUME NEW p \in Pairs, StartPair(p) \/ StartSetup(p) \/ CheckDeadline(p) \/ SkipWhenPaired(p)
        PROVE  PartsTyped'
    <2>1. PICK r \in PairState : pair' = [pair EXCEPT ![p] = r]
      <3>1. /\ \A label \in PairLabels : [pair[p] EXCEPT !.pc = label] \in PairState
            /\ \A outcome \in Outcomes : End(pair[p], outcome) \in PairState
        BY EndTyped DEF PairState
      <3> QED  BY <1>1, <3>1 DEF StartPair, StartSetup, CheckDeadline, SkipWhenPaired, PairLabels, Outcomes
    <2> QED  BY <1>1, <2>1, PairMoves DEF StartPair, StartSetup, CheckDeadline, SkipWhenPaired
  <1>2. ASSUME NEW p \in Pairs, OpenSession(p)
        PROVE  PartsTyped'
    <2>1. \A left \in 0 .. (Window + MaxSkew) :
             [pair[p] EXCEPT !.pc = "check", !.session = "open", !.left = left, !.srv = Window]
                \in PairState
      BY DEF PairState, PairLabels
    <2>e. End(pair[p], "error") \in PairState
      BY EndTyped DEF Outcomes
    <2>2. PICK r \in PairState : pair' = [pair EXCEPT ![p] = r]
      BY <1>2, <2>1, <2>e DEF OpenSession
    <2> QED  BY <1>2, <2>2, PairMoves DEF OpenSession
  <1>3. ASSUME NEW p \in Pairs, Approve(p)
        PROVE  PartsTyped'
    <2>1. \A by \in Accounts \cup {NoAccount} :
             [pair[p] EXCEPT !.session = "approved", !.by = by] \in PairState
      BY DEF PairState
    <2>2. PICK r \in PairState : pair' = [pair EXCEPT ![p] = r]
      BY <1>3, <2>1 DEF Approve
    <2> QED  BY <1>3, <2>2, PairMoves DEF Approve
  <1>4. ASSUME NEW p \in Pairs, PollAnswered(p)
        PROVE  PartsTyped'
    <2>1. /\ [Resting EXCEPT !.pc = "gate", !.by = pair[p].by] \in PairState
          /\ [pair[p] EXCEPT !.pc = "check"] \in PairState
      BY DEF PairState, PairLabels
    <2> QED  BY <1>4, <2>1, PairMoves DEF PollAnswered
  <1>5. ASSUME NEW p \in Pairs, PollFailed(p)
        PROVE  PartsTyped'
    <2>1. PICK lost \in BOOLEAN :
             LET r == [pair[p] EXCEPT !.session = IF lost THEN "redeemed" ELSE @] IN
             pair' \in {[pair EXCEPT ![p] = [r EXCEPT !.pc = "check"]],
                        [pair EXCEPT ![p] = End(r, "rejected")],
                        [pair EXCEPT ![p] = End(r, "error")]}
      BY <1>5 DEF PollFailed
    <2> DEFINE r == [pair[p] EXCEPT !.session = IF lost THEN "redeemed" ELSE @]
    <2>2. r \in PairState
      BY DEF PairState
    <2> HIDE DEF r
    <2>3. [r EXCEPT !.pc = "check"] \in PairState
      BY <2>2 DEF PairState, PairLabels
    <2>4. End(r, "rejected") \in PairState /\ End(r, "error") \in PairState
      BY <2>2, EndTyped DEF Outcomes
    <2>5. pair' \in {[pair EXCEPT ![p] = [r EXCEPT !.pc = "check"]],
                     [pair EXCEPT ![p] = End(r, "rejected")], [pair EXCEPT ![p] = End(r, "error")]}
      BY <2>1 DEF r
    <2> QED  BY <1>5, <2>3, <2>4, <2>5, PairMoves DEF PollFailed
  <1>6. ASSUME NEW p \in Pairs, Gate(p)
        PROVE  PartsTyped'
    <2>1. /\ [Resting EXCEPT !.pc = "persist", !.trusted = TRUE] \in PairState
          /\ End(pair[p], "refused") \in PairState
      BY EndTyped, ZenonT(60) DEF PairState, PairLabels, Outcomes
    <2>2. PICK r \in PairState : pair' = [pair EXCEPT ![p] = r]
      BY <1>6, <2>1, GateStep
    <2> QED  BY <1>6, <2>2, PairMoves DEF Gate
  <1>7. ASSUME NEW p \in Pairs, Persisted(p)
        PROVE  PartsTyped'
    <2>1. [pair[p] EXCEPT !.pc = "config"] \in PairState /\ End(pair[p], "error") \in PairState
      BY EndTyped, SMTT(30) DEF PairState, PairLabels, Outcomes
    <2>2. Queued \subseteq Events
      BY DEF Queued
    <2>3. PICK r \in PairState : pair' = [pair EXCEPT ![p] = r]
      BY <1>7, <2>1 DEF Persisted
    <2> QED  BY <1>7, <2>2, <2>3, PairMoves DEF Persisted
  <1>8. ASSUME NEW p \in Pairs, ListBacklog(p)
        PROVE  PartsTyped'
    <2>1. {NameOf(e) : e \in Queued} \subseteq Names
      BY DEF Queued, NameOf, Names
    <2>2. [pair[p] EXCEPT !.pc = "sweep", !.todo = {NameOf(e) : e \in Queued}] \in PairState
      BY <2>1 DEF PairState, PairLabels
    <2>3. PICK r \in PairState : pair' = [pair EXCEPT ![p] = r]
      BY <1>8, <2>2 DEF ListBacklog
    <2> QED  BY <1>8, <2>3, PairMoves DEF ListBacklog
  <1>9. ASSUME NEW p \in Pairs, ConfigFailed(p) \/ Paired(p) \/ KillPair(p)
        PROVE  PartsTyped'
    <2>1. \A outcome \in Outcomes : End(pair[p], outcome) \in PairState
      BY EndTyped
    <2>2. PICK r \in PairState : pair' = [pair EXCEPT ![p] = r]
      BY <1>9, <2>1 DEF ConfigFailed, Paired, KillPair, Outcomes
    <2> QED  BY <1>9, <2>2, PairMoves DEF ConfigFailed, Paired, KillPair
  <1>10. ASSUME NEW p \in Pairs, SweepName(p)
         PROVE  PartsTyped'
    <2>1. PICK n \in pair[p].todo :
             /\ pair' = [pair EXCEPT ![p].todo = @ \ {n}]
             /\ IF stage[n.ev] = n.kind THEN Queue!Finish(n.ev) ELSE UNCHANGED queueVars
      BY <1>10 DEF SweepName
    <2>2. [pair[p] EXCEPT !.todo = @ \ {n}] \in PairState /\ n.ev \in Events
      BY SMTT(30) DEF PairState, Names
    <2>3. PICK r \in PairState : pair' = [pair EXCEPT ![p] = r]
      BY <2>1, <2>2
    <2>4. stage' \in [Events -> Queue!Stages] /\ holds' \in [Hooks -> Events \cup {NoEvent}]
      BY <2>1, <2>2 DEF Queue!Finish, Queue!Stages
    <2> QED  BY <1>10, <2>3, <2>4, PairMoves DEF SweepName
  <1>11. ASSUME NEW u \in Outs, Logout(u) \/ Unpair(u) \/ RevokeSelf(u) \/ Unpaired(u)
         PROVE  PartsTyped'
    BY <1>11 DEF Logout, Unpair, RevokeSelf, Unpaired
  <1>12. ASSUME NEW h \in Hooks, StartHook(h) \/ LookedUp(h) \/ EndDrain(h)
         PROVE  PartsTyped'
    <2>1. hook' \in [Hooks -> HookState]
      BY <1>12 DEF StartHook, LookedUp, EndDrain, HookEnds, HookState
    <2>2. stage' \in [Events -> Queue!Stages] /\ UNCHANGED <<pair, out, holds, prior, shifted>>
      BY <1>12 DEF StartHook, LookedUp, EndDrain, Queue!Park, Queue!Stages, Events
    <2> QED  BY <2>1, <2>2
  <1>13. ASSUME NEW h \in Hooks, Post(h)
         PROVE  PartsTyped'
    <2>1. hook' \in [Hooks -> HookState]
      BY <1>13, ZenonT(60) DEF Post, HookState
    <2>2. stage' \in [Events -> Queue!Stages] /\ UNCHANGED <<pair, out, holds, prior, shifted>>
      BY <1>13 DEF Post, Queue!Park, Queue!Stages
    <2> QED  BY <2>1, <2>2
  <1>14. ASSUME NEW h \in Hooks, TakeEvent(h)
         PROVE  PartsTyped'
    <2>1. PICK e \in hook[h].todo :
             /\ hook' = [hook EXCEPT ![h].todo = @ \ {e}]
             /\ IF stage[e] = "parked" THEN Queue!Take(h, e) /\ shifted' = Dodges(e)
                ELSE UNCHANGED <<queueVars, shifted>>
      BY <1>14 DEF TakeEvent
    <2>2. e \in Events /\ hook' \in [Hooks -> HookState]
      BY <2>1 DEF HookState
    <2>3. stage' \in [Events -> Queue!Stages] /\ holds' \in [Hooks -> Events \cup {NoEvent}]
      BY <2>1, <2>2 DEF Queue!Take, Queue!Stages
    <2>4. shifted' \subseteq Events
      BY <2>1, <2>2 DEF Dodges
    <2> QED  BY <1>14, <2>2, <2>3, <2>4 DEF TakeEvent
  <1>15. ASSUME NEW h \in Hooks, DrainAnswer(h)
         PROVE  PartsTyped'
    <2>1. holds[h] \in Events
      BY <1>15 DEF DrainAnswer
    <2>2. stage' \in [Events -> Queue!Stages] /\ holds' \in [Hooks -> Events \cup {NoEvent}]
      BY <1>15, <2>1 DEF DrainAnswer, Queue!Finish, Queue!GiveBack, Queue!Stages
    <2>3. shifted' \subseteq Events
      BY <1>15, <2>1 DEF DrainAnswer, Dodges
    <2> QED  BY <1>15, <2>2, <2>3 DEF DrainAnswer
  <1>16. CASE Lock \/ (\E u \in Users : UseStore(u)) \/ UNCHANGED vars
    BY <1>16 DEF Lock, UseStore, vars
  <1>17. CASE Tick
    <2>1. \A p \in Pairs : [pair[p] EXCEPT !.left = IF @ > 0 THEN @ - 1 ELSE 0,
                                          !.srv = IF @ > 0 THEN @ - 1 ELSE 0] \in PairState
      BY DEF PairState
    <2> QED  BY <1>17, <2>1 DEF Tick
  <1> QED
    BY <1>1, <1>2, <1>3, <1>4, <1>5, <1>6, <1>7, <1>8, <1>9, <1>10, <1>11, <1>12, <1>13, <1>14,
       <1>15, <1>16, <1>17 DEF Next, PairStep, HookStep

-----------------------------------------------------------------------------
(* No token without consent.                                               *)

\* Where a token has ever been.
Seen == retired \cup {keychain, file, tmp} \cup {store[u].tok : u \in Users}

\* Before the gate has opened.
Early == {"rest", "skip", "start", "check", "await", "gate"}

\* A pairing's token that has been anywhere has passed the gate, which opened for an
\* account the operator trusts.
MintInv ==
    \A p \in Pairs : p \in Seen => pair[p].trusted /\ pair[p].pc \notin Early

\* A write that begins changes no other token than its own.
LEMMA BeginsWith ==
    ASSUME store \in [Users -> StoreState], NEW u \in Users, NEW r \in StoreState,
           BeginWrite(u, r)
    PROVE  \A v \in Users : store'[v].tok \in {store[v].tok, r.tok}
  <1>1. /\ store'[u] = [r EXCEPT !.clean = Writers = {}]
        /\ \A v \in Users \ {u} :
             store'[v] = [store[v] EXCEPT !.expect = Unknown, !.clean = FALSE]
    BY Begins
  <1>2. store'[u].tok = r.tok
    BY <1>1 DEF StoreState
  <1>3. ASSUME NEW v \in Users \ {u}
        PROVE  store'[v].tok = store[v].tok
    <2>1. store[v] \in StoreState /\ store'[v] = [store[v] EXCEPT !.expect = Unknown, !.clean = FALSE]
      BY <1>1
    <2> QED  BY <2>1 DEF StoreState
  <1> QED  BY <1>2, <1>3

\* No operation of the store but setToken brings a token in.
LEMMA NothingMinted ==
    ASSUME StoreTypeOK, NEW u \in Users,
           StoreStep(u) \/ StartRead(u) \/ StartClear(u) \/ Die(u) \/ Consume(u)
    PROVE  Seen' \subseteq Seen \cup {NoToken, Blank}
  <1> USE DEF StoreTypeOK, Keep
  <1>0. NoToken = Unused.tok /\ Unused \in StoreState
    BY UnusedTyped DEF Unused
  <1>1. CASE KeychainAdd(u) \/ KeychainVerify(u) \/ FileUnset(u) \/ FileWrite(u) \/ FileRename(u)
             \/ KeychainDelete(u) \/ FileDelete(u)
    <2>1. \A v \in Users : store'[v].tok = store[v].tok
      BY <1>1 DEF KeychainAdd, KeychainVerify, FileUnset, FileWrite, FileRename, KeychainDelete,
                  FileDelete, Go, EndWrite, StoreState
    <2>2. {keychain', file', tmp'} \subseteq Seen \cup {NoToken, Blank}
      BY <1>1 DEF KeychainAdd, KeychainVerify, FileUnset, FileWrite, FileRename, KeychainDelete,
                  FileDelete, Put, Seen
    <2>3. retired' \subseteq retired \cup {Current(file, keychain)}
      BY <1>1 DEF KeychainAdd, KeychainVerify, FileUnset, FileWrite, FileRename, KeychainDelete,
                  FileDelete, Put
    <2>4. Current(file, keychain) \in {file, keychain, NoToken}
      BY DEF Current
    <2> QED  BY <2>1, <2>2, <2>3, <2>4 DEF Seen
  <1>2. CASE FileRead(u) \/ KeychainRead(u) \/ StartRead(u) \/ Die(u) \/ Consume(u)
    <2>1. UNCHANGED <<retired, keychain, file, tmp>>
      BY <1>2 DEF FileRead, KeychainRead, StartRead, Die, Consume
    <2>2. \A v \in Users : store'[v].tok \in {store[v].tok, keychain, file, NoToken}
      <3>1. CASE FileRead(u) \/ KeychainRead(u)
        BY <3>1 DEF FileRead, KeychainRead, StoreState
      <3>2. CASE StartRead(u)
        <4>1. [Unused EXCEPT !.pc = "readFile", !.expect = settled].tok = NoToken
          BY <1>0 DEF Unused
        <4> QED  BY <3>2, <4>1 DEF StartRead
      <3>3. CASE Die(u) \/ Consume(u)
        BY <1>0, <3>3 DEF Die, Consume
      <3> QED  BY <1>2, <3>1, <3>2, <3>3
    <2> QED  BY <2>1, <2>2 DEF Seen
  <1>3. CASE StartClear(u)
    <2> DEFINE r == [Unused EXCEPT !.pc = IF hasKeychain THEN "delKey" ELSE "delFile"]
    <2>1. r \in StoreState /\ r.tok = NoToken
      BY <1>0 DEF Unused, StoreState, Labels
    <2>2. BeginWrite(u, r) /\ UNCHANGED <<retired, keychain, file, tmp>>
      BY <1>3 DEF StartClear
    <2> HIDE DEF r
    <2>3. \A v \in Users : store'[v].tok \in {store[v].tok, NoToken}
      BY <2>1, <2>2, BeginsWith
    <2> QED  BY <2>2, <2>3 DEF Seen
  <1> QED  BY <1>1, <1>2, <1>3 DEF StoreStep

\* setToken brings in its own.
LEMMA Minted ==
    ASSUME StoreTypeOK, NEW u \in Users, NEW t \in Tokens, StartSet(u, t)
    PROVE  Seen' \subseteq Seen \cup {t}
  <1> DEFINE r == [Unused EXCEPT !.tok = t, !.pc = IF hasKeychain THEN "add" ELSE "tmp"]
  <1>1. r \in StoreState /\ r.tok = t
    BY UnusedTyped DEF Unused, StoreState, Labels
  <1>2. BeginWrite(u, r) /\ UNCHANGED <<retired, keychain, file, tmp>>
    BY DEF StartSet, Keep
  <1> HIDE DEF r
  <1>3. \A v \in Users : store'[v].tok \in {store[v].tok, t}
    BY <1>1, <1>2, BeginsWith DEF StoreTypeOK
  <1> QED  BY <1>2, <1>3 DEF Seen

\* What a step does to the store, and whose token it can bring in.
LEMMA StoreEffect ==
    ASSUME StoreInv, PartsTyped, MintInv, [Next]_vars
    PROVE  /\ StoreInv'
           /\ \A p \in Pairs : p \in Seen' =>
                 p \in Seen \/ (pair'[p].pc = "persist" /\ pair'[p].trusted)
  <1>t. StoreTypeOK /\ (\A p \in Pairs : p \notin {NoToken, Blank})
    BY TokensAssumption, PartiesAssumption DEF StoreInv
  <1>1. CASE UNCHANGED storeVars
    <2>1. StoreInv'
      BY <1>1, StoreStepInv
    <2> QED  BY <1>1, <2>1 DEF storeVars, Seen
  <1>2. CASE Failure
    <2>1. StoreInv'
      BY <1>2, FailureKeeps
    <2> QED  BY <1>2, <2>1 DEF Failure, Seen
  <1>3. CASE ToggleLock
    <2>1. StoreInv'
      BY <1>3, StoreStepInv DEF StoreNext
    <2> QED  BY <1>3, <2>1 DEF ToggleLock, Keep, Seen
  <1>4. ASSUME NEW u \in Users,
               StoreStep(u) \/ StartRead(u) \/ StartClear(u) \/ Die(u) \/ Consume(u)
        PROVE  /\ StoreInv'
               /\ \A p \in Pairs : p \in Seen' => p \in Seen
    <2>1. StoreInv'
      BY <1>4, StoreSteps, StoreStepInv
    <2> QED  BY <1>4, <1>t, <2>1, NothingMinted
  <1>5. ASSUME NEW p \in Pairs, Gate(p), StartSet(p, p),
               pair' = [pair EXCEPT ![p] = [Resting EXCEPT !.pc = "persist", !.trusted = TRUE]]
        PROVE  /\ StoreInv'
               /\ \A q \in Pairs : q \in Seen' =>
                     q \in Seen \/ (pair'[q].pc = "persist" /\ pair'[q].trusted)
    <2>1. p \in Tokens /\ p \in Users /\ p \notin Seen
      BY <1>5, PartiesAssumption DEF Gate, At, MintInv, Early
    <2>2. p \in FreshTokens
      BY <2>1 DEF FreshTokens, Seen
    <2>3. StoreInv'
      BY <1>5, <2>1, <2>2, StoreSteps, StoreStepInv
    <2>4. pair'[p].pc = "persist" /\ pair'[p].trusted
      BY <1>5 DEF PartsTyped, Resting
    <2>5. Seen' \subseteq Seen \cup {p}
      BY <1>5, <1>t, <2>1, Minted
    <2> QED  BY <2>3, <2>4, <2>5
  <1>6. ASSUME NEW p \in Pairs, StartPair(p) \/ CheckDeadline(p) \/ Approve(p) \/ PollAnswered(p)
                                \/ ListBacklog(p) \/ SweepName(p) \/ Paired(p)
        PROVE  UNCHANGED storeVars
    BY <1>6 DEF StartPair, CheckDeadline, Approve, PollAnswered, ListBacklog, SweepName, Paired
  <1>7. ASSUME NEW p \in Pairs, OpenSession(p) \/ PollFailed(p) \/ ConfigFailed(p)
        PROVE  UNCHANGED storeVars \/ Failure
    BY <1>7 DEF OpenSession, PollFailed, ConfigFailed
  <1>8. ASSUME NEW p \in Pairs, StartSetup(p) \/ SkipWhenPaired(p) \/ Persisted(p) \/ KillPair(p)
        PROVE  \/ UNCHANGED storeVars \/ StartRead(p) \/ Consume(p) \/ Die(p)
    BY <1>8 DEF StartSetup, SkipWhenPaired, Persisted, KillPair
  <1>9. ASSUME NEW u \in Outs, Logout(u) \/ Unpair(u) \/ RevokeSelf(u) \/ Unpaired(u)
        PROVE  StartRead(u) \/ StartClear(u) \/ Consume(u)
    BY <1>9 DEF Logout, Unpair, RevokeSelf, Unpaired
  <1>10. ASSUME NEW h \in Hooks, StartHook(h) \/ HookStep(h)
         PROVE  UNCHANGED storeVars \/ StartRead(h) \/ Consume(h)
    BY <1>10 DEF StartHook, HookStep, LookedUp, Post, TakeEvent, DrainAnswer, EndDrain
  <1>11. ASSUME NEW p \in Pairs, Gate(p)
         PROVE  /\ StoreInv'
                /\ \A q \in Pairs : q \in Seen' =>
                      q \in Seen \/ (pair'[q].pc = "persist" /\ pair'[q].trusted)
    BY <1>1, <1>5, <1>11, GateStep DEF PartsTyped
  <1>12. CASE Lock \/ Tick \/ (\E u \in Users : UseStore(u)) \/ UNCHANGED vars
    BY <1>1, <1>3, <1>4, <1>12 DEF Lock, Tick, UseStore, vars
  <1> QED
    BY <1>1, <1>2, <1>4, <1>6, <1>7, <1>8, <1>9, <1>10, <1>11, <1>12, UsersAre
    DEF Next, PairStep

\* The steps of a pairing process change no other one.
PairAction(p) ==
    StartPair(p) \/ StartSetup(p) \/ PairStep(p) \/ Approve(p) \/ Gate(p) \/ KillPair(p)

LEMMA OwnSteps ==
    ASSUME PartsTyped, NEW q \in Pairs, PairAction(q), NEW p \in Pairs \ {q}
    PROVE  pair'[p] = pair[p]
  <1> USE DEF PartsTyped
  <1>1. CASE StartPair(q) \/ StartSetup(q) \/ SkipWhenPaired(q) \/ OpenSession(q) \/ CheckDeadline(q)
             \/ PollAnswered(q) \/ PollFailed(q)
    BY <1>1 DEF StartPair, StartSetup, SkipWhenPaired, OpenSession, CheckDeadline, PollAnswered,
                PollFailed
  <1>2. CASE Persisted(q) \/ ListBacklog(q) \/ ConfigFailed(q) \/ SweepName(q) \/ Paired(q)
             \/ Approve(q) \/ KillPair(q)
    BY <1>2 DEF Persisted, ListBacklog, ConfigFailed, SweepName, Paired, Approve, KillPair
  <1>3. CASE Gate(q)
    BY <1>3, GateStep
  <1> QED  BY <1>1, <1>2, <1>3 DEF PairAction, PairStep

\* Nobody else changes them, but for time.
LEMMA ElseSteps ==
    ASSUME [Next]_vars, ~Tick, \A q \in Pairs : ~PairAction(q)
    PROVE  pair' = pair
  <1>1. ASSUME NEW u \in Outs, Logout(u) \/ Unpair(u) \/ RevokeSelf(u) \/ Unpaired(u)
        PROVE  pair' = pair
    BY <1>1 DEF Logout, Unpair, RevokeSelf, Unpaired
  <1>2. ASSUME NEW h \in Hooks, StartHook(h) \/ HookStep(h)
        PROVE  pair' = pair
    BY <1>2 DEF StartHook, HookStep, LookedUp, Post, TakeEvent, DrainAnswer, EndDrain
  <1>3. CASE Lock \/ (\E u \in Users : UseStore(u)) \/ UNCHANGED vars
    BY <1>3 DEF Lock, UseStore, vars
  <1> QED  BY <1>1, <1>2, <1>3 DEF Next, PairAction

\* A pairing that has passed the gate stays past it and keeps its consent.
LEMMA PastTheGate ==
    ASSUME PartsTyped, [Next]_vars, NEW p \in Pairs, pair[p].pc \notin Early
    PROVE  pair'[p].pc \notin Early /\ pair'[p].trusted = pair[p].trusted
  <1> USE DEF Early
  <1>0. pair[p] \in PairState /\ pair \in [Pairs -> PairState]
    BY DEF PartsTyped
  <1>1. CASE Persisted(p) \/ ListBacklog(p) \/ ConfigFailed(p) \/ SweepName(p) \/ Paired(p)
    <2>1. \A outcome \in Outcomes : End(pair[p], outcome).pc = "done"
                                    /\ End(pair[p], outcome).trusted = pair[p].trusted
      BY <1>0, EndTyped
    <2> QED  BY <1>0, <1>1, <2>1
             DEF Persisted, ListBacklog, ConfigFailed, SweepName, Paired, Outcomes, PairState
  <1>2. CASE KillPair(p)
    <2>1. End(pair[p], "died").pc = "done" /\ End(pair[p], "died").trusted = pair[p].trusted
      BY <1>0, EndTyped DEF Outcomes
    <2> QED  BY <1>0, <1>2, <2>1 DEF KillPair
  <1>3. CASE Approve(p)
    BY <1>0, <1>3 DEF Approve, PairState
  <1>4. CASE Tick
    BY <1>0, <1>4 DEF Tick, PairState
  <1>5. ASSUME StartPair(p) \/ StartSetup(p) \/ SkipWhenPaired(p) \/ OpenSession(p) \/ CheckDeadline(p)
               \/ PollAnswered(p) \/ PollFailed(p) \/ Gate(p)
        PROVE  FALSE
    BY <1>5 DEF StartPair, StartSetup, SkipWhenPaired, OpenSession, CheckDeadline, PollAnswered,
                PollFailed, Gate, At
  <1>6. ASSUME NEW q \in Pairs \ {p}, PairAction(q)
        PROVE  pair'[p] = pair[p]
    BY <1>6, OwnSteps
  <1>7. ASSUME ~Tick, \A q \in Pairs : ~PairAction(q)
        PROVE  pair' = pair
    BY <1>7, ElseSteps
  <1> QED  BY <1>1, <1>2, <1>3, <1>4, <1>5, <1>6, <1>7 DEF PairAction, PairStep

-----------------------------------------------------------------------------
(* The backlog goes.                                                       *)

Cleared(e) == stage[e] = "gone" \/ e \in shifted

\* A sweep has still to remove the name of each event of the backlog that is there.
SweepInv(p) ==
    /\ \A e \in prior[p] : stage[e] # "new"
    /\ At(p, "sweep") => \A e \in prior[p] : Cleared(e) \/ NameOf(e) \in pair[p].todo
    /\ pair[p].outcome = "paired" => At(p, "done") /\ \A e \in prior[p] : Cleared(e)

\* An event never comes back, and one that changes its name under a sweep is marked.
LEMMA StageMoves ==
    ASSUME PartsTyped, [Next]_vars, NEW e \in Events
    PROVE  /\ stage[e] # "new" => stage'[e] # "new"
           /\ Cleared(e) => Cleared(e)'
           /\ stage[e] \in {"parked", "taken"} =>
                 \/ stage'[e] = stage[e] \/ stage'[e] = "gone"
                 \/ \A p \in Pairs : NameOf(e) \in pair[p].todo => e \in shifted'
  <1> USE DEF PartsTyped, Cleared
  <1>1. CASE UNCHANGED <<stage, shifted>>
    BY <1>1
  <1>2. ASSUME NEW p \in Pairs, SweepName(p)
        PROVE  \/ UNCHANGED <<stage, shifted>>
               \/ shifted' = shifted /\ stage'[e] \in {stage[e], "gone"}
    BY <1>2 DEF SweepName, Queue!Finish, queueVars
  <1>3. ASSUME NEW h \in Hooks, LookedUp(h) \/ Post(h)
        PROVE  /\ shifted' = shifted
               /\ stage'[e] = stage[e] \/ (stage[e] = "new" /\ stage'[e] = "parked")
    BY <1>3 DEF LookedUp, Post, Queue!Park, queueVars
  <1>4. ASSUME NEW h \in Hooks, TakeEvent(h) \/ DrainAnswer(h)
        PROVE  \/ UNCHANGED <<stage, shifted>>
               \/ shifted' = shifted /\ stage'[e] \in {stage[e], "gone"}
               \/ \E d \in Events :
                    /\ stage[d] \in {"parked", "taken"} /\ shifted' = Dodges(d)
                    /\ stage'[e] # stage[e] => e = d /\ stage'[e] \in {"parked", "taken"}
    BY <1>4 DEF TakeEvent, DrainAnswer, Queue!Take, Queue!Finish, Queue!GiveBack, queueVars, HookState
  <1>5. ASSUME NEW d \in Events, stage[d] \in {"parked", "taken"}, shifted' = Dodges(d),
               stage'[e] # stage[e] => e = d /\ stage'[e] \in {"parked", "taken"}
        PROVE  /\ stage[e] # "new" => stage'[e] # "new"
               /\ Cleared(e) => Cleared(e)'
               /\ stage[e] \in {"parked", "taken"} =>
                     \/ stage'[e] = stage[e]
                     \/ \A p \in Pairs : NameOf(e) \in pair[p].todo => e \in shifted'
    BY <1>5 DEF Dodges
  <1>6. ASSUME ~\E p \in Pairs : SweepName(p), ~\E h \in Hooks : HookStep(h)
        PROVE  UNCHANGED <<stage, shifted>>
    <2>1. ASSUME NEW p \in Pairs, PairAction(p)
          PROVE  UNCHANGED <<stage, shifted>>
      BY <1>6, <2>1 DEF PairAction, PairStep, StartPair, StartSetup, SkipWhenPaired, OpenSession,
         CheckDeadline, PollAnswered, PollFailed, Persisted, ListBacklog, ConfigFailed, Paired,
         Approve, Gate, KillPair, otherVars, queueVars
    <2>2. ASSUME NEW u \in Outs, Logout(u) \/ Unpair(u) \/ RevokeSelf(u) \/ Unpaired(u)
          PROVE  UNCHANGED <<stage, shifted>>
      BY <2>2 DEF Logout, Unpair, RevokeSelf, Unpaired, queueVars
    <2>3. CASE (\E h \in Hooks : StartHook(h)) \/ Lock \/ Tick \/ (\E u \in Users : UseStore(u))
               \/ UNCHANGED vars
      BY <2>3 DEF StartHook, Lock, Tick, UseStore, vars, otherVars, queueVars
    <2> QED  BY <1>6, <2>1, <2>2, <2>3 DEF Next, PairAction
  <1>7. ASSUME NEW h \in Hooks, EndDrain(h)
        PROVE  UNCHANGED <<stage, shifted>>
    BY <1>7 DEF EndDrain, queueVars
  <1> QED  BY <1>1, <1>2, <1>3, <1>4, <1>5, <1>6, <1>7 DEF HookStep

\* Every step keeps the sweeps' invariant.
LEMMA SweepStep ==
    ASSUME PartsTyped, PartsTyped', [Next]_vars, NEW p \in Pairs, SweepInv(p)
    PROVE  SweepInv(p)'
  <1> USE DEF PartsTyped
  <1>0. pair[p] \in PairState /\ prior[p] \subseteq Events
    OBVIOUS
  <1>1. ASSUME pair'[p].pc = pair[p].pc, pair'[p].outcome = pair[p].outcome,
               pair'[p].todo = pair[p].todo, prior'[p] = prior[p]
        PROVE  SweepInv(p)'
    <2>1. ASSUME NEW e \in prior[p], NameOf(e) \in pair[p].todo
          PROVE  Cleared(e)' \/ NameOf(e)' \in pair[p].todo
      <3>1. stage[e] \in {"parked", "taken"}
        BY <1>0, <2>1 DEF PairState, Names, NameOf
      <3> QED  BY <1>0, <2>1, <3>1, StageMoves DEF Cleared, NameOf
    <2> QED  BY <1>0, <1>1, <2>1, StageMoves DEF SweepInv, At
  <1>2. prior'[p] = prior[p] \/ Persisted(p)
    <2>1. ASSUME NEW q \in Pairs, PairAction(q), ~Persisted(q)
          PROVE  prior' = prior
      BY <2>1 DEF PairAction, PairStep, StartPair, StartSetup, SkipWhenPaired, OpenSession,
         CheckDeadline, PollAnswered, PollFailed, ListBacklog, ConfigFailed, SweepName, Paired,
         Approve, Gate, KillPair, otherVars
    <2>2. ASSUME NEW q \in Pairs \ {p}, Persisted(q)
          PROVE  prior'[p] = prior[p]
      BY <2>2 DEF Persisted
    <2>3. ASSUME NEW u \in Outs, Logout(u) \/ Unpair(u) \/ RevokeSelf(u) \/ Unpaired(u)
          PROVE  prior' = prior
      BY <2>3 DEF Logout, Unpair, RevokeSelf, Unpaired
    <2>4. ASSUME NEW h \in Hooks, StartHook(h) \/ HookStep(h)
          PROVE  prior' = prior
      BY <2>4 DEF StartHook, HookStep, LookedUp, Post, TakeEvent, DrainAnswer, EndDrain
    <2>5. CASE Lock \/ Tick \/ (\E u \in Users : UseStore(u)) \/ UNCHANGED vars
      BY <2>5 DEF Lock, Tick, UseStore, vars, otherVars
    <2> QED  BY <2>1, <2>2, <2>3, <2>4, <2>5 DEF Next, PairAction
  <1>3. ASSUME pair[p].pc # "done", pair'[p].pc # "sweep",
               pair'[p].outcome = pair[p].outcome \/ pair'[p].outcome # "paired",
               prior'[p] = prior[p]
        PROVE  SweepInv(p)'
    BY <1>0, <1>3, StageMoves DEF SweepInv, At
  <1>4. CASE StartPair(p) \/ StartSetup(p) \/ CheckDeadline(p) \/ PollAnswered(p)
             \/ SkipWhenPaired(p) \/ OpenSession(p) \/ PollFailed(p)
    <2>1. \A outcome \in Outcomes, r \in PairState :
             End(r, outcome).pc = "done" /\ End(r, outcome).outcome = outcome
      BY EndTyped
    <2>2. pair[p].pc # "done" /\ ~Persisted(p)
      BY <1>4 DEF StartPair, StartSetup, CheckDeadline, PollAnswered, SkipWhenPaired, OpenSession,
                  PollFailed, Persisted, At
    <2>3. ASSUME StartPair(p) \/ StartSetup(p) \/ CheckDeadline(p) \/ SkipWhenPaired(p)
          PROVE  /\ pair'[p].pc # "sweep"
                 /\ pair'[p].outcome = pair[p].outcome \/ pair'[p].outcome # "paired"
      <3>1. PICK r \in {[pair[p] EXCEPT !.pc = label] : label \in {"start", "skip", "await"}}
                         \cup {End(pair[p], outcome) : outcome \in {"timeout", "already"}} :
               pair' = [pair EXCEPT ![p] = r]
        BY <2>3 DEF StartPair, StartSetup, CheckDeadline, SkipWhenPaired
      <3>2. pair'[p] = r
        BY <3>1
      <3>3. CASE r \in {End(pair[p], outcome) : outcome \in {"timeout", "already"}}
        BY <1>0, <2>1, <3>2, <3>3 DEF Outcomes
      <3>4. CASE r \in {[pair[p] EXCEPT !.pc = label] : label \in {"start", "skip", "await"}}
        BY <1>0, <3>2, <3>4 DEF PairState
      <3> QED  BY <3>1, <3>3, <3>4
    <2>o. ASSUME OpenSession(p)
          PROVE  /\ pair'[p].pc # "sweep"
                 /\ pair'[p].outcome = pair[p].outcome \/ pair'[p].outcome # "paired"
      <3>1. CASE pair' = [pair EXCEPT ![p] = End(@, "error")]
        <4>1. pair'[p] = End(pair[p], "error")
          BY <3>1
        <4> QED  BY <1>0, <2>1, <4>1 DEF Outcomes
      <3>2. ASSUME NEW left \in 0 .. (Window + MaxSkew),
                   pair' = [pair EXCEPT ![p].pc = "check", ![p].session = "open",
                                        ![p].left = left, ![p].srv = Window]
            PROVE  pair'[p].pc = "check" /\ pair'[p].outcome = pair[p].outcome
        BY <1>0, <3>2 DEF PairState
      <3> QED  BY <2>o, <3>1, <3>2 DEF OpenSession
    <2>4. ASSUME PollAnswered(p)
          PROVE  /\ pair'[p].pc # "sweep"
                 /\ pair'[p].outcome = pair[p].outcome \/ pair'[p].outcome # "paired"
      BY <1>0, <2>4 DEF PollAnswered, Resting, PairState
    <2>5. ASSUME PollFailed(p)
          PROVE  /\ pair'[p].pc # "sweep"
                 /\ pair'[p].outcome = pair[p].outcome \/ pair'[p].outcome # "paired"
      <3>1. PICK lost \in BOOLEAN :
               LET r == [pair[p] EXCEPT !.session = IF lost THEN "redeemed" ELSE @] IN
               pair' \in {[pair EXCEPT ![p] = [r EXCEPT !.pc = "check"]],
                          [pair EXCEPT ![p] = End(r, "rejected")],
                          [pair EXCEPT ![p] = End(r, "error")]}
        BY <2>5 DEF PollFailed
      <3> DEFINE r == [pair[p] EXCEPT !.session = IF lost THEN "redeemed" ELSE @]
      <3>2. r \in PairState /\ r.outcome = pair[p].outcome
        BY <1>0 DEF PairState
      <3> HIDE DEF r
      <3>3. pair'[p] \in {[r EXCEPT !.pc = "check"], End(r, "rejected"), End(r, "error")}
        BY <3>1 DEF r
      <3>4. [r EXCEPT !.pc = "check"].pc = "check" /\ [r EXCEPT !.pc = "check"].outcome = r.outcome
        BY <3>2 DEF PairState
      <3> QED  BY <2>1, <3>2, <3>3, <3>4 DEF Outcomes
    <2> QED  BY <1>2, <1>3, <1>4, <2>2, <2>3, <2>o, <2>4, <2>5
  <1>5. CASE Gate(p)
    <2>1. pair[p].pc # "done" /\ ~Persisted(p)
      BY <1>5 DEF Gate, Persisted, At
    <2>2. End(pair[p], "refused").pc = "done" /\ End(pair[p], "refused").outcome = "refused"
      BY <1>0, EndTyped DEF Outcomes
    <2> DEFINE open == [Resting EXCEPT !.pc = "persist", !.trusted = TRUE]
    <2>3. open.pc = "persist" /\ open.outcome = "none"
      BY DEF Resting
    <2>4. pair'[p] = open \/ pair'[p] = End(pair[p], "refused")
      BY <1>5, GateStep
    <2> HIDE DEF open
    <2>5. pair'[p].pc # "sweep" /\ pair'[p].outcome # "paired"
      BY <2>2, <2>3, <2>4
    <2> QED  BY <1>2, <1>3, <2>1, <2>5
  <1>6. CASE ConfigFailed(p) \/ KillPair(p)
    <2>1. pair[p].pc # "done" /\ prior'[p] = prior[p]
      BY <1>6 DEF ConfigFailed, KillPair, otherVars, At
    <2>2. \A outcome \in {"error", "died"} :
             End(pair[p], outcome).pc = "done" /\ End(pair[p], outcome).outcome = outcome
      BY <1>0, EndTyped DEF Outcomes
    <2>3. pair'[p].pc # "sweep" /\ pair'[p].outcome # "paired"
      BY <1>6, <2>2 DEF ConfigFailed, KillPair
    <2> QED  BY <1>3, <2>1, <2>3
  <1>7. CASE Approve(p)
    <2>1. /\ pair'[p].pc = pair[p].pc /\ pair'[p].outcome = pair[p].outcome
          /\ pair'[p].todo = pair[p].todo /\ prior'[p] = prior[p]
      BY <1>0, <1>7 DEF Approve, PairState, otherVars
    <2> QED  BY <1>1, <2>1
  <1>8. CASE Persisted(p)
    <2>1. /\ pair[p].pc = "persist" /\ pair[p].outcome # "paired"
          /\ UNCHANGED <<stage, shifted>>
      BY <1>8 DEF Persisted, At, SweepInv, queueVars
    <2>2. End(pair[p], "error").pc = "done" /\ End(pair[p], "error").outcome = "error"
      BY <1>0, EndTyped DEF Outcomes
    <2>3. pair'[p].pc # "sweep" /\ pair'[p].outcome # "paired"
      BY <1>0, <1>8, <2>1, <2>2 DEF Persisted, PairState
    <2>4. \A e \in Queued : stage[e] # "new"
      BY DEF Queued
    <2>5. \A e \in prior'[p] : stage'[e] # "new"
      BY <1>8, <2>1, <2>4 DEF Persisted, SweepInv
    <2> QED  BY <2>3, <2>5 DEF SweepInv, At
  <1>9. CASE ListBacklog(p)
    <2>1. /\ pair[p].pc = "config" /\ pair[p].outcome # "paired"
          /\ UNCHANGED <<stage, shifted, prior>>
      BY <1>9 DEF ListBacklog, At, SweepInv, otherVars, queueVars
    <2>2. /\ pair'[p].todo = {NameOf(e) : e \in Queued} /\ pair'[p].outcome = pair[p].outcome
      BY <1>0, <1>9 DEF ListBacklog, PairState
    <2>3. ASSUME NEW e \in prior[p]
          PROVE  stage[e] = "gone" \/ NameOf(e) \in pair'[p].todo
      BY <1>0, <2>2 DEF Queued, SweepInv, Queue!Stages
    <2> QED  BY <2>1, <2>2, <2>3 DEF SweepInv, Cleared, NameOf, At
  <1>10. CASE SweepName(p)
    <2>1. PICK n \in pair[p].todo :
             /\ pair' = [pair EXCEPT ![p].todo = @ \ {n}]
             /\ IF stage[n.ev] = n.kind THEN Queue!Finish(n.ev) ELSE UNCHANGED queueVars
      BY <1>10 DEF SweepName
    <2>2. /\ At(p, "sweep") /\ UNCHANGED <<prior, shifted>>
          /\ pair'[p].todo = pair[p].todo \ {n} /\ pair'[p].pc = "sweep"
          /\ pair'[p].outcome = pair[p].outcome
      BY <1>0, <1>10, <2>1 DEF SweepName, PairState, At
    <2>3. ASSUME NEW e \in prior[p], NameOf(e) \in pair[p].todo
          PROVE  Cleared(e)' \/ NameOf(e)' \in pair'[p].todo
      <3>1. CASE NameOf(e) = n
        <4>1. n.ev = e /\ n.kind = stage[e]
          BY <3>1 DEF NameOf
        <4> QED  BY <1>0, <2>1, <4>1 DEF Queue!Finish, Cleared
      <3>2. CASE NameOf(e) # n
        <4>1. stage[e] \in {"parked", "taken"}
          BY <1>0, <2>3 DEF PairState, Names, NameOf
        <4>2. stage'[e] \in {stage[e], "gone"}
          BY <1>0, <2>1 DEF Queue!Finish, queueVars
        <4> QED  BY <2>2, <2>3, <3>2, <4>2 DEF Cleared, NameOf
      <3> QED  BY <3>1, <3>2
    <2> QED  BY <1>0, <2>2, <2>3, StageMoves DEF SweepInv, At
  <1>11. CASE Paired(p)
    <2>1. /\ \A e \in prior[p] : Cleared(e)
          /\ UNCHANGED <<stage, shifted, prior>>
      BY <1>11 DEF Paired, SweepInv, otherVars, queueVars
    <2>2. pair'[p].pc = "done"
      BY <1>0, <1>11, EndTyped DEF Paired, Outcomes
    <2> QED  BY <2>1, <2>2 DEF SweepInv, Cleared, At
  <1>12. ASSUME NEW q \in Pairs \ {p}, PairAction(q)
         PROVE  SweepInv(p)'
    <2>1. pair'[p] = pair[p]
      BY <1>12, OwnSteps
    <2>2. prior'[p] = prior[p]
      BY <1>12 DEF PairAction, PairStep, StartPair, StartSetup, SkipWhenPaired, OpenSession,
         CheckDeadline, PollAnswered, PollFailed, Persisted, ListBacklog, ConfigFailed, SweepName,
         Paired, Approve, Gate, KillPair, otherVars
    <2> QED  BY <1>1, <2>1, <2>2
  <1>13. ASSUME \A q \in Pairs : ~PairAction(q)
         PROVE  SweepInv(p)'
    <2>1. prior'[p] = prior[p]
      BY <1>2, <1>13 DEF PairAction, PairStep
    <2>2. CASE Tick
      <3>1. /\ pair'[p].pc = pair[p].pc /\ pair'[p].outcome = pair[p].outcome
            /\ pair'[p].todo = pair[p].todo
        BY <1>0, <2>2 DEF Tick, PairState
      <3> QED  BY <1>1, <2>1, <3>1
    <2>3. CASE ~Tick
      BY <1>1, <1>13, <2>1, <2>3, ElseSteps
    <2> QED  BY <2>2, <2>3
  <1> QED
    BY <1>4, <1>5, <1>6, <1>7, <1>8, <1>9, <1>10, <1>11, <1>12, <1>13 DEF PairAction, PairStep

-----------------------------------------------------------------------------
(* The invariant, and what follows from it.                                *)

PairInv ==
    /\ StoreInv
    /\ PartsTyped
    /\ MintInv
    /\ \A p \in Pairs : SweepInv(p)

\* At the start no pairing has begun, and none of their tokens is anywhere.
LEMMA PairInitInv ==
    ASSUME Init
    PROVE  PairInv
  <1>1. StoreInv
    BY StoreInitInv DEF Init
  <1>2. PartsTyped
    BY RestingTyped DEF Init, PartsTyped, HookState, Queue!Stages, Events
  <1>3. Seen \cap Pairs = {}
    <2>1. \A p \in Pairs : p # NoToken
      BY TokensAssumption, PartiesAssumption
    <2> QED  BY <2>1 DEF Init, StoreInit, Seen, Unused
  <1>4. ASSUME NEW p \in Pairs
        PROVE  SweepInv(p)
    BY <1>4 DEF Init, SweepInv, Resting, At
  <1> QED  BY <1>1, <1>2, <1>3, <1>4 DEF PairInv, MintInv

\* Every step keeps the invariant.
LEMMA PairStepInv ==
    ASSUME PairInv, [Next]_vars
    PROVE  PairInv'
  <1>1. PartsTyped'
    BY PartsStep DEF PairInv
  <1>2. /\ StoreInv'
        /\ \A p \in Pairs : p \in Seen' =>
              p \in Seen \/ (pair'[p].pc = "persist" /\ pair'[p].trusted)
    BY StoreEffect DEF PairInv
  <1>3. MintInv'
    BY <1>2, PastTheGate DEF PairInv, MintInv, Early
  <1>4. ASSUME NEW p \in Pairs
        PROVE  SweepInv(p)'
    BY <1>1, SweepStep DEF PairInv
  <1> QED  BY <1>1, <1>2, <1>3, <1>4 DEF PairInv

LEMMA PairInvariant == Spec => []PairInv
  BY PairInitInv, PairStepInv, PTL DEF Spec

\* Types: every store, process, hook and event of pairing stays what it is declared to be.
THEOREM PairingTyped == Spec => []TypeOK
  <1>1. PairInv => TypeOK
    BY DEF PairInv, StoreInv, PartsTyped, TypeOK
  <1> QED  BY <1>1, PairInvariant, PTL

\* The confirmation gate of pair.ts: a minted token is stored, written or read only
\* when the operator accepts the account that approved it.
THEOREM ConsentGiven == Spec => []ConsentBeforeTrust
  <1>1. PairInv => ConsentBeforeTrust
    BY DEF PairInv, MintInv, Seen, ConsentBeforeTrust
  <1> QED  BY <1>1, PairInvariant, PTL

\* The sweep of pair.ts: after a pairing that reports success nothing of the backlog
\* is left, but for the events that changed their name under it.
THEOREM BacklogGone == Spec => []BacklogSwept
  <1>1. PairInv => BacklogSwept
    BY DEF PairInv, SweepInv, Cleared, BacklogSwept
  <1> QED  BY <1>1, PairInvariant, PTL

\* readToken under pairing, unpairing and hooks: a lookup beside no write finds what
\* the last completed write left, or says that a store did not answer; one that cannot
\* launch `security' misses at most a token that is in the keychain.
THEOREM PairingLookupExact == Spec => []QuietLookupExact
  <1>1. PairInv => QuietLookupExact
    BY DEF PairInv, StoreInv
  <1> QED  BY <1>1, PairInvariant, PTL

\* setToken and clearToken under pairing, unpairing and hooks: a token that was
\* replaced or removed is not found again, unless a delete in the keychain failed or
\* two writers overlapped.
THEOREM PairingRemovedStays == Spec => []NoResurrection
  <1>1. PairInv => NoResurrection
    BY DEF PairInv, StoreInv
  <1> QED  BY <1>1, PairInvariant, PTL

=============================================================================
