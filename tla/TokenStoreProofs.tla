-------------------------- MODULE TokenStoreProofs --------------------------
(***************************************************************************)
(* Proofs about TokenStore, for any number of processes and tokens and any *)
(* number of failures.                                                     *)
(***************************************************************************)
EXTENDS TokenStore, TLAPS

(* The inductive invariant.  Neither property is inductive alone: a lookup  *)
(* is exact because what the last write left is what the two stores hold    *)
(* together, and a removed token stays away because the step that uncovers  *)
(* the keychain is only taken once the keychain has the new token or none.  *)

Writing(u) == store[u].pc \in Setting \cup Clearing

\* An item needs a keychain.
PlatformInv == ~hasKeychain => keychain \notin Tokens /\ \A u \in Users : ~StoreAt(u, "add")

\* What a lookup must find is what the stores hold, while nobody writes.
SettledInv ==
    settled # Unknown =>
        /\ \A u \in Users : ~Writing(u)
        /\ Current(file, keychain) = settled

\* What a writer that has been alone relies on.
WriterInv(u) ==
    Writing(u) /\ (store[u].clean \/ ~disturbed) =>
        /\ \A v \in Users : Writing(v) => v = u
        /\ StoreAt(u, "unfile") => keychain = store[u].tok
        /\ StoreAt(u, "rename") => tmp = store[u].tok
        /\ StoreAt(u, "delFile") => keychain \notin Tokens

\* A token on its way into the stores has not been there.
FreshInv(u) ==
    store[u].pc \in Setting =>
        /\ store[u].tok \in Tokens
        /\ ~disturbed => store[u].tok \notin retired
        /\ ~disturbed /\ StoreAt(u, "add") => store[u].tok \notin {keychain, file}

\* A lookup expects what is settled as long as that is what it began with, and asks the keychain only when the
\* file has nothing or did not answer.
ReaderInv(u) ==
    /\ store[u].pc \in Reading \cup {"absent"} => store[u].expect \in {Unknown, settled}
    /\ StoreAt(u, "readKey") =>
           store[u].expect = Unknown \/ store[u].refused \/ file = NoToken

StoreInv ==
    /\ StoreTypeOK
    /\ PlatformInv
    /\ SettledInv
    /\ \A u \in Users : WriterInv(u) /\ FreshInv(u) /\ ReaderInv(u)
    /\ QuietLookupExact
    /\ NoResurrection

-----------------------------------------------------------------------------
(* Steps of one process.                                                   *)

\* An operation moves on.
LEMMA Moves ==
    ASSUME store \in [Users -> StoreState], NEW u \in Users, NEW label \in Labels,
           store' = [store EXCEPT ![u].pc = label]
    PROVE  /\ store' \in [Users -> StoreState]
           /\ store'[u] = [store[u] EXCEPT !.pc = label]
           /\ \A v \in Users \ {u} : store'[v] = store[v]
  BY DEF StoreState

\* The state of one process is replaced.
LEMMA Becomes ==
    ASSUME store \in [Users -> StoreState], NEW u \in Users, NEW r \in StoreState,
           store' = [store EXCEPT ![u] = r]
    PROVE  /\ store' \in [Users -> StoreState]
           /\ store'[u] = r
           /\ \A v \in Users \ {u} : store'[v] = store[v]
  OBVIOUS

\* A write that begins spoils what the others expect.
LEMMA Begins ==
    ASSUME store \in [Users -> StoreState], NEW u \in Users, NEW r \in StoreState,
           BeginWrite(u, r)
    PROVE  /\ store' \in [Users -> StoreState]
           /\ store'[u] = [r EXCEPT !.clean = Writers = {}]
           /\ \A v \in Users \ {u} :
                store'[v] = [store[v] EXCEPT !.expect = Unknown, !.clean = FALSE]
           /\ settled' = Unknown
           /\ disturbed' = (disturbed \/ Writers # {})
  <1>1. [r EXCEPT !.clean = Writers = {}] \in StoreState
    BY DEF StoreState
  <1>2. \A v \in Users : [store[v] EXCEPT !.expect = Unknown, !.clean = FALSE] \in StoreState
    BY DEF StoreState
  <1> QED  BY <1>1, <1>2 DEF BeginWrite

LEMMA Labelled ==
    /\ Setting \subseteq Labels /\ Clearing \subseteq Labels
    /\ Reading \subseteq Labels /\ Answers \subseteq Labels
    /\ "idle" \in Labels
  BY DEF Setting, Clearing, Reading, Answers, Labels

LEMMA UnusedTyped == Unused \in StoreState
  BY TokensAssumption DEF Unused, StoreState, Labels

-----------------------------------------------------------------------------
(* Type correctness.                                                       *)

\* Every step keeps the types.
LEMMA StoreTypeStep ==
    ASSUME StoreTypeOK, [StoreNext]_storeVars
    PROVE  StoreTypeOK'
  <1> USE FaultsAssumption, UnusedTyped, Labelled DEF StoreTypeOK, NoFault, Fault, Keep
  <1>1. ASSUME NEW u \in Users, KeychainAdd(u)
        PROVE  StoreTypeOK'
    <2>1. store[u].tok \in Tokens \cup {NoToken}
      BY DEF StoreState
    <2>2. store' \in [Users -> StoreState] /\ settled' = settled
      BY <1>1, Moves DEF KeychainAdd, Go, Labels
    <2> QED  BY <1>1, <2>1, <2>2 DEF KeychainAdd, Put, Current
  <1>2. ASSUME NEW u \in Users, KeychainVerify(u)
        PROVE  StoreTypeOK'
    <2>1. store' \in [Users -> StoreState]
      BY <1>2, Moves DEF KeychainVerify, Go, Labels
    <2> QED  BY <1>2, <2>1 DEF KeychainVerify, Go
  <1>3. ASSUME NEW u \in Users, FileUnset(u)
        PROVE  StoreTypeOK'
    <2>1. store[u].tok \in Tokens \cup {NoToken}
      BY DEF StoreState
    <2>2. store' \in [Users -> StoreState] /\ settled' \in {settled, store[u].tok, Unknown}
      BY <1>3, Moves DEF FileUnset, Go, EndWrite, Labels
    <2> QED  BY <1>3, <2>1, <2>2 DEF FileUnset, Put, Current
  <1>4. ASSUME NEW u \in Users, FileWrite(u)
        PROVE  StoreTypeOK'
    <2>1. store[u].tok \in Tokens \cup {NoToken}
      BY DEF StoreState
    <2>2. store' \in [Users -> StoreState] /\ settled' \in {settled, Unknown}
      BY <1>4, Moves DEF FileWrite, Go, EndWrite, Labels
    <2> QED  BY <1>4, <2>1, <2>2 DEF FileWrite
  <1>5. ASSUME NEW u \in Users, FileRename(u)
        PROVE  StoreTypeOK'
    <2>1. store[u].tok \in Tokens \cup {NoToken}
      BY DEF StoreState
    <2>2. store' \in [Users -> StoreState] /\ settled' \in {store[u].tok, Unknown}
      BY <1>5, Moves DEF FileRename, EndWrite, Labels
    <2> QED  BY <1>5, <2>1, <2>2 DEF FileRename, Put, Current
  <1>6. ASSUME NEW u \in Users, FileRead(u)
        PROVE  StoreTypeOK'
    <2>1. store' \in [Users -> StoreState]
      BY <1>6 DEF FileRead, StoreState, Labels
    <2> QED  BY <1>6, <2>1 DEF FileRead
  <1>7. ASSUME NEW u \in Users, KeychainRead(u)
        PROVE  StoreTypeOK'
    <2>1. store' \in [Users -> StoreState]
      BY <1>7 DEF KeychainRead, StoreState, Labels, Empty
    <2> QED  BY <1>7, <2>1 DEF KeychainRead
  <1>8. ASSUME NEW u \in Users, KeychainDelete(u)
        PROVE  StoreTypeOK'
    <2> DEFINE clean == store[u].clean /\ ~(keychain' \in Tokens)
               r     == [store[u] EXCEPT !.pc = "delFile", !.clean = clean]
    <2>1. store[u] \in StoreState /\ clean \in BOOLEAN
      OBVIOUS
    <2>2. store' = [store EXCEPT ![u] = r]
      BY <1>8 DEF KeychainDelete
    <2> HIDE DEF clean
    <2>3. r \in StoreState
      BY <2>1 DEF StoreState, Labels
    <2> HIDE DEF r
    <2>4. store' \in [Users -> StoreState]
      BY <2>2, <2>3
    <2> QED  BY <1>8, <2>4 DEF KeychainDelete, Put, Current
  <1>9. ASSUME NEW u \in Users, FileDelete(u)
        PROVE  StoreTypeOK'
    <2>1. store' \in [Users -> StoreState] /\ settled' \in {NoToken, Unknown}
      BY <1>9, Moves DEF FileDelete, EndWrite, Labels
    <2> QED  BY <1>9, <2>1 DEF FileDelete, Put, Current
  <1>10. ASSUME NEW u \in Users, StartRead(u)
         PROVE  StoreTypeOK'
    <2>1. [Unused EXCEPT !.pc = "readFile", !.expect = settled] \in StoreState
      BY DEF Unused, StoreState, Labels
    <2> QED  BY <1>10, <2>1, Becomes DEF StartRead
  <1>11. ASSUME NEW u \in Users, StartClear(u)
         PROVE  StoreTypeOK'
    <2>1. [Unused EXCEPT !.pc = IF hasKeychain THEN "delKey" ELSE "delFile"] \in StoreState
      BY DEF Unused, StoreState, Labels
    <2> QED  BY <1>11, <2>1, Begins DEF StartClear
  <1>12. ASSUME NEW u \in Users, NEW t \in FreshTokens, StartSet(u, t)
         PROVE  StoreTypeOK'
    <2>1. [Unused EXCEPT !.tok = t, !.pc = IF hasKeychain THEN "add" ELSE "tmp"] \in StoreState
      BY DEF Unused, StoreState, Labels, FreshTokens
    <2> QED  BY <1>12, <2>1, Begins DEF StartSet
  <1>13. ASSUME NEW u \in Users, Die(u) \/ Consume(u)
         PROVE  StoreTypeOK'
    BY <1>13, Becomes DEF Die, Consume
  <1>14. CASE ToggleLock
    BY <1>14 DEF ToggleLock
  <1>15. CASE UNCHANGED storeVars
    BY <1>15 DEF storeVars
  <1> QED
    BY <1>1, <1>2, <1>3, <1>4, <1>5, <1>6, <1>7, <1>8, <1>9, <1>10, <1>11, <1>12, <1>13,
       <1>14, <1>15 DEF StoreNext, StoreStep

-----------------------------------------------------------------------------
(* The invariant.                                                          *)

LEMMA Apart ==
    /\ Setting \cap Reading = {} /\ Clearing \cap Reading = {} /\ Setting \cap Clearing = {}
    /\ (Setting \cup Clearing \cup Reading) \cap Answers = {}
    /\ "idle" \notin Setting \cup Clearing \cup Reading \cup Answers
  BY DEF Setting, Clearing, Reading, Answers

\* A step of a writer disturbs nobody's invariant but its own: if it has been alone
\* there is no other writer, and in either case no lookup expects anything.
LEMMA WriterStep ==
    ASSUME StoreInv, StoreTypeOK', NEW u \in Users, Writing(u),
           \A v \in Users \ {u} : store'[v] = store[v],
           store'[u].pc \in Setting \cup Clearing \cup {"stored", "threw", "cleared"},
           disturbed => disturbed',
           settled' # settled /\ settled' # Unknown =>
               store[u].clean /\ ~Writing(u)' /\ settled' = Current(file, keychain)',
           PlatformInv', WriterInv(u)', FreshInv(u)', NoResurrection', retired \subseteq retired'
    PROVE  StoreInv'
  <1>1. settled = Unknown
    BY DEF StoreInv, SettledInv
  <1>2. \A v \in Users \ {u} : Writing(v) => disturbed /\ ~store[v].clean /\ ~store[u].clean
    BY DEF StoreInv, WriterInv
  <1>3. SettledInv'
    <2>1. ASSUME settled' # Unknown, NEW v \in Users
          PROVE  ~Writing(v)'
      BY <1>1, <1>2, <2>1 DEF Writing
    <2> QED  BY <1>1, <2>1 DEF SettledInv
  <1>4. ASSUME NEW v \in Users \ {u}
        PROVE  WriterInv(v)' /\ FreshInv(v)' /\ ReaderInv(v)'
    <2>1. WriterInv(v)'
      BY <1>2 DEF WriterInv, Writing
    <2>2. FreshInv(v)'
      BY <1>2 DEF StoreInv, FreshInv, Writing
    <2>3. ReaderInv(v)'
      BY <1>1 DEF StoreInv, ReaderInv, StoreAt, Reading
    <2> QED  BY <2>1, <2>2, <2>3
  <1>5. ReaderInv(u)'
    BY DEF ReaderInv, StoreAt, Reading, Setting, Clearing
  <1>6. QuietLookupExact'
    <2>1. \A v \in Users : StoreAt(v, "absent") => store[v].expect = Unknown
      BY <1>1 DEF StoreInv, ReaderInv, StoreAt
    <2> QED  BY <2>1 DEF StoreInv, QuietLookupExact, StoreAt, Setting, Clearing
  <1> QED  BY <1>3, <1>4, <1>5, <1>6 DEF StoreInv

\* A step of a process that does not write, or an end of one.
LEMMA OtherStep ==
    ASSUME StoreInv, StoreTypeOK', NEW u \in Users,
           \A v \in Users \ {u} : store'[v] = store[v],
           ~Writing(u)', UNCHANGED <<hasKeychain, keychain, file, tmp, settled, retired, disturbed>>,
           ReaderInv(u)',
           StoreAt(u, "present")' =>
                (store[u].expect \in {Unknown, store[u].tok} \/ store[u].refused)',
           StoreAt(u, "absent")' => (\/ store[u].expect \in {Unknown, NoToken}
                                     \/ store[u].unlaunched /\ file = NoToken)'
    PROVE  StoreInv'
  <1>1. PlatformInv' /\ NoResurrection'
    BY DEF StoreInv, PlatformInv, NoResurrection, Current, Writing, StoreAt, Setting
  <1>2. SettledInv'
    BY DEF StoreInv, SettledInv, Writing, Current
  <1>3. ASSUME NEW v \in Users
        PROVE  WriterInv(v)' /\ FreshInv(v)' /\ ReaderInv(v)'
    <2>1. CASE v = u
      BY <2>1 DEF WriterInv, FreshInv, Writing
    <2>2. CASE v # u
      <3>1. WriterInv(v)'
        BY <2>2 DEF StoreInv, WriterInv, Writing, StoreAt
      <3>2. FreshInv(v)' /\ ReaderInv(v)'
        BY <2>2 DEF StoreInv, FreshInv, ReaderInv, StoreAt
      <3> QED  BY <3>1, <3>2
    <2> QED  BY <2>1, <2>2
  <1>4. QuietLookupExact'
    BY DEF StoreInv, QuietLookupExact, StoreAt
  <1> QED  BY <1>1, <1>2, <1>3, <1>4 DEF StoreInv

\* What is retired by a change of the two stores.
LEMMA PutRetires ==
    ASSUME StoreTypeOK, NoResurrection, NEW k, NEW f, Put(k, f),
           ~disturbed' => ~disturbed,
           ~disturbed' => Current(f, k) = Current(file, keychain) \/ Current(f, k) \notin retired
    PROVE  NoResurrection' /\ retired \subseteq retired'
  <1>1. Current(file, keychain)' = Current(f, k)
    BY DEF Put, Current
  <1> QED  BY <1>1 DEF Put, NoResurrection

\* Every step keeps the invariant.
LEMMA StoreStepInv ==
    ASSUME StoreInv, [StoreNext]_storeVars
    PROVE  StoreInv'
  <1>t. StoreTypeOK /\ StoreTypeOK'
    BY StoreTypeStep DEF StoreInv
  <1>n. NoToken \notin Tokens /\ Blank \notin Tokens /\ Blank # NoToken
        /\ Unknown \notin Tokens /\ Unknown # NoToken /\ NoToken \notin retired
    BY <1>t, TokensAssumption DEF StoreTypeOK
  <1> USE <1>t, <1>n DEF NoFault, Fault, Keep
  <1>1. ASSUME NEW u \in Users, KeychainAdd(u)
        PROVE  StoreInv'
    <2>1. Writing(u) /\ WriterInv(u) /\ FreshInv(u) /\ NoResurrection
      BY <1>1 DEF KeychainAdd, StoreInv, Writing, StoreAt, Setting
    <2>2. PICK label \in {"verify", "tmp"} : store' = [store EXCEPT ![u].pc = label]
      BY <1>1 DEF KeychainAdd, Go
    <2>3. /\ store'[u] = [store[u] EXCEPT !.pc = label]
          /\ \A v \in Users \ {u} : store'[v] = store[v]
      BY <2>2, Moves DEF StoreTypeOK, Labels
    <2>4. store'[u].pc = label /\ store'[u].tok = store[u].tok /\ store'[u].clean = store[u].clean
      BY <2>3 DEF StoreTypeOK, StoreState
    <2>5. PlatformInv'
      BY <1>1, <2>3, <2>4 DEF KeychainAdd, StoreInv, PlatformInv, StoreAt
    <2>6. NoResurrection' /\ retired \subseteq retired' /\ FreshInv(u)'
      <3>1. CASE UNCHANGED <<keychain, file, retired>>
        BY <1>1, <2>1, <2>2, <2>4, <3>1 DEF KeychainAdd, NoResurrection, Current, FreshInv, StoreAt, Setting
      <3>2. ASSUME NEW k \in {store[u].tok, Blank}, Put(k, file)
            PROVE  NoResurrection' /\ retired \subseteq retired' /\ FreshInv(u)'
        <4>1. ~disturbed' => Current(file, k) = Current(file, keychain) \/ Current(file, k) \notin retired
          BY <1>1, <2>1, <3>2 DEF KeychainAdd, FreshInv, Current, Setting, StoreAt
        <4>2. NoResurrection' /\ retired \subseteq retired'
          BY <1>1, <2>1, <3>2, <4>1, PutRetires DEF KeychainAdd
        <4>3. FreshInv(u)'
          BY <1>1, <2>1, <2>2, <2>4, <3>2 DEF KeychainAdd, FreshInv, StoreAt, Put, Current, Setting
        <4> QED  BY <4>2, <4>3
      <3> QED  BY <1>1, <3>1, <3>2 DEF KeychainAdd
    <2>8. WriterInv(u)'
      BY <1>1, <2>1, <2>3, <2>4 DEF KeychainAdd, WriterInv, StoreAt, Writing
    <2> QED  BY <1>1, <2>1, <2>3, <2>4, <2>5, <2>6, <2>8, WriterStep
             DEF KeychainAdd, Go, Setting
  <1>2. ASSUME NEW u \in Users, KeychainVerify(u)
        PROVE  StoreInv'
    <2>1. Writing(u) /\ WriterInv(u) /\ FreshInv(u) /\ NoResurrection /\ PlatformInv
      BY <1>2 DEF KeychainVerify, StoreInv, Writing, StoreAt, Setting
    <2>2. PICK label \in {"unfile", "tmp"} :
             /\ store' = [store EXCEPT ![u].pc = label]
             /\ label = "unfile" => keychain = store[u].tok
      BY <1>2 DEF KeychainVerify, Go
    <2>3. /\ store'[u] = [store[u] EXCEPT !.pc = label]
          /\ \A v \in Users \ {u} : store'[v] = store[v]
      BY <2>2, Moves DEF StoreTypeOK, Labels
    <2>4. store'[u].pc = label /\ store'[u].tok = store[u].tok /\ store'[u].clean = store[u].clean
      BY <2>3 DEF StoreTypeOK, StoreState
    <2>5. PlatformInv' /\ NoResurrection' /\ retired \subseteq retired'
      BY <1>2, <2>1, <2>3, <2>4 DEF KeychainVerify, PlatformInv, NoResurrection, Current, StoreAt
    <2>6. FreshInv(u)'
      BY <1>2, <2>1, <2>4 DEF KeychainVerify, FreshInv, StoreAt, Setting
    <2>7. WriterInv(u)'
      BY <1>2, <2>1, <2>2, <2>3, <2>4 DEF KeychainVerify, WriterInv, StoreAt, Writing
    <2> QED  BY <1>2, <2>1, <2>3, <2>4, <2>5, <2>6, <2>7, WriterStep
             DEF KeychainVerify, Go, Setting
  <1>3. ASSUME NEW u \in Users, FileUnset(u)
        PROVE  StoreInv'
    <2>1. Writing(u) /\ WriterInv(u) /\ FreshInv(u) /\ NoResurrection /\ PlatformInv
      BY <1>3 DEF FileUnset, StoreInv, Writing, StoreAt, Setting
    <2>2. PICK label \in {"stored", "tmp"} : store' = [store EXCEPT ![u].pc = label]
      BY <1>3 DEF FileUnset, Go, EndWrite
    <2>3. /\ store'[u] = [store[u] EXCEPT !.pc = label]
          /\ \A v \in Users \ {u} : store'[v] = store[v]
      BY <2>2, Moves DEF StoreTypeOK, Labels
    <2>4. store'[u].pc = label /\ store'[u].tok = store[u].tok /\ store'[u].clean = store[u].clean
      BY <2>3 DEF StoreTypeOK, StoreState
    <2>5. PlatformInv'
      BY <1>3, <2>1, <2>3, <2>4 DEF FileUnset, PlatformInv, Put, StoreAt
    <2>6. store[u].clean \/ ~disturbed => keychain = store[u].tok /\ store[u].tok \in Tokens
      BY <1>3, <2>1 DEF FileUnset, WriterInv, FreshInv, StoreAt, Setting
    <2>7. NoResurrection' /\ retired \subseteq retired' /\ FreshInv(u)'
      <3>1. CASE UNCHANGED <<keychain, file, retired>>
        BY <1>3, <2>1, <2>2, <2>4, <3>1 DEF FileUnset, NoResurrection, Current, FreshInv, StoreAt, Setting
      <3>2. CASE Put(keychain, NoToken) /\ label = "stored"
        <4>1. ~disturbed' => Current(NoToken, keychain) \notin retired
          BY <1>3, <2>1, <2>6 DEF FileUnset, FreshInv, Current, Setting, StoreAt
        <4>2. NoResurrection' /\ retired \subseteq retired'
          BY <1>3, <2>1, <3>2, <4>1, PutRetires DEF FileUnset
        <4>3. FreshInv(u)'
          BY <2>4, <3>2 DEF FreshInv, Setting
        <4> QED  BY <4>2, <4>3
      <3>3. Put(keychain, NoToken) => label = "stored" \/ UNCHANGED <<keychain, file, retired>>
        BY <1>3, <2>4, Moves DEF FileUnset, Go, EndWrite, StoreTypeOK, Labels, StoreState
      <3> QED  BY <1>3, <3>1, <3>2, <3>3 DEF FileUnset
    <2>8. WriterInv(u)'
      BY <1>3, <2>1, <2>2, <2>3, <2>4 DEF FileUnset, WriterInv, StoreAt, Writing, Setting, Clearing
    <2>9. settled' # settled /\ settled' # Unknown =>
             store[u].clean /\ ~Writing(u)' /\ settled' = Current(file, keychain)'
      <3>1. CASE Go(u, "tmp")
        BY <3>1 DEF Go
      <3>2. CASE Put(keychain, NoToken) /\ EndWrite(u, "stored", store[u].tok)
        <4>1. store'[u].pc = "stored"
          BY <3>2, Moves, SMTT(30) DEF EndWrite, StoreTypeOK, Labels, StoreState
        <4> QED  BY <2>6, <3>2, <4>1 DEF EndWrite, Put, Current, Writing, Setting, Clearing
      <3> QED  BY <1>3, <3>1, <3>2 DEF FileUnset
    <2> QED  BY <1>3, <2>1, <2>3, <2>4, <2>5, <2>7, <2>8, <2>9, WriterStep
             DEF FileUnset, Setting
  <1>4. ASSUME NEW u \in Users, FileWrite(u)
        PROVE  StoreInv'
    <2>1. Writing(u) /\ WriterInv(u) /\ FreshInv(u) /\ NoResurrection /\ PlatformInv
      BY <1>4 DEF FileWrite, StoreInv, Writing, StoreAt, Setting
    <2>2. PICK label \in {"rename", "threw"} :
             /\ store' = [store EXCEPT ![u].pc = label]
             /\ label = "rename" => tmp' = store[u].tok
             /\ settled' \in {settled, Unknown}
      BY <1>4 DEF FileWrite, Go, EndWrite
    <2>3. /\ store'[u] = [store[u] EXCEPT !.pc = label]
          /\ \A v \in Users \ {u} : store'[v] = store[v]
      BY <2>2, Moves DEF StoreTypeOK, Labels
    <2>4. store'[u].pc = label /\ store'[u].tok = store[u].tok /\ store'[u].clean = store[u].clean
      BY <2>3 DEF StoreTypeOK, StoreState
    <2>5. PlatformInv' /\ NoResurrection' /\ retired \subseteq retired'
      BY <1>4, <2>1, <2>3, <2>4 DEF FileWrite, PlatformInv, NoResurrection, Current, StoreAt
    <2>6. FreshInv(u)'
      BY <1>4, <2>1, <2>4 DEF FileWrite, FreshInv, StoreAt, Setting
    <2>7. WriterInv(u)'
      BY <1>4, <2>1, <2>2, <2>3, <2>4 DEF FileWrite, WriterInv, StoreAt, Writing, Setting, Clearing
    <2> QED  BY <1>4, <2>1, <2>2, <2>3, <2>4, <2>5, <2>6, <2>7, WriterStep
             DEF FileWrite, Setting
  <1>5. ASSUME NEW u \in Users, FileRename(u)
        PROVE  StoreInv'
    <2>1. Writing(u) /\ WriterInv(u) /\ FreshInv(u) /\ NoResurrection /\ PlatformInv
      BY <1>5 DEF FileRename, StoreInv, Writing, StoreAt, Setting
    <2>2. PICK label \in {"stored", "threw"} : store' = [store EXCEPT ![u].pc = label]
      BY <1>5 DEF FileRename, EndWrite
    <2>3. /\ store'[u] = [store[u] EXCEPT !.pc = label]
          /\ \A v \in Users \ {u} : store'[v] = store[v]
      BY <2>2, Moves DEF StoreTypeOK, Labels
    <2>4. store'[u].pc = label /\ store'[u].tok = store[u].tok /\ store'[u].clean = store[u].clean
      BY <2>3 DEF StoreTypeOK, StoreState
    <2>5. PlatformInv' /\ FreshInv(u)' /\ WriterInv(u)' /\ ~Writing(u)'
      BY <1>5, <2>1, <2>3, <2>4
      DEF FileRename, PlatformInv, FreshInv, WriterInv, Writing, Put, StoreAt, Setting, Clearing
    <2>6. store[u].clean \/ ~disturbed => tmp = store[u].tok /\ store[u].tok \in Tokens
      BY <1>5, <2>1 DEF FileRename, WriterInv, FreshInv, StoreAt, Setting
    <2>7. NoResurrection' /\ retired \subseteq retired'
      <3>1. CASE UNCHANGED <<keychain, file, retired>>
        BY <1>5, <2>1, <3>1 DEF FileRename, NoResurrection, Current
      <3>2. CASE Put(keychain, tmp)
        <4>1. ~disturbed' => Current(tmp, keychain) \notin retired
          BY <1>5, <2>1, <2>6 DEF FileRename, FreshInv, Current, Setting, StoreAt
        <4> QED  BY <1>5, <2>1, <3>2, <4>1, PutRetires DEF FileRename
      <3> QED  BY <1>5, <3>1, <3>2 DEF FileRename
    <2>8. settled' # settled /\ settled' # Unknown =>
             store[u].clean /\ ~Writing(u)' /\ settled' = Current(file, keychain)'
      BY <1>5, <2>5, <2>6 DEF FileRename, EndWrite, Put, Current
    <2> QED  BY <1>5, <2>1, <2>3, <2>4, <2>5, <2>7, <2>8, WriterStep DEF FileRename
  <1>6. ASSUME NEW u \in Users, KeychainDelete(u)
        PROVE  StoreInv'
    <2>1. Writing(u) /\ WriterInv(u) /\ NoResurrection /\ PlatformInv
      BY <1>6 DEF KeychainDelete, StoreInv, Writing, StoreAt, Clearing
    <2>2. /\ store'[u].pc = "delFile"
          /\ store'[u].clean => store[u].clean /\ keychain' \notin Tokens
          /\ \A v \in Users \ {u} : store'[v] = store[v]
          /\ disturbed' = (disturbed \/ keychain' \in Tokens)
      BY <1>6 DEF KeychainDelete, StoreTypeOK, StoreState
    <2>3. Put(NoToken, file) \/ UNCHANGED <<keychain, file, retired>>
      BY <1>6 DEF KeychainDelete
    <2>4. UNCHANGED <<hasKeychain, tmp, settled>>
      BY <1>6 DEF KeychainDelete
    <2>5. PlatformInv'
      BY <2>1, <2>2, <2>3, <2>4 DEF PlatformInv, Put, StoreAt
    <2>6. FreshInv(u)'
      BY <2>2 DEF FreshInv, Setting
    <2>7. WriterInv(u)'
      BY <2>1, <2>2 DEF WriterInv, Writing, StoreAt
    <2>8. NoResurrection' /\ retired \subseteq retired'
      <3>1. CASE UNCHANGED <<keychain, file, retired>>
        BY <2>1, <2>2, <3>1 DEF NoResurrection, Current
      <3>2. CASE Put(NoToken, file)
        <4>1. Current(file, NoToken) = Current(file, keychain) \/ Current(file, NoToken) \notin retired
          BY DEF Current
        <4> QED  BY <2>1, <2>2, <3>2, <4>1, PutRetires
      <3> QED  BY <2>3, <3>1, <3>2
    <2> QED  BY <2>1, <2>2, <2>4, <2>5, <2>6, <2>7, <2>8, WriterStep DEF Clearing
  <1>7. ASSUME NEW u \in Users, FileDelete(u)
        PROVE  StoreInv'
    <2>1. Writing(u) /\ WriterInv(u) /\ NoResurrection /\ PlatformInv
      BY <1>7 DEF FileDelete, StoreInv, Writing, StoreAt, Clearing
    <2>2. PICK label \in {"cleared", "threw"} : store' = [store EXCEPT ![u].pc = label]
      BY <1>7 DEF FileDelete, EndWrite
    <2>3. /\ store'[u] = [store[u] EXCEPT !.pc = label]
          /\ \A v \in Users \ {u} : store'[v] = store[v]
      BY <2>2, Moves DEF StoreTypeOK, Labels
    <2>4. store'[u].pc = label
      BY <2>3 DEF StoreTypeOK, StoreState
    <2>5. PlatformInv' /\ FreshInv(u)' /\ WriterInv(u)' /\ ~Writing(u)'
      BY <1>7, <2>1, <2>3, <2>4
      DEF FileDelete, PlatformInv, FreshInv, WriterInv, Writing, Put, StoreAt, Setting, Clearing
    <2>6. store[u].clean \/ ~disturbed => keychain \notin Tokens
      BY <1>7, <2>1 DEF FileDelete, WriterInv, StoreAt
    <2>7. NoResurrection' /\ retired \subseteq retired'
      <3>1. CASE UNCHANGED <<keychain, file, retired>>
        BY <1>7, <2>1, <3>1 DEF FileDelete, NoResurrection, Current
      <3>2. CASE Put(keychain, NoToken)
        <4>1. ~disturbed' => Current(NoToken, keychain) \notin retired
          BY <1>7, <2>6 DEF FileDelete, Current
        <4> QED  BY <1>7, <2>1, <3>2, <4>1, PutRetires DEF FileDelete
      <3> QED  BY <1>7, <3>1, <3>2 DEF FileDelete
    <2>8. settled' # settled /\ settled' # Unknown =>
             store[u].clean /\ ~Writing(u)' /\ settled' = Current(file, keychain)'
      BY <1>7, <2>5, <2>6 DEF FileDelete, EndWrite, Put, Current
    <2> QED  BY <1>7, <2>1, <2>3, <2>4, <2>5, <2>7, <2>8, WriterStep DEF FileDelete
  <1>8. ASSUME NEW u \in Users, FileRead(u)
        PROVE  StoreInv'
    <2>1. ReaderInv(u) /\ SettledInv /\ PlatformInv /\ store[u].pc = "readFile"
      BY <1>8 DEF FileRead, StoreInv, StoreAt
    <2>2. /\ \A v \in Users \ {u} : store'[v] = store[v]
          /\ store'[u].expect = store[u].expect
          /\ store'[u].pc \in {"present", "readKey", "absent", "unavailable"}
          /\ store'[u].pc = "present" => file # NoToken /\ store'[u].tok = file
          /\ store'[u].pc = "readKey" => file = NoToken \/ store'[u].refused
          /\ store'[u].pc = "absent" => file = NoToken /\ ~hasKeychain
      BY <1>8 DEF FileRead, StoreTypeOK, StoreState
    <2>3. store[u].expect \in {Unknown, settled}
      BY <2>1 DEF ReaderInv, Reading
    <2>4. ReaderInv(u)'
      BY <1>8, <2>2, <2>3 DEF FileRead, ReaderInv, StoreAt, Reading
    <2>5. StoreAt(u, "present")' => store'[u].expect \in {Unknown, store'[u].tok}
      BY <2>1, <2>2, <2>3 DEF StoreAt, SettledInv, Current
    <2>6. StoreAt(u, "absent")' => store'[u].expect \in {Unknown, NoToken}
      BY <2>1, <2>2, <2>3 DEF StoreAt, SettledInv, PlatformInv, Current
    <2>7. ~Writing(u)'
      BY <2>2 DEF Writing, Setting, Clearing
    <2> QED  BY <1>8, <2>2, <2>4, <2>5, <2>6, <2>7, OtherStep DEF FileRead
  <1>9. ASSUME NEW u \in Users, KeychainRead(u)
        PROVE  StoreInv'
    <2>1. ReaderInv(u) /\ SettledInv /\ store[u].pc = "readKey"
      BY <1>9 DEF KeychainRead, StoreInv, StoreAt
    <2>2. /\ \A v \in Users \ {u} : store'[v] = store[v]
          /\ store'[u].expect = store[u].expect
          /\ store'[u].refused = store[u].refused
          /\ store'[u].pc \in {"present", "absent", "unavailable"}
          /\ store'[u].pc = "present" => keychain \in Tokens /\ store'[u].tok = keychain
          /\ store'[u].pc = "absent" =>
                 ~store[u].refused /\ (keychain \notin Tokens \/ store'[u].unlaunched)
      BY <1>9 DEF KeychainRead, Empty, StoreTypeOK, StoreState
    <2>3. /\ store[u].expect \in {Unknown, settled}
          /\ store[u].expect = Unknown \/ store[u].refused \/ file = NoToken
      BY <2>1 DEF ReaderInv, Reading, StoreAt
    <2>4. ReaderInv(u)' /\ ~Writing(u)'
      BY <1>9, <2>2, <2>3 DEF KeychainRead, ReaderInv, StoreAt, Reading, Writing, Setting, Clearing
    <2>5. StoreAt(u, "present")' =>
             store'[u].expect \in {Unknown, store'[u].tok} \/ store'[u].refused
      BY <2>1, <2>2, <2>3 DEF StoreAt, SettledInv, Current
    <2>6. StoreAt(u, "absent")' => \/ store'[u].expect \in {Unknown, NoToken}
                                   \/ store'[u].unlaunched /\ file = NoToken
      BY <2>1, <2>2, <2>3 DEF StoreAt, SettledInv, Current
    <2> QED  BY <1>9, <2>2, <2>4, <2>5, <2>6, OtherStep DEF KeychainRead
  <1>10. ASSUME NEW u \in Users, StartRead(u)
         PROVE  StoreInv'
    <2>1. [Unused EXCEPT !.pc = "readFile", !.expect = settled] \in StoreState
      BY UnusedTyped DEF Unused, StoreState, Labels, StoreTypeOK
    <2>2. /\ \A v \in Users \ {u} : store'[v] = store[v]
          /\ store'[u].pc = "readFile" /\ store'[u].expect = settled
      BY <1>10, <2>1, Becomes DEF StartRead, StoreTypeOK, Unused
    <2>3. ReaderInv(u)' /\ ~Writing(u)'
      BY <1>10, <2>2 DEF StartRead, ReaderInv, StoreAt, Writing, Setting, Clearing
    <2> QED  BY <1>10, <2>2, <2>3, OtherStep DEF StartRead, StoreAt
  <1>11. ASSUME NEW u \in Users, Die(u) \/ Consume(u)
         PROVE  StoreInv'
    <2>1. /\ \A v \in Users \ {u} : store'[v] = store[v]
          /\ store'[u].pc = "idle"
      BY <1>11, UnusedTyped, Becomes DEF Die, Consume, StoreTypeOK, Unused
    <2>2. ReaderInv(u)' /\ ~Writing(u)'
      BY <2>1 DEF ReaderInv, StoreAt, Reading, Writing, Setting, Clearing
    <2> QED  BY <1>11, <2>1, <2>2, OtherStep DEF Die, Consume, StoreAt
  <1>12. ASSUME NEW u \in Users, StartClear(u) \/ \E t \in FreshTokens : StartSet(u, t)
         PROVE  StoreInv'
    <2>1. PICK r \in StoreState :
             /\ BeginWrite(u, r)
             /\ r.pc = "add" => hasKeychain
             /\ r.pc = "delFile" => ~hasKeychain
             /\ r.pc \in {"add", "tmp", "delKey", "delFile"}
             /\ r.pc \in Setting => r.tok \in FreshTokens
      <3>1. CASE StartClear(u)
        <4> DEFINE r == [Unused EXCEPT !.pc = IF hasKeychain THEN "delKey" ELSE "delFile"]
        <4>1. r \in StoreState /\ r.pc = IF hasKeychain THEN "delKey" ELSE "delFile"
          BY UnusedTyped DEF Unused, StoreState, Labels
        <4>2. BeginWrite(u, r)
          BY <3>1 DEF StartClear
        <4> HIDE DEF r
        <4> QED  BY <4>1, <4>2 DEF Setting
      <3>2. ASSUME NEW t \in FreshTokens, StartSet(u, t)
            PROVE  \E r \in StoreState :
                     /\ BeginWrite(u, r)
                     /\ r.pc = "add" => hasKeychain
                     /\ r.pc = "delFile" => ~hasKeychain
                     /\ r.pc \in {"add", "tmp", "delKey", "delFile"}
                     /\ r.pc \in Setting => r.tok \in FreshTokens
        <4> DEFINE r == [Unused EXCEPT !.tok = t, !.pc = IF hasKeychain THEN "add" ELSE "tmp"]
        <4>1. r \in StoreState /\ r.tok = t /\ r.pc = IF hasKeychain THEN "add" ELSE "tmp"
          BY UnusedTyped DEF Unused, StoreState, Labels, FreshTokens
        <4>2. BeginWrite(u, r)
          BY <3>2 DEF StartSet
        <4> HIDE DEF r
        <4> QED  BY <4>1, <4>2
      <3> QED  BY <1>12, <3>1, <3>2
    <2>2. /\ store'[u].pc = r.pc /\ store'[u].tok = r.tok /\ store'[u].clean = (Writers = {})
          /\ \A v \in Users \ {u} :
               /\ store'[v].pc = store[v].pc /\ store'[v].tok = store[v].tok
               /\ store'[v].refused = store[v].refused
               /\ store'[v].expect = Unknown /\ store'[v].clean = FALSE
          /\ settled' = Unknown /\ disturbed' = (disturbed \/ Writers # {})
      <3>1. /\ store'[u] = [r EXCEPT !.clean = Writers = {}]
            /\ \A v \in Users \ {u} :
                 store'[v] = [store[v] EXCEPT !.expect = Unknown, !.clean = FALSE]
            /\ settled' = Unknown /\ disturbed' = (disturbed \/ Writers # {})
        BY <2>1, Begins DEF StoreTypeOK
      <3>2. store'[u].pc = r.pc /\ store'[u].tok = r.tok /\ store'[u].clean = (Writers = {})
        BY <3>1 DEF StoreState
      <3>3. ASSUME NEW v \in Users \ {u}
            PROVE  /\ store'[v].pc = store[v].pc /\ store'[v].tok = store[v].tok
                   /\ store'[v].refused = store[v].refused
                   /\ store'[v].expect = Unknown /\ store'[v].clean = FALSE
        <4>1. store[v] \in StoreState /\ store'[v] = [store[v] EXCEPT !.expect = Unknown, !.clean = FALSE]
          BY <3>1 DEF StoreTypeOK
        <4> QED  BY <4>1 DEF StoreState
      <3> QED  BY <3>1, <3>2, <3>3
    <2>3. UNCHANGED <<hasKeychain, keychain, file, tmp, retired>>
      BY <1>12 DEF StartClear, StartSet
    <2>4. PlatformInv'
      BY <2>1, <2>2, <2>3 DEF StoreInv, PlatformInv, StoreAt
    <2>5. SettledInv'
      BY <2>2 DEF SettledInv
    <2>6. NoResurrection'
      BY <2>2, <2>3 DEF StoreInv, NoResurrection, Current
    <2>7. Writers = {} => \A v \in Users : ~Writing(v)
      BY DEF Writers, Writing
    <2>8. WriterInv(u)'
      BY <2>1, <2>2, <2>3, <2>7 DEF StoreInv, WriterInv, Writing, StoreAt, PlatformInv
    <2>9. FreshInv(u)'
      BY <2>1, <2>2, <2>3 DEF FreshInv, FreshTokens, StoreAt
    <2>10. ReaderInv(u)'
      BY <2>1, <2>2 DEF ReaderInv, StoreAt, Reading
    <2>11. ASSUME NEW v \in Users \ {u}
           PROVE  WriterInv(v)' /\ FreshInv(v)' /\ ReaderInv(v)'
      <3>1. WriterInv(v)'
        BY <2>2, <2>7 DEF WriterInv, Writing
      <3>2. FreshInv(v)'
        BY <2>2, <2>3 DEF StoreInv, FreshInv, StoreAt
      <3>3. ReaderInv(v)'
        BY <2>2 DEF ReaderInv, StoreAt
      <3> QED  BY <3>1, <3>2, <3>3
    <2>12. QuietLookupExact'
      BY <2>1, <2>2 DEF QuietLookupExact, StoreAt
    <2> QED  BY <2>4, <2>5, <2>6, <2>8, <2>9, <2>10, <2>11, <2>12 DEF StoreInv
  <1>13. CASE ToggleLock \/ UNCHANGED storeVars
    <2>1. UNCHANGED <<hasKeychain, keychain, file, tmp, store, settled, retired, disturbed>>
      BY <1>13 DEF ToggleLock, storeVars
    <2> QED  BY <2>1 DEF StoreInv, PlatformInv, SettledInv, WriterInv, FreshInv, ReaderInv,
                         QuietLookupExact, NoResurrection, Writing, StoreAt, Current
  <1> QED
    BY <1>1, <1>2, <1>3, <1>4, <1>5, <1>6, <1>7, <1>8, <1>9, <1>10, <1>11, <1>12, <1>13
    DEF StoreNext, StoreStep

\* The initial states satisfy the invariant.
LEMMA StoreInitInv ==
    ASSUME StoreInit
    PROVE  StoreInv
  <1> USE TokensAssumption, FaultsAssumption DEF StoreInit
  <1>1. StoreTypeOK
    <2>1. store \in [Users -> StoreState]
      BY UnusedTyped
    <2>2. settled \in Tokens \cup {NoToken, Unknown}
      OBVIOUS
    <2>3. faults \in 0 .. MaxFaults /\ retired \subseteq Tokens /\ tmp \in Tokens \cup {NoToken}
      OBVIOUS
    <2>4. keychain \in Tokens \cup {NoToken, Blank} /\ file \in Tokens \cup {NoToken}
      OBVIOUS
    <2>5. hasKeychain \in BOOLEAN /\ locked \in BOOLEAN /\ disturbed \in BOOLEAN
      OBVIOUS
    <2> QED  BY <2>1, <2>2, <2>3, <2>4, <2>5 DEF StoreTypeOK
  <1>2. \A u \in Users : store[u].pc = "idle"
    BY DEF Unused
  <1>3. SettledInv /\ PlatformInv
    BY <1>2 DEF SettledInv, PlatformInv, Current, Writing, Setting, Clearing, StoreAt
  <1>4. \A u \in Users : WriterInv(u) /\ FreshInv(u) /\ ReaderInv(u)
    BY <1>2 DEF WriterInv, FreshInv, ReaderInv, Writing, Setting, Clearing, Reading, StoreAt
  <1>5. QuietLookupExact /\ NoResurrection
    BY <1>2 DEF QuietLookupExact, NoResurrection, StoreAt
  <1> QED  BY <1>1, <1>3, <1>4, <1>5 DEF StoreInv

LEMMA StoreInvariant == StoreSpec => []StoreInv
  BY StoreInitInv, StoreStepInv, PTL DEF StoreSpec

\* The store is well typed, whichever processes run whichever operations.
THEOREM StoreTyped == StoreSpec => []StoreTypeOK
  BY StoreInvariant, PTL DEF StoreInv

\* However the operations of any number of processes interleave, fail and die, with a
\* keychain that is locked and unlocked at will, a lookup beside no write finds what
\* the last completed write left or says that a store did not answer (readToken); one
\* that cannot launch `security' misses at most a token that is in the keychain.
THEOREM LookupExact == StoreSpec => []QuietLookupExact
  BY StoreInvariant, PTL DEF StoreInv

\* And a token that was replaced or removed is never found again, as long as writers
\* do not overlap and no delete in the keychain fails (setToken, clearToken).
THEOREM RemovedStaysRemoved == StoreSpec => []NoResurrection
  BY StoreInvariant, PTL DEF StoreInv
=============================================================================
