----------------------------- MODULE TokenStore -----------------------------
(***************************************************************************)
(* Where the machine token lives (token-store.ts): the OS keychain where   *)
(* there is one, and a file that is written when the keychain refuses.     *)
(* setToken, readToken and clearToken each touch the two stores one after  *)
(* the other, in processes of their own, while the keychain may be locked  *)
(* and unlocked at any moment.  One action is one keychain command or one  *)
(* file-system call.                                                       *)
(***************************************************************************)
EXTENDS Naturals, FiniteSets

CONSTANTS
    Users,      \* processes that use the store
    Tokens,     \* machine tokens
    NoToken,    \* no item, no file
    Blank,      \* an item with an empty secret (`security' stored nothing)
    Unknown,    \* ghost: no single answer is the right one
    MaxFaults   \* bound: failures of the file system and of `security'

ASSUME TokensAssumption ==
    /\ {NoToken, Blank, Unknown} \cap Tokens = {}
    /\ NoToken # Blank /\ NoToken # Unknown
ASSUME FaultsAssumption == MaxFaults \in Nat

VARIABLES
    hasKeychain,  \* backend.available: the platform has a keychain
    locked,       \* the keychain answers every command with a refusal
    keychain,     \* the item in the keychain
    file,         \* the token file
    tmp,          \* its .tmp
    store,        \* store[u]: the operation u runs on the store, see StoreState
    settled,      \* ghost: what a lookup in quiet must find
    retired,      \* ghost: tokens that were current and were replaced or removed
    disturbed,    \* ghost: a delete failed, or two writers overlapped
    faults        \* failures so far

storeVars == <<hasKeychain, locked, keychain, file, tmp, store, settled, retired,
               disturbed, faults>>

Labels == {"idle", "add", "verify", "unfile", "tmp", "rename",
           "readFile", "readKey", "delKey", "delFile",
           "stored", "present", "absent", "unavailable", "cleared", "threw"}

Setting  == {"add", "verify", "unfile", "tmp", "rename"}
Clearing == {"delKey", "delFile"}
Reading  == {"readFile", "readKey"}
Answers  == {"stored", "present", "absent", "unavailable", "cleared", "threw"}

\* refused: the file did not answer; ghosts: what a lookup must find (expect), it
\* could not launch `security' (unlaunched), no other writer was at work and no
\* delete failed (clean).
StoreState == [pc: Labels, tok: Tokens \cup {NoToken}, refused: BOOLEAN,
               expect: Tokens \cup {NoToken, Unknown}, unlaunched: BOOLEAN, clean: BOOLEAN]

Unused == [pc |-> "idle", tok |-> NoToken, refused |-> FALSE, expect |-> Unknown,
           unlaunched |-> FALSE, clean |-> FALSE]

StoreAt(u, label) == store[u].pc = label
Busy(u) == store[u].pc \in Setting \cup Clearing \cup Reading

StoreInit ==
    /\ hasKeychain \in BOOLEAN
    /\ locked = FALSE
    /\ \/ keychain = NoToken /\ file \in Tokens \cup {NoToken}
       \/ hasKeychain /\ keychain \in Tokens /\ file = NoToken
    /\ tmp = NoToken
    /\ store = [u \in Users |-> Unused]
    /\ settled = IF file # NoToken THEN file ELSE keychain
    /\ retired = {}
    /\ disturbed = FALSE
    /\ faults = 0

\* The token a lookup finds when the keychain answers: the file outranks it.
Current(f, k) == IF f # NoToken THEN f ELSE IF k \in Tokens THEN k ELSE NoToken

-----------------------------------------------------------------------------
(* Ghosts.  A writer is a process in setToken or clearToken.               *)

Writers == {u \in Users : store[u].pc \in Setting \cup Clearing}

\* u changes the two stores (a step of a writer): what was current and is no more
\* is retired.
Put(k, f) ==
    /\ keychain' = k
    /\ file' = f
    /\ retired' = retired \cup ({Current(file, keychain)} \ {Current(f, k), NoToken})

Keep == UNCHANGED <<keychain, file, retired>>

\* u becomes r; a writer that begins makes every lookup under way unpredictable.
BeginWrite(u, r) ==
    /\ settled' = Unknown
    /\ disturbed' = (disturbed \/ Writers # {})
    /\ store' = [v \in Users |-> IF v = u THEN [r EXCEPT !.clean = Writers = {}]
                                 ELSE [store[v] EXCEPT !.expect = Unknown, !.clean = FALSE]]

\* u has ended its write: undisturbed, the store holds t from now on.
EndWrite(u, label, t) ==
    /\ settled' = IF store[u].clean THEN t ELSE Unknown
    /\ store' = [store EXCEPT ![u].pc = label]

Go(u, label) ==
    /\ store' = [store EXCEPT ![u].pc = label]
    /\ UNCHANGED settled

Fault == faults < MaxFaults /\ faults' = faults + 1
NoFault == UNCHANGED faults

-----------------------------------------------------------------------------
(* setToken: the keychain first, the file when the keychain does not take  *)
(* the token; a keychain write then removes an older file.                 *)

StartSet(u, t) ==
    /\ ~Busy(u)
    /\ BeginWrite(u, [Unused EXCEPT !.tok = t,
                                    !.pc = IF hasKeychain THEN "add" ELSE "tmp"])
    /\ Keep /\ NoFault
    /\ UNCHANGED <<hasKeychain, locked, tmp>>

\* `security add-generic-password -U', which may be refused, fail or not start.  It
\* can also store an empty secret and still exit 0.
KeychainAdd(u) ==
    /\ StoreAt(u, "add")
    /\ \/ ~locked /\ Put(store[u].tok, file) /\ Go(u, "verify") /\ NoFault
       \/ ~locked /\ Put(Blank, file) /\ Go(u, "verify") /\ Fault
       \/ locked /\ Keep /\ Go(u, "tmp") /\ NoFault
       \/ ~locked /\ Keep /\ Go(u, "tmp") /\ Fault
    /\ UNCHANGED <<hasKeychain, locked, tmp, disturbed>>

\* The read-back: any other value, or no answer, sends the token to the file.
KeychainVerify(u) ==
    /\ StoreAt(u, "verify")
    /\ \/ Go(u, IF ~locked /\ keychain = store[u].tok THEN "unfile" ELSE "tmp") /\ NoFault
       \/ Go(u, "tmp") /\ Fault
    /\ Keep
    /\ UNCHANGED <<hasKeychain, locked, tmp, disturbed>>

\* Mutated form: the older file is left where it is.
FileKept(u) ==
    /\ StoreAt(u, "unfile")
    /\ Keep /\ EndWrite(u, "stored", store[u].tok) /\ NoFault
    /\ UNCHANGED <<hasKeychain, locked, tmp, disturbed>>

\* file.clear; a failure aligns the file with the keychain instead.
FileUnset(u) ==
    /\ StoreAt(u, "unfile")
    /\ \/ Put(keychain, NoToken) /\ EndWrite(u, "stored", store[u].tok) /\ NoFault
       \/ file # NoToken /\ Keep /\ Go(u, "tmp") /\ Fault
    /\ UNCHANGED <<hasKeychain, locked, tmp, disturbed>>

FileWrite(u) ==
    /\ StoreAt(u, "tmp")
    /\ \/ tmp' = store[u].tok /\ Go(u, "rename") /\ NoFault
       \/ tmp' = tmp /\ EndWrite(u, "threw", Unknown) /\ Fault
    /\ Keep
    /\ UNCHANGED <<hasKeychain, locked, disturbed>>

\* The .tmp has one name: another writer may have renamed it already.
FileRename(u) ==
    /\ StoreAt(u, "rename")
    /\ \/ /\ tmp # NoToken
          /\ Put(keychain, tmp) /\ tmp' = NoToken
          /\ EndWrite(u, "stored", store[u].tok) /\ NoFault
       \/ /\ tmp = NoToken
          /\ Keep /\ tmp' = tmp /\ EndWrite(u, "threw", Unknown) /\ NoFault
       \/ Keep /\ tmp' = tmp /\ EndWrite(u, "threw", Unknown) /\ Fault
    /\ UNCHANGED <<hasKeychain, locked, disturbed>>

-----------------------------------------------------------------------------
(* readToken: the file, then the keychain.  A store that failed outranks   *)
(* one that was merely empty.                                              *)

StartRead(u) ==
    /\ ~Busy(u)
    /\ store' = [store EXCEPT ![u] = [Unused EXCEPT !.pc = "readFile", !.expect = settled]]
    /\ Keep /\ NoFault
    /\ UNCHANGED <<hasKeychain, locked, tmp, settled, disturbed>>

Empty(u, refused) == IF refused THEN "unavailable" ELSE "absent"

FileRead(u) ==
    /\ StoreAt(u, "readFile")
    /\ \/ /\ file # NoToken
          /\ store' = [store EXCEPT ![u].pc = "present", ![u].tok = file] /\ NoFault
       \/ /\ file = NoToken
          /\ store' = [store EXCEPT ![u].pc = IF hasKeychain THEN "readKey" ELSE "absent"]
          /\ NoFault
       \/ /\ store' = [store EXCEPT ![u].pc = IF hasKeychain THEN "readKey" ELSE "unavailable",
                                    ![u].refused = TRUE]
          /\ Fault
    /\ Keep
    /\ UNCHANGED <<hasKeychain, locked, tmp, settled, disturbed>>

\* Mutated form: an empty secret is taken for a token.
BlankIsToken(u) ==
    /\ StoreAt(u, "readKey") /\ ~locked /\ keychain # NoToken
    /\ store' = [store EXCEPT ![u].pc = "present", ![u].tok = keychain]
    /\ Keep /\ NoFault
    /\ UNCHANGED <<hasKeychain, locked, tmp, settled, disturbed>>

\* A `security' that cannot be launched at all (SPAWN_FAILURE_CODES) is taken for
\* a machine without a keychain, locked or not.
KeychainRead(u) ==
    /\ StoreAt(u, "readKey")
    /\ \/ /\ locked /\ NoFault
          /\ store' = [store EXCEPT ![u].pc = "unavailable"]
       \/ /\ ~locked /\ keychain \in Tokens /\ NoFault
          /\ store' = [store EXCEPT ![u].pc = "present", ![u].tok = keychain]
       \/ /\ ~locked /\ keychain \notin Tokens /\ NoFault
          /\ store' = [store EXCEPT ![u].pc = Empty(u, store[u].refused)]
       \/ /\ Fault
          /\ store' = [store EXCEPT ![u].pc = Empty(u, store[u].refused), ![u].unlaunched = TRUE]
    /\ Keep
    /\ UNCHANGED <<hasKeychain, locked, tmp, settled, disturbed>>

-----------------------------------------------------------------------------
(* clearToken: both stores, whatever the keychain says.                    *)

StartClear(u) ==
    /\ ~Busy(u)
    /\ BeginWrite(u, [Unused EXCEPT !.pc = IF hasKeychain THEN "delKey" ELSE "delFile"])
    /\ Keep /\ NoFault
    /\ UNCHANGED <<hasKeychain, locked, tmp>>

\* Mutated form: the keychain is left alone when there is a file to delete.
KeychainKept(u) ==
    /\ StoreAt(u, "delKey") /\ file # NoToken
    /\ Go(u, "delFile") /\ Keep /\ NoFault
    /\ UNCHANGED <<hasKeychain, locked, tmp, disturbed>>

\* Every failure of delete-generic-password is taken for "already absent".
KeychainDelete(u) ==
    /\ StoreAt(u, "delKey")
    /\ \/ ~locked /\ Put(NoToken, file) /\ NoFault
       \/ locked /\ Keep /\ NoFault
       \/ Keep /\ Fault
    /\ LET left == keychain' \in Tokens IN
        /\ disturbed' = (disturbed \/ left)
        /\ store' = [store EXCEPT ![u].pc = "delFile", ![u].clean = @ /\ ~left]
    /\ UNCHANGED <<hasKeychain, locked, tmp, settled>>

FileDelete(u) ==
    /\ StoreAt(u, "delFile")
    /\ \/ Put(keychain, NoToken) /\ EndWrite(u, "cleared", NoToken) /\ NoFault
       \/ file # NoToken /\ Keep /\ EndWrite(u, "threw", Unknown) /\ Fault
    /\ UNCHANGED <<hasKeychain, locked, tmp, disturbed>>

-----------------------------------------------------------------------------
(* The environment.                                                        *)

\* The login keychain is locked (screen lock) or unlocked.
ToggleLock ==
    /\ hasKeychain
    /\ locked' = ~locked
    /\ Keep /\ NoFault
    /\ UNCHANGED <<hasKeychain, tmp, store, settled, disturbed>>

\* The process dies inside its operation.  A writer leaves the stores as they are.
Die(u) ==
    /\ Busy(u)
    /\ store' = [store EXCEPT ![u] = Unused]
    /\ Keep /\ NoFault
    /\ UNCHANGED <<hasKeychain, locked, tmp, settled, disturbed>>

\* The answer of the store has been read.
Consume(u) ==
    /\ store[u].pc \in Answers
    /\ store' = [store EXCEPT ![u] = Unused]
    /\ Keep /\ NoFault
    /\ UNCHANGED <<hasKeychain, locked, tmp, settled, disturbed>>

StoreStep(u) ==
    \/ KeychainAdd(u) \/ KeychainVerify(u) \/ FileUnset(u) \/ FileWrite(u) \/ FileRename(u)
    \/ FileRead(u) \/ KeychainRead(u)
    \/ KeychainDelete(u) \/ FileDelete(u)

\* Every pairing mints a token of its own.
FreshTokens ==
    Tokens \ (retired \cup {keychain, file, tmp} \cup {store[u].tok : u \in Users})

StoreNext ==
    \/ \E u \in Users :
        \/ StoreStep(u) \/ StartRead(u) \/ StartClear(u) \/ Die(u) \/ Consume(u)
        \/ \E t \in FreshTokens : StartSet(u, t)
    \/ ToggleLock

\* The store on its own: any process starts any operation, in any order.
StoreSpec == StoreInit /\ [][StoreNext]_storeVars

-----------------------------------------------------------------------------
(* Properties.                                                             *)

\* Type invariant of the store.
StoreTypeOK ==
    /\ hasKeychain \in BOOLEAN /\ locked \in BOOLEAN /\ disturbed \in BOOLEAN
    /\ keychain \in Tokens \cup {NoToken, Blank}
    /\ file \in Tokens \cup {NoToken}
    /\ tmp \in Tokens \cup {NoToken}
    /\ store \in [Users -> StoreState]
    /\ settled \in Tokens \cup {NoToken, Unknown}
    /\ retired \subseteq Tokens
    /\ faults \in 0 .. MaxFaults

\* A lookup that no write overlaps finds exactly the token the last completed
\* write left, or says that a store did not answer: never an older token, and
\* "absent" only after a removal ("an ERROR is not an ABSENCE").  Two cases are
\* excepted.  A file that cannot be read lets an older keychain item through.  And
\* a process that cannot launch `security' takes the machine for one without a
\* keychain, and misses a token there; one in the file it finds all the same.
QuietLookupExact ==
    \A u \in Users :
        /\ StoreAt(u, "present") =>
                store[u].expect \in {Unknown, store[u].tok} \/ store[u].refused
        /\ StoreAt(u, "absent") =>
                \/ store[u].expect \in {Unknown, NoToken}
                \/ store[u].unlaunched /\ file = NoToken

\* A token that was replaced or removed never becomes current again, unless a
\* delete in the keychain failed or two writers overlapped.
NoResurrection == ~disturbed => Current(file, keychain) \notin retired

=============================================================================
