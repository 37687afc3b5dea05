------------------------------ MODULE Pairing ------------------------------
(***************************************************************************)
(* Pairing a machine and unpairing it: `pair' and `setup' (cli pair.ts)    *)
(* from the start of the session over the poll loop and the confirmation   *)
(* gate to the stored token and the discarded backlog; `unpair' and        *)
(* `logout' (logout.ts); and the hooks that fire meanwhile.  All of them   *)
(* work on the token store (TokenStore) and on the queue, which is taken   *)
(* as EventSpool promises it.                                              *)
(*                                                                         *)
(* Each pairing process is named like the token the backend mints for it,  *)
(* each hook like the event it carries.                                    *)
(***************************************************************************)
EXTENDS TokenStore

CONSTANTS
    Pairs,       \* processes of `pair' and `setup'
    Outs,        \* processes of `unpair' and `logout'
    Hooks,       \* hook fires, each with its event
    Backlog,     \* events queued before anything else happens
    Accounts,    \* addresses of accounts
    Lookalikes,  \* addresses that Unicode normalization maps onto each other
    NoAccount,   \* no address: not pinned, not reported
    NoEvent,     \* placeholder: a hook holds no event
    Window,      \* lifetime of a pairing session
    MaxSkew      \* bound: how far the two clocks can be apart

ASSUME PartiesAssumption ==
    /\ Users = Pairs \cup Outs \cup Hooks
    /\ Pairs \subseteq Tokens
    /\ \A P, Q \in {Pairs, Outs, Hooks} : P # Q => P \cap Q = {}
    /\ Hooks \cap Backlog = {} /\ NoEvent \notin Hooks \cup Backlog
ASSUME AccountsAssumption == Lookalikes \subseteq Accounts /\ NoAccount \notin Accounts
ASSUME WindowAssumption == Window \in Nat \ {0} /\ MaxSkew \in Nat

Events == Hooks \cup Backlog

VARIABLES
    pair,     \* pair[p]: the state of a pairing process, see PairState
    out,      \* out[u]: where an unpair or logout stands
    hook,     \* hook[h]: the state of a hook, see HookState
    stage,    \* the queue: see EventSpool
    holds,    \* the queue: see EventSpool
    prior,    \* ghost: prior[p]: events queued when p's token was stored
    shifted   \* ghost: events that changed their name under a sweep

vars == <<storeVars, pair, out, hook, stage, holds, prior, shifted>>

queueVars == <<stage, holds>>
otherVars == <<out, hook, queueVars, prior, shifted>>

Queue == INSTANCE EventSpool WITH Procs <- Hooks

PairLabels == {"rest", "skip", "start", "check", "await", "gate", "persist",
               "config", "sweep", "done"}
Outcomes == {"none", "already", "timeout", "refused", "rejected", "error", "died", "paired"}

\* A name in the queue directory: the entry itself, or a claim on it.
Names == [ev: Events, kind: {"parked", "taken"}]

\* left and srv: time to the deadline by the local and by the server's clock;
\* session: what became of it; by: the approving account; trusted: ghost, the
\* operator accepts that account; todo: names the sweep still removes.
PairState == [pc: PairLabels, left: 0 .. (Window + MaxSkew), srv: 0 .. Window,
              session: {"none", "open", "approved", "redeemed"},
              by: Accounts \cup {NoAccount}, trusted: BOOLEAN,
              todo: SUBSET Names, outcome: Outcomes]

Resting == [pc |-> "rest", left |-> 0, srv |-> 0, session |-> "none", by |-> NoAccount,
            trusted |-> FALSE, todo |-> {}, outcome |-> "none"]

HookState == [pc: {"rest", "lookup", "post", "drain", "done"}, todo: SUBSET Events]

Init ==
    /\ StoreInit
    /\ pair = [p \in Pairs |-> Resting]
    /\ out = [u \in Outs |-> "rest"]
    /\ hook = [h \in Hooks |-> [pc |-> "rest", todo |-> {}]]
    /\ stage = [e \in Events |-> IF e \in Backlog THEN "parked" ELSE "new"]
    /\ holds = [h \in Hooks |-> NoEvent]
    /\ prior = [p \in Pairs |-> {}]
    /\ shifted = {}
    \* nothing holds a token of a pairing that has not happened
    /\ {keychain, file} \cap Pairs = {}

At(p, label) == pair[p].pc = label

\* The process has ended; only what the properties look at is kept.
End(r, outcome) == [Resting EXCEPT !.pc = "done", !.outcome = outcome, !.trusted = r.trusted]

\* A failure outside the store.
Failure ==
    /\ Fault
    /\ UNCHANGED <<hasKeychain, locked, keychain, file, tmp, store, settled, retired, disturbed>>

-----------------------------------------------------------------------------
(* `pair' always pairs; `setup' first looks for a token.                   *)

StartPair(p) ==
    /\ At(p, "rest")
    /\ pair' = [pair EXCEPT ![p].pc = "start"]
    /\ UNCHANGED <<storeVars, otherVars>>

StartSetup(p) ==
    /\ At(p, "rest")
    /\ StartRead(p)
    /\ pair' = [pair EXCEPT ![p].pc = "skip"]
    /\ UNCHANGED otherVars

\* getToken: a store that failed reads as no token, so setup pairs once more.
SkipWhenPaired(p) ==
    /\ At(p, "skip") /\ Consume(p)
    /\ pair' = [pair EXCEPT ![p] = IF StoreAt(p, "present") THEN End(@, "already")
                                   ELSE [@ EXCEPT !.pc = "start"]]
    /\ UNCHANGED otherVars

\* pairStart.  The deadline is the server's, read on the local clock.
OpenSession(p) ==
    /\ At(p, "start")
    /\ \/ /\ \E left \in 0 .. (Window + MaxSkew) :
                /\ left + MaxSkew >= Window
                /\ pair' = [pair EXCEPT ![p].pc = "check", ![p].session = "open",
                                        ![p].left = left, ![p].srv = Window]
          /\ UNCHANGED storeVars
       \/ Failure /\ pair' = [pair EXCEPT ![p] = End(@, "error")]
    /\ UNCHANGED otherVars

-----------------------------------------------------------------------------
(* The poll loop.                                                          *)

\* Mutated form: the loop waits for an answer, however long it takes.
CheckForever(p) ==
    /\ At(p, "check")
    /\ pair' = [pair EXCEPT ![p].pc = "await"]
    /\ UNCHANGED <<storeVars, otherVars>>

CheckDeadline(p) ==
    /\ At(p, "check")
    /\ pair' = [pair EXCEPT ![p] = IF @.left = 0 THEN End(@, "timeout")
                                   ELSE [@ EXCEPT !.pc = "await"]]
    /\ UNCHANGED <<storeVars, otherVars>>

\* The session's secret has reached a phone and somebody approved.
Approve(p) ==
    /\ pair[p].session = "open" /\ pair[p].srv > 0
    /\ \E by \in Accounts \cup {NoAccount} :
        pair' = [pair EXCEPT ![p].session = "approved", ![p].by = by]
    /\ UNCHANGED <<storeVars, otherVars>>

Redeemable(p) == pair[p].session = "approved" /\ pair[p].srv > 0

\* pairTokenPoll after a sleep: paired, or not approved yet.
PollAnswered(p) ==
    /\ At(p, "await")
    /\ pair' = [pair EXCEPT ![p] = IF Redeemable(p)
                                   THEN [Resting EXCEPT !.pc = "gate", !.by = pair[p].by]
                                   ELSE [@ EXCEPT !.pc = "check"]]
    /\ UNCHANGED <<storeVars, otherVars>>

\* A transient server error or a body of another shape goes on polling, a terminal
\* error code ends the pairing, and a network error is thrown out of the loop.
\* The token may have been minted and lost with the answer.
PollFailed(p) ==
    /\ At(p, "await") /\ Failure
    /\ \E lost \in BOOLEAN :
        LET r == [pair[p] EXCEPT !.session = IF lost THEN "redeemed" ELSE @] IN
        /\ lost => Redeemable(p)
        /\ pair' \in {[pair EXCEPT ![p] = [r EXCEPT !.pc = "check"]],
                      [pair EXCEPT ![p] = End(r, "rejected")],
                      [pair EXCEPT ![p] = End(r, "error")]}
    /\ UNCHANGED otherVars

-----------------------------------------------------------------------------
(* The confirmation gate.                                                  *)

Nfkc(a) == IF a \in Lookalikes THEN "lookalike" ELSE a

\* Mutated form: addresses are compared after normalization only.
SameNormalized(a, b) == Nfkc(a) = Nfkc(b)

sameEmail(a, b) == a = b /\ Nfkc(a) = Nfkc(b)

decidePairConfirmation(by, pin, yes, silent, terminal) ==
    IF pin # NoAccount THEN IF by # NoAccount /\ sameEmail(by, pin) THEN "approve" ELSE "reject"
    ELSE IF yes THEN "approve"
    ELSE IF ~silent /\ terminal \in {"stdin", "controlling-terminal"} THEN "prompt"
    ELSE "reject"

\* Whom the operator means to trust: the pinned account, the flag's pin before the
\* configured one; everybody with --yes; else the account the human was shown and
\* said yes to.
Trusted(by, flagPin, configPin, yes, asked, answer) ==
    IF flagPin # NoAccount THEN {flagPin}
    ELSE IF configPin # NoAccount THEN {configPin}
    ELSE IF yes THEN Accounts \cup {NoAccount}
    ELSE IF asked /\ answer THEN {by}
    ELSE {}

Gate(p) ==
    /\ At(p, "gate")
    /\ \E flagPin, configPin \in Accounts \cup {NoAccount}, yes, silent, answer \in BOOLEAN,
          terminal \in {"stdin", "controlling-terminal", "none"} :
        LET by       == pair[p].by
            pin      == IF flagPin # NoAccount THEN flagPin ELSE configPin
            decision == decidePairConfirmation(by, pin, yes, silent, terminal)
            go       == decision = "approve" \/ (decision = "prompt" /\ answer)
            asked    == ~silent /\ terminal # "none"
        IN  IF go
            THEN /\ pair' = [pair EXCEPT
                        ![p] = [Resting EXCEPT !.pc = "persist", !.trusted =
                            by \in Trusted(by, flagPin, configPin, yes, asked, answer)]]
                 /\ StartSet(p, p)
            ELSE /\ pair' = [pair EXCEPT ![p] = End(@, "refused")]
                 /\ UNCHANGED storeVars
    /\ UNCHANGED otherVars

-----------------------------------------------------------------------------
(* Confirmed: the token is stored, then the config, then the backlog goes. *)

Queued == {e \in Events : stage[e] \in {"parked", "taken"}}

NameOf(e) == [ev |-> e, kind |-> stage[e]]

Persisted(p) ==
    /\ At(p, "persist") /\ Consume(p)
    /\ IF StoreAt(p, "stored")
       THEN /\ pair' = [pair EXCEPT ![p].pc = "config"]
            /\ prior' = [prior EXCEPT ![p] = Queued]
       ELSE /\ pair' = [pair EXCEPT ![p] = End(@, "error")]
            /\ UNCHANGED prior
    /\ UNCHANGED <<out, hook, queueVars, shifted>>

\* Mutated form: only the entries are discarded, not the claims.
EntriesOnly(p) ==
    /\ At(p, "config")
    /\ pair' = [pair EXCEPT ![p].pc = "sweep",
                            ![p].todo = {NameOf(e) : e \in {d \in Queued : stage[d] = "parked"}}]
    /\ UNCHANGED <<storeVars, otherVars>>

\* writeCliConfig, and the listing of discardBefore(now).
ListBacklog(p) ==
    /\ At(p, "config")
    /\ pair' = [pair EXCEPT ![p].pc = "sweep", ![p].todo = {NameOf(e) : e \in Queued}]
    /\ UNCHANGED <<storeVars, otherVars>>

\* The config directory cannot be written: the command ends with the token stored.
ConfigFailed(p) ==
    /\ At(p, "config") /\ Failure
    /\ pair' = [pair EXCEPT ![p] = End(@, "error")]
    /\ UNCHANGED otherVars

\* rm of a name that is gone does nothing.
SweepName(p) ==
    /\ At(p, "sweep")
    /\ \E n \in pair[p].todo :
        /\ pair' = [pair EXCEPT ![p].todo = @ \ {n}]
        /\ IF stage[n.ev] = n.kind THEN Queue!Finish(n.ev) ELSE UNCHANGED queueVars
    /\ UNCHANGED <<storeVars, out, hook, prior, shifted>>

Paired(p) ==
    /\ At(p, "sweep") /\ pair[p].todo = {}
    /\ pair' = [pair EXCEPT ![p] = End(@, "paired")]
    /\ UNCHANGED <<storeVars, otherVars>>

\* Ctrl-C, a closed terminal, a crash.
KillPair(p) ==
    /\ pair[p].pc \notin {"rest", "done"}
    /\ pair' = [pair EXCEPT ![p] = End(@, "died")]
    /\ IF Busy(p) THEN Die(p) ELSE UNCHANGED storeVars
    /\ UNCHANGED otherVars

-----------------------------------------------------------------------------
(* logout clears the store; unpair revokes the token it finds first.  The  *)
(* revocation is best effort and changes nothing on this machine.          *)

Logout(u) ==
    /\ out[u] = "rest"
    /\ StartClear(u)
    /\ out' = [out EXCEPT ![u] = "clear"]
    /\ UNCHANGED <<pair, hook, queueVars, prior, shifted>>

Unpair(u) ==
    /\ out[u] = "rest"
    /\ StartRead(u)
    /\ out' = [out EXCEPT ![u] = "revoke"]
    /\ UNCHANGED <<pair, hook, queueVars, prior, shifted>>

RevokeSelf(u) ==
    /\ out[u] = "revoke" /\ store[u].pc \in Answers
    /\ StartClear(u)
    /\ out' = [out EXCEPT ![u] = "clear"]
    /\ UNCHANGED <<pair, hook, queueVars, prior, shifted>>

Unpaired(u) ==
    /\ out[u] = "clear" /\ Consume(u)
    /\ out' = [out EXCEPT ![u] = "done"]
    /\ UNCHANGED <<pair, hook, queueVars, prior, shifted>>

-----------------------------------------------------------------------------
(* A hook, as Sender shows it: the lookup decides what becomes of its own  *)
(* event, and a token lets it drain what is queued.                        *)

\* The hook is over.
HookEnds(h) == hook' = [hook EXCEPT ![h].pc = "done", ![h].todo = {}]

StartHook(h) ==
    /\ hook[h].pc = "rest"
    /\ StartRead(h)
    /\ hook' = [hook EXCEPT ![h].pc = "lookup"]
    /\ UNCHANGED <<pair, out, queueVars, prior, shifted>>

LookedUp(h) ==
    /\ hook[h].pc = "lookup" /\ Consume(h)
    /\ \/ /\ StoreAt(h, "absent")
          /\ HookEnds(h) /\ UNCHANGED queueVars
       \/ /\ StoreAt(h, "unavailable")
          /\ Queue!Park(h) /\ HookEnds(h)
       \/ /\ StoreAt(h, "present")
          /\ hook' = [hook EXCEPT ![h].pc = "post"] /\ UNCHANGED queueVars
    /\ UNCHANGED <<pair, out, prior, shifted>>

Post(h) ==
    /\ hook[h].pc = "post"
    /\ \/ Queue!Park(h)
       \/ UNCHANGED queueVars
    /\ hook' = [hook EXCEPT ![h].pc = "drain",
                            ![h].todo = {e \in Events : stage'[e] = "parked"}]
    /\ UNCHANGED <<storeVars, pair, out, prior, shifted>>

\* The names of e that some sweep has still to remove: e is about to change its name.
Dodges(e) == IF \E p \in Pairs : NameOf(e) \in pair[p].todo THEN shifted \cup {e} ELSE shifted

TakeEvent(h) ==
    /\ hook[h].pc = "drain" /\ holds[h] = NoEvent
    /\ \E e \in hook[h].todo :
        /\ hook' = [hook EXCEPT ![h].todo = @ \ {e}]
        /\ IF stage[e] = "parked"
           THEN Queue!Take(h, e) /\ shifted' = Dodges(e)
           ELSE UNCHANGED <<queueVars, shifted>>
    /\ UNCHANGED <<storeVars, pair, out, prior>>

\* The answer settles the event or gives it back; a swept event is neither.
DrainAnswer(h) ==
    /\ hook[h].pc = "drain" /\ holds[h] # NoEvent
    /\ \/ Queue!Finish(holds[h]) /\ UNCHANGED shifted
       \/ Queue!GiveBack(h, holds[h]) /\ shifted' = Dodges(holds[h])
    /\ UNCHANGED <<storeVars, pair, out, hook, prior>>

EndDrain(h) ==
    /\ hook[h].pc = "drain" /\ holds[h] = NoEvent
    /\ HookEnds(h)
    /\ UNCHANGED <<storeVars, pair, out, queueVars, prior, shifted>>

-----------------------------------------------------------------------------

\* Steps inside the token store.
UseStore(u) == StoreStep(u) /\ UNCHANGED <<pair, otherVars>>

Lock == ToggleLock /\ UNCHANGED <<pair, otherVars>>

\* Both clocks run while a session is open.
Tick ==
    /\ \E p \in Pairs : pair[p].left + pair[p].srv > 0
    /\ pair' = [p \in Pairs |->
                  [pair[p] EXCEPT !.left = IF @ > 0 THEN @ - 1 ELSE 0,
                                  !.srv = IF @ > 0 THEN @ - 1 ELSE 0]]
    /\ UNCHANGED <<storeVars, otherVars>>

PairStep(p) ==
    \/ SkipWhenPaired(p) \/ OpenSession(p) \/ CheckDeadline(p)
    \/ PollAnswered(p) \/ PollFailed(p)
    \/ Persisted(p) \/ ListBacklog(p) \/ ConfigFailed(p) \/ SweepName(p) \/ Paired(p)

HookStep(h) ==
    LookedUp(h) \/ Post(h) \/ TakeEvent(h) \/ DrainAnswer(h) \/ EndDrain(h)

Next ==
    \/ \E p \in Pairs :
        StartPair(p) \/ StartSetup(p) \/ PairStep(p) \/ Approve(p) \/ Gate(p) \/ KillPair(p)
    \/ \E u \in Outs : Logout(u) \/ Unpair(u) \/ RevokeSelf(u) \/ Unpaired(u)
    \/ \E h \in Hooks : StartHook(h) \/ HookStep(h)
    \/ \E u \in Users : UseStore(u)
    \/ Lock \/ Tick

Spec == Init /\ [][Next]_vars

\* The pairing process runs on, requests are answered or fail, and time passes;
\* nothing is assumed of the human at the prompt.
FairSpec ==
    /\ Spec
    /\ \A p \in Pairs : WF_vars(PairStep(p))
    /\ WF_vars(Tick)

-----------------------------------------------------------------------------
(* Properties.                                                             *)

\* Type invariant of pairing.
TypeOK ==
    /\ StoreTypeOK
    /\ pair \in [Pairs -> PairState]
    /\ out \in [Outs -> {"rest", "revoke", "clear", "done"}]
    /\ hook \in [Hooks -> HookState]
    /\ stage \in [Events -> Queue!Stages]
    /\ holds \in [Hooks -> Events \cup {NoEvent}]
    /\ prior \in [Pairs -> SUBSET Events]
    /\ shifted \subseteq Events

\* "The token is minted but NOT yet trusted": it is nowhere on the machine, and no
\* lookup returns it, unless the operator accepts the account that approved it,
\* whatever flags, pins, terminals, kills and failures come together.
ConsentBeforeTrust ==
    \A p \in Pairs :
        \/ p \in {keychain, file, tmp}
        \/ \E u \in Users : store[u].tok = p
        => pair[p].trusted

\* When `pair' reports success, an event that was queued before its token was
\* stored is no longer queued ("the pre-pairing backlog is discarded here, once"),
\* except one that a running drain took or gave back under the sweep.
BacklogSwept ==
    \A p \in Pairs : pair[p].outcome = "paired" =>
        \A e \in prior[p] : stage[e] = "gone" \/ e \in shifted

\* The poll loop ends, whatever the backend, the phone and the clocks do.
PollingEnds == \A p \in Pairs : pair[p].pc \in {"check", "await"} ~> pair[p].pc \notin {"check", "await"}

=============================================================================
