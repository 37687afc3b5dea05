# birdybeep-agent: a TLA+ verification project

BirdyBeep tells a phone when a coding agent needs its user. The program in this
repository is the machine's half of it: hooks that the harnesses (Claude Code, Codex,
Cursor, Copilot, OpenCode) fire, a normalizer per harness, a sender with an on-disk
retry queue, and a CLI that pairs the machine, installs the hooks and diagnoses both.

There is **no daemon**. Every hook fire and every CLI command is a process of its own,
lives for seconds, may be killed by the harness at any point, and shares state with the
others through plain files only. That is where the difficulty is, and it is what the
models are about: several short-lived processes interleaving their file-system calls,
with kills, lost answers and timeouts.

## 1. Inventory

`PROJECT.json` lists the components with their sources and status. The ones with
behaviour over time:

| Component | State it keeps | Operations | Interacts with | What is hard | What makes it correct |
|---|---|---|---|---|---|
| Retry queue (`agent-core/queue.ts`) | a directory of `<time>-<uuid>.json`, `.tmp`, `.claim` files and `overflow.count` | enqueue, drain, prune, size, discardBefore, clear | sender (calls it, is called back per entry), pair, status, doctor | every file-system call of one process interleaves with all the others'; kills; stale listings | an event has one name; one sender at a time; duplicates only after a lost answer or a kill; claims come back; nothing expired is sent or kept; nothing is lost silently |
| Sender (`agent-core/sender.ts`) | one call's deadline, first attempt, watched attempt | send, drainNow | token store, queue, backend | one deadline over lookup, request and drain; the drain re-sends what this very call queued; other processes do too | the reported outcome and cause are what happened; queued means kept; within the budget |
| Hook command (`cli/commands/hook.ts`) | the payload and the time spent | read stdin with a timeout, budget, run | harness, pipeline, sender | timeout against a slow pipe, an unknown harness deadline | returns before the harness kills it |
| Hook pipeline and ledger (`agent-core/hook.ts`, `dedup.ts`, `notify-matrix.ts`) | `recent-events.json`, rewritten through one shared `.tmp` | filter, two identity checks, send | sender, other fires | read-modify-write races, torn files, marks set before the send | only a twin is a reason to suppress; no double beep without a disturbed update |
| Token store (`token-store.ts`) | keychain item, file fallback, its `.tmp` | setToken, readToken, getToken, clearToken | pair, sender, logout, status, doctor | two stores changed one after the other, a keychain that can be locked at any moment, `security` storing an empty secret, two writers | a lookup beside no write is exact or says it does not know; removal is final |
| Pairing (`pair.ts`, `pairing.ts`) | the pairing session, the deadline | start, poll, confirm, persist, discard backlog | backend, phone, token store, queue | poll loop against two clocks, an answer lost after the token was minted, a crash between persisting and discarding, hooks running meanwhile | no token without consent; no pre-pairing event left; terminates |
| Logout, unpair (`logout.ts`) | none | look up, revoke, clear | token store, backend | removal that swallows errors | what is removed stays removed |
| Diagnostic stores (`observed-builds.ts`, `filtered-activity.ts`, `unpaired-notice.ts`, `salt.ts`, `session-names.ts`) | a small file each | record, read, clear, sweep | hooks, pair, status, doctor | lost updates, a shared `.tmp`, an exclusive create that is written later, a sweep that judges old content | counts never exceed what happened; one salt; a live name survives |
| Installation (five adapters) | the harness's own configuration, a backup, dated copies, markers, the launcher record | install, uninstall | user, harness, hooks | merging into a file others own; a crash between copy, truncation and write; forms of older releases; a CLI that moves | the user's content and its last copy survive; uninstall leaves nothing; install heals what doctor names |
| Status and trust (`status.ts`, `trust.ts`, `restart.ts`) | `codex.seen`, `opencode.seen`, the migration marker | status, doctor, record, clear | install, hook | a marker written by a hook in flight after it was cleared | silent only where each hook starts the CLI and is trusted |
| Routing and normalizers (`hook.ts`, five `normalize.ts`, `bridge.ts`) | none | route, recognize, map to an event type | every fire | several harnesses run the same command for one moment (Cursor loads Claude Code's hooks, Codex has hooks and notify) | each moment that wants the user beeps once, no other does |
| Diagnosis (`diagnostics.ts`, `doctor.ts`, `status.ts`, `setup.ts`) | none | discover, grade, doctor, setup's report | all stores, backend | a verdict over rows read from eight places; builds that cannot be told apart | a green doctor means that a beep can arrive; coverage is what was observed; setup agrees |
| CLI framework, spawning, schemas, formatting | none | pure functions | | strings | covered by table tests |

How they interact: a harness fires `birdybeep hook`; the command reads the payload
(stdin, 3 s), gives the sender what is left of its budget, and runs the adapter's
pipeline: normalize, filter, dedup ledger, send. `send` looks up the token, makes one
request, parks the event in the queue if the answer is retryable, and drains the queue
with the time that is left. On its way a fire records which build it came from, what it
filtered and what was lost for want of a pairing, and for Codex and OpenCode the marker
that proves the harness trusts or has loaded us. `status` and `doctor` drain with
`drainNow` and read all of that; `pair` stores the token, discards the backlog and clears
the count of lost events; `install` and `uninstall` rewrite the harness's configuration and
clear the markers; `queue clear` empties the queue. The only shared state is on disk.

The hazards this code is exposed to are in `PROJECT.json`, each at its line and with
the properties that would catch it, or the reason why none does.

## 2. Modules

| Module | Models | State against code |
|---|---|---|
| `EventQueue` | `LocalEventQueue` | `dir` is the directory: a set of names (event, `at` = the `<enqueuedAt>-` prefix, kind, claim time, claimant). `overflow` is `overflow.count`. `proc[p]` is where process p is in the operation it runs, with its local lists. One action is one file-system call: write the `.tmp` (`WriteTmp`), rename it (`PublishTmp`), the readdir and the removals of `#enforceCap` (`ListForCap`, `RemoveVictim`, `ReadOverflow`, `WriteOverflow`), `#readFresh` (`StartRead`, `Reclaim`, `Relist`, `ReadEntry`, `Unlink`, `EndRead`), the loop of `drain` (`Claim`, `Send...`, `Release`, `Remove`, `EndDrain`), `discardBefore` and `clear` (`StartDiscard`, `StartClear`, `Sweep`, `EndSweep`), and the environment (`Tick`, `Crash`). `accepted`, `doubt`, `faults` and `used` are history for the properties |
| `EventSpool` | what the queue promises | `stage[e]`: new, parked, taken, gone; `holds[p]`: the event p delivers |
| `Sender` | the hook command's budget, `send`, `drainNow`, over `EventSpool` | `proc[p]` holds the locals of one call (`first`, `watched`, `parked`), the answer it `got` and has yet to act on, and its timers: `age` since the hook began, `left` to the deadline, `wait` for what it awaits. `DrainAnswer` takes the answer of the drain's request, `Settle` then removes or releases the claim: between the two the process can be killed and other processes act, and the removal can fail. `lapsed` is history: the events whose claim outlived a final answer |
| `HookDedup` | `runAgentHook` over `RecentEventLedger` | `ledger` and `tmp` are the two files; `fire[f]` is where fire f stands: it reads the `clock`, then the ledger, and has the entries it will write (`draft`). `disturbed` is history: an update failed, or began while another check had read the clock or the ledger and was not through |
| `TokenStore` | `setToken`, `readToken`, `clearToken` | `keychain`, `file`, `tmp` are the two stores and the `.tmp`; `locked` is a keychain that refuses every command; `store[u]` is where u is in its operation. One action is one `security` command or one file-system call (`KeychainAdd`, `KeychainVerify`, `FileUnset`, `FileWrite`, `FileRename`, `FileRead`, `KeychainRead`, `KeychainDelete`, `FileDelete`), `Consume` the answer read, `Die` a kill. `Fault` marks the branches in which a call fails, a `security` that cannot be launched among them. `settled`, `retired`, `disturbed` are history: what a lookup must find, what must never be found again, and whether a delete was refused or writers overlapped; `unlaunched` is a lookup that could not launch `security` |
| `Pairing` | `pair`, `setup`'s pairing, `unpair`, `logout`, and hooks beside them | `pair[p]` holds the process's label, the time left by its own and by the server's clock, the session, the approving account and the names it has yet to sweep; `out[u]`, `hook[h]` likewise. Uses the actions of `TokenStore` and of `EventSpool`, nothing else of them |
| `HarnessConfig` | what install, uninstall, status and doctor make of a configuration, as functions | a content is a set of matcher entries (step, our command, its timeout, the user's commands beside it), other keys, and Codex's notify slot; the merge, the repair, the removal and the inspection of each adapter are operators on it. An install repairs the first managed entry of a step and no other (`Firsts`), while the inspection looks at all |
| `Install` | one adapter's files and the order in which they change | `cfg`, `backup`, `dated`, `seen`, `migrated`, `launcher` are the files; `op.todo` is the effects the running install or uninstall has yet to have, so that a crash or another actor can come between any two; `armed` is what the harness trusts or has loaded, `shot` a hook in flight |
| `HookEvents` | routing, recognition, mapping to an event type, the notify matrix; the payloads of the five vendors | a *moment* is what happens in a harness; each has the commands and payloads it fires |
| `Diagnosis` | discovery, grading, doctor's rows and verdict, setup's report | pure operators over a view of what they read. Doctor has the rows of every adapter (hooks, commands that resolve, Codex's notify slot, a file that can be written, trust, surfaces) and of the machine; the backend is two requests that fail each by itself, the probe (`up`) and the account's question (`answers`). Setup has each adapter's status, what the install it has just run answers (`installResult`), and how it ends: attention, a pairing, an invitation to a turn, or none of these where nothing is installed |
| `HookRecords` | the fires of a moment through routing, names, salt, tallies and dedup; the pairing's clear; upgrades; logout | `files` are the three tallies with their `.tmp`; `salt`; `names`; `fires[p]` is where a process stands. `happened` and `past` are history |
| `EventQueueProofs`, `EventSpoolProofs` (the refinement), `SenderProofs`, `TokenStoreProofs`, `PairingProofs`, `HookDedupProofs`, `HookRecordsProofs`, `InstallProofs` | the theorems | |
| `MC...` | model-checking instances | symmetry sets; `MCHookRecords` also defines the scenes (machines and moments) |

`Sender` composes with the queue through `EventSpool`: the run `queue_safety` shows
that `EventQueue` implements `EventSpool` (`ImplementsSpool`, a refinement mapping from
names to stages), and `Sender` and `Pairing` use the operations of `EventSpool` and nothing
else. `Pairing` composes the token store, the queue and the hooks. `HookRecords` composes
routing, mapping and diagnosis: fires write the records, and the verdicts are computed from
what they wrote.

Definitions headed "Mutated form" are plausible mistakes, each a variant of the
definition that follows it. No specification uses them; substituted for it, each makes
a property fail, which shows that the property can.

Modelling choices a reader should know:

- *Time* in `EventQueue` and `HookDedup` is a shared clock with a bound, in `Sender`
  timers. Clocks do not step back.
- *A listing is atomic*, what is done with it is not. The order of a listing is free
  where the code does not sort.
- *Ties* in the enqueue time are broken by a random id, hence by any choice.
- *I/O errors* other than a name that has gone are left out of `EventQueue`; in
  `Sender` an enqueue may fail, in `HookDedup` an update of the ledger may fail.
- *Kills*: `Crash` between any two file-system calls in `EventQueue`; in `Sender` a mishap,
  which is a kill at any point or a claim that cannot be removed after its final answer;
  in `HookDedup` a killed fire is one that takes no further step, as no fairness is
  assumed.
- *Torn writes* of the ledger's shared `.tmp`: beside another update it may be published
  in a form that does not parse, which reads as an empty ledger.
- *The payload* of an event is its identity; answers of the backend are classified as
  `classify` does: delivered, drop, and the two retries (an HTTP answer, none).
- *Read entries*: `ReadEntry` and the claim are separate calls; between them the entry
  may be claimed, given back, removed.
- *Evictions* in `Sender` (retention, cap, discard, clear, the prune of the paths without
  a token) are one action `Evict`, possible at any time, for the queue's own passes
  interleave with everything.

- *Pairing time* is two timers per session, the server's lifetime and what the local clock
  makes of the server's deadline, at most `MaxSkew` apart at the start; both run together.
- *The human* is a free choice: whether a session is approved and by whom, what is pinned,
  what is answered at the prompt, when Ctrl-C is pressed. What the operator *means* to
  trust is defined from the same flags (`Trusted`), apart from what the gate decides.
- *The three keychain back ends* are one: item there, not there, locked. `security` can
  store an empty secret and report success; the read-back exists for it.
- *Configurations* are read as written: quoting, tokenizing and the order of entries are
  left out, and two registered steps stand for those an adapter registers. A write in place
  is a truncation and a write, with a crash possible in between; a copy can be torn.
- *`tainted`* in `Install` names what happened outside BirdyBeep (the user wrote during an
  operation; an install took a truncated file for an empty one; a crash left half a backup;
  a marker outlived what it proved). A property that such an event can break says so in
  its premise; section 4 lists these cases as behaviours of the code.
- *Deduplication across moments* is `HookDedup`'s subject. In `HookRecords` the fires of
  one moment meet at the ledger: one of them sends, unless a disturbance (a failure or a
  kill) is on record.
- *`logout` and vendors' upgrades* in `HookRecords` happen while no process runs: their
  interleavings with hooks are `Pairing`'s subject.
- *Doctor's view* of an adapter in `HookRecords` is given with the machine: its status,
  whether its commands resolve, its notify slot, whether its file can be written. How the
  status comes about is `Install`'s.
- *Older files* in `Install` may have a second managed command on a registered step, or one
  on a step that is no longer registered, of one launcher of before (`Leftovers`; `LeftSteps`
  has the registered step alone for Codex, which never retired one).
- *A torn write* of a configuration does not parse. A prefix of a `config.toml` that happens
  to end between two lines would; such a prefix is outside the model.

## 3. Runs

All runs finish within the bounds below; deadlock checking is off in all of them because
bounded time, one-shot hooks and commands that end really do come to a stop.

| Run | Shows | Bounds, and why they are enough |
|---|---|---|
| `queue_safety` | types; one name per event; one sender at a time; no claim taken from a live drainer; duplicates only after a fault; nothing expired is sent; refinement of `EventSpool` | 2 processes, 2 events, enqueue, drain, prune and discardBefore (clear and size come in the liveness run), cap 1 (so that two entries exceed it), reclaim age 2 over a send budget of 1, retention 1, one crash or lost answer. Time reaches past both the retention and the reclaim age. Two processes are what each hazard needs (one to hold, one to disturb); the theorems cover any number |
| `queue_liveness` | dead claims come back; no entry outlives its retention | 2 processes, 1 event, enqueue, drain, size and clear, one fault; time 3, past the retention and the reclaim age of a claim of the first moments. A claim of the last moments of the bounded clock is excused in the property |
| `sender_safety` | outcome and cause are honest; queued is kept; a settled event is never taken again, unless its claim outlived the answer; within budget | 2 hooks that drain each other's events; 3 units of budget, so that the two attempts, a slow stdin and a spent budget all occur; one mishap: a kill, or a claim whose removal fails |
| `sender_liveness` | once healthy, the queue drains | a hook and two draining commands, one mishap, so that a drain can hold or lose what another one wants |
| `hook_dedup` | suppression only for a twin; both twins sent only after an update failed, or began during another check | 3 fires, so that a third rewrites between two; two bodies; an approval, which takes both checks, and a type that is filtered (one that is sent and no approval takes the first of the two checks only); window 1, collapse window 0 and time 2, so that both windows are passed. 3.1 million states |
| `pairing` | types; no token on the machine without the operator's consent; quiet lookups exact; removal and replacement final; nothing of the backlog after a success; the poll loop ends | 1 pairing, 1 unpairing, 1 hook (every hazard is a race of two of them, and all three are present); 2 tokens, a former one and the minted one; 1 event of the backlog and the hook's own; 2 accounts that normalization confuses; session lifetime 1 and skew 1, so that each clock can be the first to expire; 1 failure; kills and locks at any time. 1.1 million states. The theorems cover any number of each |
| `install` | types; the user's content; its last copy; a clean uninstall; an honest doctor; an install that heals | each of the 5 harnesses, over every file of the user and of older releases of `UserFiles` and `OldFiles`; 3 launchers (the bare name and two paths, which are symmetric); a command and a key of the user; 2 upsets (edits, moves of the CLI, crashes) with any number of installs, uninstalls and hooks between them: two are needed for a crash followed by an edit or a move. The older files include those with a second command of an earlier launcher, or one on a step that is not registered. 3.3 million states |
| `hook_records` | types; one beep per moment; exact tallies; one salt; live names stay; sound coverage; green means beeps; setup agrees with doctor; trust is earned | 2 processes and 2 sessions (a race needs two; Cursor's bridge fires two commands). Twelve machines see every moment of every harness once, among them one whose commands are gone, one whose file cannot be written, one with an old notify slot and one with nothing; seven scenes have several moments, a kill, a pairing, an upgrade, or a cap on builds, each where the records it concerns are written. The backend's probe and its answer about the account fail separately. 0.33 million states |
| `queue_retry_loss`, `queue_tmp_retention`, `hook_dedup_sent`, `sender_overrun` | the four findings below | the smallest instances that show them |

### Findings

Each is a run that must end in a violation, with the text it contradicts in
`PROJECT.json`:

1. **A retried event can be lost** (`queue_retry_loss`, `NoSilentLoss`; `queue.ts:296`).
   Drain A claims an entry; drain B, which had listed it, fails to read it and goes on to
   its catch branch; A's send says retry and A renames the claim back; B's `rmSync(force)`
   then deletes the live entry.
2. **A half-written event is never expired** (`queue_tmp_retention`, `FilesExpire`;
   `queue.ts:278`). No pass looks at `.tmp` names, so one left by a killed enqueue keeps
   its event past the documented 24 hours.
3. **Two simultaneous approvals can suppress each other** (`hook_dedup_sent`,
   `DedupedMeansSent`; `hook.ts:112`). The two identity checks have two winners.
4. **The token lookup is outside the budget said to include it** (`sender_overrun`,
   `HookInBudget`; `sender.ts:234`). `sender_safety` checks the same property under the
   assumption that the lookup answers within `LookupMax`, short enough for the budget.

### Behaviours of the code worth knowing

Writing the properties so that they hold meant naming the exceptions. None of these
contradicts a text of the repository closely enough to be a finding; each is a behaviour
the models have.

- *Sender.* The answer of a drained event and the removal of its claim are two calls, and
  the errors of the second are swallowed (`queue.ts:372`, `queue.ts:383`): a claim left there
  by a kill or a failure is reclaimed after a minute and the event is sent again, after a
  final answer (the `lapsed` of `NoRepeatAfterVerdict`).
- *Token store.* A refused keychain delete is swallowed: `logout` and `unpair` report a
  removal and the token is still there when the keychain is unlocked
  (`token-store.ts:408`, the `disturbed` of `NoResurrection`). On a locked keychain `unpair`
  says that the machine is already unpaired, and `setup` pairs once more (`getToken` takes
  an error for an absence, as its comment says). A token file that cannot be read lets an
  older keychain item through. A `security` that cannot be launched (`token-store.ts:285`)
  reads as an absent item, not as an unavailable store: such a process takes a paired machine
  for an unpaired one (the `unlaunched` of `QuietLookupExact`). Two `setToken` share one `.tmp`.
- *Pairing.* A network error in a poll leaves the loop, while a transient server error does
  not (`pair.ts:622`). Between `setToken` and `discardBefore` a hook can deliver the
  backlog, and a kill or a failing `writeCliConfig` leaves it queued with the token stored
  (`pair.ts:717`); an event taken or given back under the sweep has a new name and survives
  it (the `shifted` of `BacklogSwept`).
- *Installation.* A crash after the truncation leaves an empty file; a later install reads
  it as `{}`, and a later uninstall removes the backup, the last copy. Half a backup counts
  as one. Uninstall itself makes no copy. `codex.seen` says that some hook is trusted, not
  each. A hook in flight, or a plugin OpenCode still has loaded, writes its marker after an
  uninstall has cleared it. Uninstall returns early, leaving markers and launcher record,
  when nothing of ours is found in the file. Claude Code, Cursor, Copilot and
  OpenCode back up once (`claude-code/src/install.ts:232`, `cursor/src/install.ts:254`,
  `opencode/src/install.ts:212`): a later install overwrites what the user wrote since without a
  copy, so that a crash there can cost it. Codex makes a dated copy each time
  (`codex/src/install.ts:466`), and uninstall leaves those. Only the first managed entry of a
  step is repaired (`claude-code/src/install.ts:175`, `codex/src/install.ts:260`,
  `cursor/src/install.ts:188`), while doctor looks at every one: after a second one, or one on
  a step that is not registered, has gone stale, doctor sends the user to an install that does
  not help (the `Crowded` of `InstallHeals`). The same goes for OpenCode's plugin when the
  CLI cannot name its path. The doctor accepts the bare command without looking at PATH.
- *Records.* A build whose version cannot be read is graded uncovered after an upgrade
  although it delivers, or active by what its former build fired (the `known` of `CoverageSound`). A hook in flight can count a lost
  event after `pair` has cleared the count (`pair.ts:728`): doctor fails until the next
  pairing. The loser of the salt's creation may read the file before it is written and use
  a salt it does not keep; a crash between creation and write leaves a blank salt for good.
  A sweep can remove the name a resumed session has just rewritten. A torn `.tmp` resets a
  tally.
- *Grading and setup.* Hooks of Cursor do not say which kind of build they run in, so a
  desktop app whose version cannot be read is graded uncovered although it delivers, as soon
  as a build beside it is matched; the same goes for a build of Codex that gives its version
  under an originator the normalizer does not know (the `told` of `CoverageSound`). Doctor is
  green when the account could not be asked after, as long as the backend's probe answers
  (`push-reachability.ts:87`). `setup` reads neither whether a file can be written, nor whether
  commands resolve, nor the notify slot: it can call ready what doctor faults for these. `setup` reports what the
  install it has just run says, and Codex's and OpenCode's always say `needs_trust` and
  `needs_restart`: on a machine doctor finds nothing wrong with, another `setup` still says
  "needs you" (`installResult`; `codex/src/install.ts:430`). A harness without a build gets
  its row from that result alone: `setup` calls it ready even when its status is one doctor
  faults (`setup.ts:254`). `SetupAgrees` has both exceptions.

### Fairness

`EventQueue!FairSpec`: weak fairness of each process's steps (a process that is not killed
runs on; nothing in the queue blocks), weak fairness of the clock, strong fairness of
starting a drain (hooks keep firing: without passes over the queue neither reclaim nor
retention is ever applied, as the code has no daemon). Strong, because a process is busy
with other operations in between. `Sender!FairSpec`: weak fairness of each process's steps
and of time, strong fairness of the drains that the user's `status` starts, and weak
fairness of `Recover`, which is what `OrphansReturn` shows of the queue. Neither assumes
that a request succeeds, a token lookup answers or a drain reaches an event: these follow
from the machine being healthy (`Heal`), which is a premise of `QueueDrains`, not a
fairness assumption.

`Pairing!FairSpec`: weak fairness of each pairing process's own steps and of time. A
process runs on; a request is answered or fails, because `fetch` gives up by itself after
minutes (the code sets no timeout of its own); the clocks advance. Nothing is assumed of
the human, the phone or the backend: `PollingEnds` follows from the deadline alone, as the
mutant that waits for an answer shows. `Install` and `HookRecords` state safety only.

## 4. Proofs

### The queue

`EventQueueProofs` proves with TLAPS, for every number of processes, events, and every
value of the bounds, retention, cap and batch size:

| Theorem | Property |
|---|---|
| `TypeCorrect` | `TypeOK` |
| `OneFile` | `OneFilePerEvent` |
| `Exclusive` | `ExclusiveSend` |
| `NotStolen` | `ClaimNotStolen` |
| `SendsFresh` | `NeverSendsExpired` |

The assumptions are those the module declares: the placeholders are not processes or
events, the numbers are naturals, and `BudgetAssumption`, `SendBudget < ClaimReclaim`
("60s ≫ the 5s send budget" in `queue.ts`). The last one is needed: without it
a slow drainer loses its claim, as the mutant of `ClaimNotStolen` shows.

None of the properties is inductive. The invariant `IInv` adds, for each process:

- what a holder knows (`HolderInv`): its claim carries its own name and a claim time
  within the send budget; the event's file, if it exists, has exactly the claim's name;
  no other process holds the event. This is why a rename by anybody else cannot touch the
  event, and why two holders cannot meet;
- what its lists may contain (`ListInv`): a reclaim list has claims that were old enough
  when it was made, and so can never contain a live drainer's claim: the clock cannot pass
  `SendBudget` under a holder, and `SendBudget < ClaimReclaim`; a fresh list has entries
  that were not past the retention of their pass;
- that the directory is finite and an event without a started enqueue has no file.

`IInv` is itself checked by TLC on the small instance. The step is proved action by
action (`TypeStep`, `HoldersStep`); two lemmas carry most cases: `QuietStep` (nothing is
renamed, no claim taken) and `RenameStep` (one rename between two names of one event that
nobody else holds). The temporal steps only combine these.

`EventSpoolProofs` builds on it, under the same assumptions:

| Theorem | Property |
|---|---|
| `DuplicatesBounded` | `DuplicatesOnlyAfterDoubt` |
| `Implements` | `ImplementsSpool`, the refinement of `EventSpool` |

`KindsOfSteps` first sorts the actions of `EventQueue` by what they do to the one event they
touch: nothing, announce it, publish it, delete it, reclaim it, claim it, release it, remove
it, or leave it with a crash. Both theorems then go kind by kind.

- *Duplicates.* `DuplicatesOnlyAfterDoubt` (accepted at most one time more than there
  were lost answers and dead senders) is not inductive: a second delivery must not start from
  the bound. `DoubtInv` adds that while the event is `Open`, that is while some process may
  still send it, it has been accepted no more often than there were doubts; what
  closes it is an answer that came back, after which only its removal is left.
- *Refinement.* The stage of an event is read off the one name it has (`StageByFile`, which
  rests on `OneFile`), so a step that leaves an event's name and holder alone leaves its
  stage alone (`StageKept`), and a rename or a removal moves it as the abstract operation
  does (`StageMoved`, `StageFinished`). Where two processes race for one name, the loser's
  step is a stutter because the file is gone; that is the part a test hardly reaches.

### The sender

`SenderProofs` proves, for any number of hooks and drainers, any budgets, any answers, kills
and evictions:

| Theorem | Property |
|---|---|
| `TypeCorrect` | `TypeOK` |
| `OutcomesHonest` | `OutcomeHonest` |
| `CausesHonest` | `CauseHonest` |
| `QueuedStays` | `QueuedIsKept` |
| `VerdictsFinal` | `NoRepeatAfterVerdict` |
| `HookEndsInBudget` | `LookupFits => HookInBudget` |

The assumptions are the module's: hooks and drainers are distinct, the budgets are naturals,
the total budget and the smallest useful attempt are positive (`DEFAULT_TOTAL_BUDGET_MS`,
`MIN_ATTEMPT_MS`), and the stdin timeout is below the hook's budget, as in `hook.ts`.

What a call reports is decided from three locals, `first`, `watched` and `parked`, after other
processes have had the queue for a while. `IInv` says why they are still true then:

- `FireOK`: until its own call parks it, an event is new, so nobody else can hold it or
  learn a verdict for it; the answers the call got are exactly the two locals; a watched
  answer is about an event that is parked and no longer in this call's list, so no second
  answer comes;
- `HoldsOK` and `OneHolder`: a process holds at most the event it is sending, two processes never
  the same, and the event it sends is its own unless the queue gave it up;
- `EventOK`: an event with a verdict is in nobody's reach, or its one holder is at the removal
  of its claim (`Closing`), or that removal was cut off or failed (`lapsed`); and an event
  leaves the queue only with a verdict or by eviction.

`HookEndsInBudget` needs a premise no assumption of the model grants: `LookupFits`, that the stdin
timeout and the slowest token lookup fit in the budget. The code gives the lookup no
timeout, which is the finding the run `sender_overrun` shows; the theorem says that the lookup is
the *only* thing that can break the budget. Its invariant `TimeInv` relates a hook's age,
what is left to its deadline and the timer of what it awaits.

### The token store and pairing

`TokenStoreProofs` proves of the store on its own (`StoreSpec`: any number of processes,
each starting any operation at any time, any number of failures and kills, a keychain
locked and unlocked at will) and `PairingProofs` of the whole of `Pairing`, for any number
of pairings, unpairings, hooks, tokens, events and accounts and any window and skew:

| Theorem | Property |
|---|---|
| `StoreTyped`, `PairingTyped` | `StoreTypeOK`, `TypeOK` |
| `LookupExact`, `PairingLookupExact` | `QuietLookupExact` |
| `RemovedStaysRemoved`, `PairingRemovedStays` | `NoResurrection` |
| `ConsentGiven` | `ConsentBeforeTrust` |
| `BacklogGone` | `BacklogSwept` |

The assumptions are those of the modules: placeholders are not tokens, every pairing is
named by the token minted for it, the kinds of process are disjoint, the bounds are
naturals.

`StoreInv` strengthens the two properties of the store:

- `PlatformInv`: without a keychain no token is in one and nobody adds to it;
- `SettledInv`: while a single answer is the right one, nobody writes and the answer is what
  the two stores hold (`Current`);
- `WriterInv`: a writer without company is the only one, and its label says what it has
  done: at the removal of the older file its token is in the keychain, at the rename it is
  in the `.tmp`, at the removal of the file the keychain has no token any more. This is what
  makes the end of a write settle the store;
- `FreshInv`: a token that is being set is not among the retired ones, which is why setting
  it cannot bring anything back;
- `ReaderInv`: a lookup under way expects what is settled or nothing in particular, and asks
  the keychain only when the file has no token or did not answer; one that could not launch
  `security` is on record, for it answers "absent" whatever the keychain has.

`PairInv` adds to it, for the whole composition:

- `MintInv`: a pairing's token that is, or was, anywhere (keychain, file, `.tmp`, the hands
  of any process, the retired ones) belongs to a pairing that has passed its gate and whose
  operator trusts the approver. A token enters the store in `StartSet` only
  (`NothingMinted`, `Minted`), the gate opens only with consent (`GateStep`), and a pairing
  past the gate stays past it (`PastTheGate`);
- `SweepInv`: while a sweep runs, each event of its backlog is gone, marked, or still to be
  removed under the very name it has. `StageMoves` shows that an event under a sweep's
  eyes changes its name only with a mark and never comes back.

`StoreEffect` reduces every step of `Pairing` to a step of the store, so `StoreStepInv`, the
store's own induction step, is used as it stands.

### The ledger

`HookDedupProofs` proves, for any number of fires, sessions, types and bodies and any
windows:

| Theorem | Property |
|---|---|
| `HookTyped` | `TypeOK` |
| `OnlyForATwin` | `SuppressedOnlyForATwin` |
| `NoDoubleBeep` | `DoubleBeepNeedsDisturbance` |

The assumptions: the windows are naturals and the collapse window is within the ledger's own
("Keep this ≤ the ledger's default window" in `dedup.ts`; with a wider one the code clamps
it, and a twin outside the clamped window does beep), and `"any"`, the body of a collapse
identity, is no digest of a body. The latter is why the marks of the two checks never meet.

`HookInv` strengthens the two properties:

- `StampInv`: what a fire's label says of its clock readings, of which the last may be older
  than the ledger it goes on to read;
- `OriginInv`: every entry of the ledger, the `.tmp` and the drafts is the mark of a check some
  fire made, with the time of that check. Torn files and lost updates only lose entries, so
  this survives them, and a duplicate found always has a twin behind it (`SuppressedInv`);
- `AloneInv`: undisturbed, there is at most one update under way, and the marks of all clear
  fires are in the ledger, or, while an update runs, in what it is about to publish, for as
  long as a check that is yet to come, or one that has already read the clock, could look for
  them;
- `ApartInv`: undisturbed, no two fires that are still clear to be sent are twins. A fire
  that finds no duplicate extends it because `AloneInv` would have shown it the other's mark.

### The records

`HookRecordsProofs` proves, for any number of processes and sessions, any machines, any
sequence of moments of the five harnesses and of foreign tools, any number of kills,
pairings, logouts and upgrades:

| Theorem | Property |
|---|---|
| `TypeCorrect` | `TypeOK` |
| `SaltIsOne` | `OneSalt` |
| `NamesStay` | `NamesKept` |
| `TrustEarned` | `TrustIsEarned` |
| `TalliesRight` | `TalliesExact` |
| `BeepsOnce` | `OneBeepPerMoment` |
| `CoverageIsSound` | `CoverageSound` |
| `GreenIsRight` | `GreenMeansBeeps` |
| `SetupAgreesWithDoctor` | `SetupAgrees` |

The assumptions (`RecordsAssumption`): a scene's machine has one of the statuses of
`INTEGRATION_STATUSES` (or an adapter that throws) and a set of builds for every harness, its
moments are among those of `HookEvents`, its bounds are naturals, the backend's two requests
succeed or not, each by itself, and no process is called by one of the three names for a salt without a writer. `Sited` says
what the discovery gives: one build at a place of PATH or of a versioned directory, at most
one desktop app that hides its version, a harness that awaits trust (Codex) or a restart
(OpenCode) only if that is what its install asks for, and commands wherever something is
configured, but for OpenCode's plugin.

The processes share five things that have little to do with each other, so the proof is cut
both ways. `StepEffects` goes through the 26 steps of a process once and says what each does
to each part (`Effects`): most leave a part alone, and the few that do not are named. Then each
part of `IInv` has an induction of its own over the few that matter:

- `SaltInv`: at most one process is about to write the salt it created, the file is blank
  until then, and a kept salt is the one on the disk. Exclusive creation is what makes it
  inductive: a second process cannot create while the file is there, blank or not, so a
  crash between creation and write costs the salt but never makes two;
- `NameInv`: no sweep and no lookup is about to remove the name of a session that must keep
  it. A name is judged again between listing and removal, and a removal decided before the
  name came is on record (`crossed`);
- `TrustInv`: a process at work for a harness has run for that harness. That a Codex
  notification never earns trust rests on what the harnesses send (`AllFires`, `Handled`): no
  payload handed over by `notify` has a hook's name, however it is routed;
- `TallyInv`: in a tally without a disturbance at most one process is at work, what it holds
  and what it wrote to the `.tmp` is the tally with its event counted, and what is on the disk
  is bounded by what took place. The count on record is taken with the read, so the file is
  behind it exactly while a process is inside;
- `MomentInv`: the processes of a moment that still run are as many as are left of it, at most
  two, and a beep takes one of them.

What the commands conclude from the records, and the beeps, rest on four more invariants, each
inductive once `IInv` is known:

- `Sites` (for `SetupAgrees`, `CoverageSound`): upgrades and markers leave the builds and the
  statuses as `Sited` describes them. `SetupOfOne` then compares the two reports for one
  harness, for any observations;
- `MapsInv` (for `GreenMeansBeeps`, `CoverageSound`): the tallies, their `.tmp` and what the
  processes hold are finite, so that "nothing missed" is an empty map, and each build with a
  version in them has fired. `GreenIs` says what a doctor without a fault has found;
- `EvidenceInv` (for `CoverageSound`): a fire comes from a build that was on the disk, and what
  it tells of itself is that build's version and its kind, if the harness tells the kind. A
  verdict is then traced back: an active one through `matched` to an entry, from it by
  `MapsInv` to a fire; an uncovered one is refuted, because an exact tally holds the entry of
  the build that fired and `matched` finds it. `MatchedIs` says what the three ways
  of matching (`exact`, `soleOfKind`, `unattributed`) can find;
- `LedgerInv` (for `OneBeepPerMoment`): an undisturbed moment's marks are those of its
  commands that send, at most one of them an approval; each command that sends has a mark, or
  an approval has one for it, or it still runs;
  a process about to send is the only one with its event; and the beeps so far are the marks
  that are not being sent any more (`Delivered`). At the end nothing runs, so the beeps are the
  marked events that notify, and `BeepsOwed` shows that there are as many as are due.

All of them rest on what the vendors send. `AllBeeps` goes through every moment of `HookEvents`,
harness by harness, and says of each command that fires which harness it is routed to, whether
it is recognized, to which event it maps and whether that one beeps (`BeepsRight`); the
inductions use that and no other fact about payloads.

### Installation

`InstallProofs` proves, for each of the five adapters, any set of launchers the CLI may have
been installed under, any commands and keys of the user, and any number of edits, moves and
crashes:

| Theorem | Property |
|---|---|
| `TypeCorrect` | `TypeOK` |
| `ContentStays` | `UserContentKept` |
| `CopyStays` | `LastCopyKept` |
| `UninstallIsClean` | `UninstallClean` |
| `DoctorIsHonest` | `DoctorHonest` |
| `InstallsHeal` | `InstallHeals` |

The assumptions (`ConfigAssumption`, `FormsAssumption`, `HashAssumption`) say only that a
missing file, an empty one and one that does not parse are three things and none of them a
content, that "no command" is not a launcher and "no hook in flight" not a hook, that the
bare name is one of the launchers, and that Cursor's `version` is not a key of the user's.
The exceptions are those of the properties: a user who writes during an operation (`raced`),
an install over a truncated file (`blind`), a half-written backup (`torn`), a marker that
outlived what it proved (`doubt`), and for `InstallHeals` the commands an install does not
repair (`Crowded`). `CopyStays` claims a copy of what an install first overwrote, and with
Codex of each later content; of edits made after the backup the other four keep none.

The proof has three layers:

- *Contents.* Lemmas on `HarnessConfig` say what each merge and each removal does to any
  content: `Repaired` and `Merged` (every registered step is there and runs the given
  launcher, every command beside it and every key stays), `Stripped` (nothing of ours is
  left, all the rest is), `WhollyOurs` (a Copilot file that passes as managed holds nothing
  of the user's), `ToolOf` (the displaced notify program).
- *Plans.* An operation is the set of the effects it has yet to have (`Pending`) and their
  order (`InOrder`). `GoodPlan` is what the plan of an install or uninstall is like when it
  starts, one lemma for each of the ten operations: which copy comes before which write, what
  the draft holds, that the trust marker of rewritten hooks is cleared before they are
  written. `Progresses` and `WhatFollows` say what can be pending after each effect; with
  them a step between two effects needs no case distinction on the adapter.
- *The invariant.* `IInv` has one part for the form of the state and one for each promise, and
  each of those speaks of the operation's rest as well as of the files: `ContentInv` that the
  draft to be written has what the user put in, `CopyInv` that what is to be overwritten is in
  the file while the copy is pending and in a copy once it is not, `UninstallInv` that what an
  uninstall has no longer pending is done, `MarkerInv` that a marker without doubt vouches for
  hooks that are there and trusted, or is about to be cleared, `InstallInv` that what is
  written, or will be, is healed. The properties alone are not inductive: they are silent
  while an operation runs. `ContentInv` needs `UninstallInv`: the backup, which has the
  displaced notify program, may be consumed only once the file no longer needs it.

Each part is shown to hold initially and to survive the start of an operation (from
`GoodPlan`), an effect (`Step...`), and a crash, a fire, an approval, a move of the CLI, an
edit or a restored backup (`Others...`). TLC checked `IInv` on the instance of the run
before it was proved.

### What is only model-checked

Every invariant a passing run checks is stated by a theorem, and so is the refinement
`ImplementsSpool`. Left to TLC for good are the four temporal properties (`OrphansReturn`,
`EntriesExpire`, `QueueDrains`, `PollingEnds`): liveness under fairness, and anything about
ENABLED, is out of the prover's reach. The four findings are counterexamples, which only TLC
can show. Nothing in the modules needs recursion, so no induction over data is needed.

## 5. Plan

Done, in the order of importance: the queue and its abstraction with their proofs and the
refinement; the sender with its proofs; the ledger with its proofs; the token store and pairing with
their proofs; installation with its proofs; the records, the routing and the diagnosis with
their proofs. What could be added:

1. A bound that relates the queue's depth to its cap and its claims (the cap is best
   effort; the hazard at `queue.ts:153` has no property yet).
2. I/O errors in `EventQueue` beyond a name that has gone.

## 6. Not modelled

- *Normalizers' text*, redaction and truncation, schemas, output, argument parsing, command
  quoting and path resolution are stateless string processing; the repository's table tests
  cover them and a model would restate them. What the normalizers decide (which payload is
  whose, which type of event it becomes) is `HookEvents`.
- *PKCE and the QR code* are cryptography and drawing. The heartbeat and the notes after
  a pairing change nothing on the machine.
- *The update check* caches an answer of the registry that only words a hint.
- *The CLI framework* (dispatch, network helper, configuration reading, the animation)
  keeps no state between processes.
- *File permissions* are repaired on each access and play no part in the ordering.
- *The test harness and the scripts* under `src/scripts` are not part of the program; they
  are a large part of the lines outside the map.
- *Hazards without a property* are in `PROJECT.json` with the reason: mostly behaviour the
  code documents as accepted.
