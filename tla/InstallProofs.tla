---------------------------- MODULE InstallProofs ----------------------------
(***************************************************************************)
(* Proofs about Install, for any launchers, any commands and keys of the   *)
(* user, and any number of edits, moves and crashes.                       *)
(***************************************************************************)
EXTENDS Install, FiniteSetTheorems, SequenceTheorems, TLAPS

(* The inductive invariant has one part for the form of the files and of    *)
(* the running operation, and one for each promise.  An operation is seen   *)
(* as the set of the effects it has yet to have and the order they have.    *)

Pending(o) == Range(o.todo)

InstallOrder ==
    [recordMigration |-> 1, clearSeen |-> 2, setLauncher |-> 3, backup |-> 4, date |-> 5,
     truncate |-> 6, write |-> 7]
UninstallOrder ==
    [truncate |-> 1, write |-> 2, dropBackup |-> 3, remove |-> 4, clearSeen |-> 5,
     clearMigration |-> 6, clearLauncher |-> 7]
Order(result) == IF result = "installed" THEN InstallOrder ELSE UninstallOrder

InOrder(result, s) ==
    /\ s \in Seq(DOMAIN Order(result))
    /\ \A i, j \in 1..Len(s) : i < j => Order(result)[s[i]] < Order(result)[s[j]]

Marked == {"codex", "opencode"}
Copies == {"backup", "date"}

\* The effects that an operation of an adapter may have.
Allowed(h, result) ==
    CASE result = "installed" ->
             {"backup", "truncate", "write"}
             \cup (IF h = "codex" THEN {"recordMigration", "clearSeen", "date"} ELSE {})
             \cup (IF h = "opencode" THEN {"setLauncher"} ELSE {})
      [] result = "removed" ->
             {"truncate", "write", "dropBackup", "remove"}
             \cup (IF h \in Marked THEN {"clearSeen"} ELSE {})
             \cup (IF h = "codex" THEN {"clearMigration"} ELSE {})
             \cup (IF h = "opencode" THEN {"clearLauncher"} ELSE {})
      [] result = "unchanged" -> IF h = "copilot" THEN {} ELSE {"dropBackup"}
      [] OTHER -> {}

\* What the managed entries and the notify slot of an adapter's file are like, whoever
\* wrote it.
EntryOK(h, e) ==
    /\ e.step \in Registered(h) \cup (IF h \in {"copilot", "opencode"} THEN {} ELSE {"retired"})
    /\ h = "cursor" => e.mates = {}
    /\ h = "opencode" => e = Managed("plugin", Bare)
FileOK(h, f) ==
    /\ f \in File
    /\ f \in Content /\ f.notify = "birdybeep" => h = "codex"
    /\ \A e \in OursIn(f) : EntryOK(h, e)

OpOK(o) ==
    /\ o = Plan(o.result, o.todo, o.draft)
    /\ o.result \in Results
    /\ InOrder(o.result, o.todo)
    /\ Pending(o) \subseteq Allowed(harness, o.result)
    /\ FileOK(harness, o.draft)
    /\ "truncate" \in Pending(o) => "write" \in Pending(o)
    /\ Pending(o) \cap Copies # {} => "truncate" \in Pending(o)
    /\ harness \in Marked /\ o.result = "removed" /\ Pending(o) \cap {"write", "remove"} # {} =>
         "clearSeen" \in Pending(o)
    /\ "backup" \in Pending(o) => backup = Absent
    /\ o.result = "unchanged" /\ "dropBackup" \in Pending(o) /\ "raced" \notin tainted =>
         cfg = Absent

FormInv ==
    /\ harness \in Harnesses
    /\ FileOK(harness, cfg) /\ FileOK(harness, backup)
    /\ seen \in BOOLEAN /\ migrated \in BOOLEAN
    /\ launcher \in (Launchers \ {Bare}) \cup {None} /\ cli \in Launchers
    /\ armed \subseteq Hashes /\ shot \in Hashes \cup {None}
    /\ tainted \subseteq Taints
    /\ harness # "codex" => ~migrated /\ dated = {}
    /\ harness # "opencode" => launcher = None
    /\ harness \notin Marked => ~seen /\ shot = None
    /\ OpOK(op)

\* The notify program of the user.
Tool == <<"notify", "tool">>
Displaced(f) == IF Parsed(f).notify = "birdybeep" THEN {Tool} ELSE {}

\* What a file has of the user is what the user put in; the notify program that an
\* older release displaced is the one the backup has.
ContentPlan(o) ==
    /\ "write" \in Pending(o) =>
         o.draft # Garbled /\ Displaced(o.draft) = {} /\ Items(o.draft) = mine
    /\ "remove" \in Pending(o) => mine = {}
ContentInv ==
    harness # "copilot" /\ {"raced", "blind"} \cap tainted = {} =>
        /\ cfg \notin Damaged => Items(cfg) = mine \ Displaced(cfg)
        /\ cfg \notin Damaged /\ Displaced(cfg) # {} =>
             (Tool \in mine <=> backup # Garbled /\ Parsed(backup).notify = "tool")
        /\ ContentPlan(op)

\* What is to be overwritten is in the file until the copy is made, and in a copy from
\* then on.
CopyPlan(o, s) ==
    /\ Pending(o) \cap Copies # {} => s \subseteq Items(cfg)
    /\ Pending(o) \cap Copies = {} /\ "write" \in Pending(o) => s \subseteq Items(backup) \cup dated
    /\ harness # "copilot" /\ o.result = "removed" /\ "dropBackup" \in Pending(o) => s = {}
    /\ harness = "copilot" /\ "remove" \in Pending(o) => s = {}
    /\ harness = "copilot" /\ "dropBackup" \in Pending(o) =>
         s \subseteq IF "write" \in Pending(o) THEN Items(o.draft) ELSE Items(cfg)
CopyInv ==
    {"raced", "blind", "torn"} \cap tainted = {} =>
        /\ harness # "codex" /\ backup # Absent => saved \subseteq Items(backup)
        /\ harness = "copilot" /\ backup = Absent => saved \subseteq Items(cfg)
        /\ cfg \in Damaged => saved \subseteq Items(backup) \cup dated
        /\ CopyPlan(op, saved)

\* Nothing of ours in it.
Clean(f) ==
    IF harness = "copilot" THEN ~isManagedCopilotHooks(f)
    ELSE f # Garbled /\ Parsed(f).notify # "birdybeep" /\ \A e \in Parsed(f).entries : e.ours = None

\* What an uninstall has done is done for good.
RemovedPlan(o) ==
    o.result = "removed" =>
        /\ "write" \in Pending(o) => Clean(o.draft)
        /\ Pending(o) \cap {"write", "remove"} = {} => Clean(cfg)
        /\ "dropBackup" \notin Pending(o) => backup = Absent
        /\ "clearMigration" \notin Pending(o) => ~migrated
        /\ "clearLauncher" \notin Pending(o) => launcher = None
        /\ "clearSeen" \notin Pending(o) => (seen => "doubt" \in tainted)
UninstallInv == "raced" \notin tainted => RemovedPlan(op)

\* A marker without doubt vouches for the hooks that are there: each registered step has
\* a trusted one; the plugin is loaded.
Vouched ==
    /\ OursIn(cfg) # {}
    /\ IF harness = "opencode" THEN \E e \in armed : e.step = "plugin"
       ELSE \A e \in OursIn(cfg) : e.step \in Registered(harness) =>
                \E d \in OursIn(cfg) : d.step = e.step /\ Hash(d) \in armed
MarkerPlan(o) ==
    /\ "write" \in Pending(o) /\ "clearSeen" \notin Pending(o) => (seen => "doubt" \in tainted)
    /\ "write" \in Pending(o) /\ o.result = "removed" => OursIn(o.draft) = {}
MarkerInv ==
    harness \in Marked =>
        /\ seen /\ "doubt" \notin tainted =>
             Vouched \/ ("clearSeen" \in Pending(op) /\ OursIn(cfg) = {})
        /\ MarkerPlan(op)

\* What an install is to leave.
Healed(f) ==
    IF harness = "copilot" THEN f = generatedCopilotHooks(cli)
    ELSE /\ f \in Content /\ f.notify # "birdybeep"
         /\ Missing(harness, f) = {}
         /\ harness # "opencode" =>
              \A s \in Registered(harness) : \E e \in Ours(f) : e.step = s /\ e.ours = cli
Recorded == IF cli = Bare THEN None ELSE cli
InstalledPlan(o) ==
    o.result = "installed" =>
        /\ Healed(IF "write" \in Pending(o) THEN o.draft ELSE cfg)
        /\ harness = "opencode" /\ "setLauncher" \notin Pending(o) => launcher = Recorded
InstallInv == "raced" \notin tainted => InstalledPlan(op)

IInv == FormInv /\ ContentInv /\ CopyInv /\ UninstallInv /\ MarkerInv /\ InstallInv

-----------------------------------------------------------------------------
(* The effects of an operation, in their order.                            *)

LEMMA Ranks ==
    /\ \A r : \A e \in DOMAIN Order(r) : Order(r)[e] \in Nat
    /\ DOMAIN InstallOrder = {"recordMigration", "clearSeen", "setLauncher", "backup", "date",
                              "truncate", "write"}
    /\ DOMAIN UninstallOrder = {"truncate", "write", "dropBackup", "remove", "clearSeen",
                                "clearMigration", "clearLauncher"}
  BY DEF Order, InstallOrder, UninstallOrder

LEMMA NoEffect == ASSUME NEW r PROVE InOrder(r, <<>>) /\ Range(<<>>) = {}
  BY DEF InOrder, Range

LEMMA OneEffect ==
    ASSUME NEW r, NEW a \in DOMAIN Order(r)
    PROVE  InOrder(r, <<a>>) /\ Range(<<a>>) = {a}
  BY DEF InOrder, Range

Precedes(r, s, t) == \A a \in Range(s), b \in Range(t) : Order(r)[a] < Order(r)[b]

LEMMA InSequence ==
    ASSUME NEW r, NEW s, NEW t, InOrder(r, s), InOrder(r, t), Precedes(r, s, t)
    PROVE  InOrder(r, s \o t) /\ Range(s \o t) = Range(s) \cup Range(t)
  <1> DEFINE S == DOMAIN Order(r)
  <1>1. s \in Seq(S) /\ t \in Seq(S)
    BY DEF InOrder
  <1>2. /\ s \o t \in Seq(S) /\ Len(s \o t) = Len(s) + Len(t)
        /\ \A i \in 1..Len(s) + Len(t) :
             (s \o t)[i] = IF i <= Len(s) THEN s[i] ELSE t[i - Len(s)]
    BY <1>1, ConcatProperties
  <1>3. \A i \in 1..Len(s) : s[i] \in Range(s)
    BY <1>1 DEF Range
  <1>4. \A i \in 1..Len(t) : t[i] \in Range(t)
    BY <1>1 DEF Range
  <1>5. ASSUME NEW i \in 1..Len(s \o t), NEW j \in 1..Len(s \o t), i < j
        PROVE  Order(r)[(s \o t)[i]] < Order(r)[(s \o t)[j]]
    <2>1. CASE j <= Len(s)
      BY <1>1, <1>2, <1>5, <2>1 DEF InOrder
    <2>2. CASE i <= Len(s) /\ ~(j <= Len(s))
      BY <1>1, <1>2, <1>3, <1>4, <1>5, <2>2 DEF Precedes
    <2>3. CASE ~(i <= Len(s))
      <3>1. i - Len(s) \in 1..Len(t) /\ j - Len(s) \in 1..Len(t) /\ i - Len(s) < j - Len(s)
        BY <1>1, <1>2, <1>5, <2>3
      <3>2. (s \o t)[i] = t[i - Len(s)] /\ (s \o t)[j] = t[j - Len(s)]
        BY <1>1, <1>2, <1>5, <2>3
      <3> QED  BY <3>1, <3>2 DEF InOrder
    <2> QED  BY <1>1, <2>1, <2>2, <2>3
  <1> QED  BY <1>1, <1>2, <1>5, RangeConcatenation DEF InOrder

LEMMA TwoEffects ==
    ASSUME NEW r, NEW a \in DOMAIN Order(r), NEW b \in DOMAIN Order(r), Order(r)[a] < Order(r)[b]
    PROVE  InOrder(r, <<a, b>>) /\ Range(<<a, b>>) = {a, b}
  BY DEF InOrder, Range

LEMMA ThreeEffects ==
    ASSUME NEW r, NEW a \in DOMAIN Order(r), NEW b \in DOMAIN Order(r), NEW c \in DOMAIN Order(r),
           Order(r)[a] < Order(r)[b], Order(r)[b] < Order(r)[c]
    PROVE  InOrder(r, <<a, b, c>>) /\ Range(<<a, b, c>>) = {a, b, c}
  <1>1. Order(r)[a] < Order(r)[c]
    BY Ranks
  <1> QED  BY <1>1 DEF InOrder, Range

\* An effect that is had is no longer pending, and what is pending comes after it.
LEMMA NextEffect ==
    ASSUME NEW r, NEW s, InOrder(r, s), s # <<>>
    PROVE  /\ InOrder(r, Tail(s))
           /\ Head(s) \in DOMAIN Order(r) /\ Range(s) = {Head(s)} \cup Range(Tail(s))
           /\ \A e \in Range(Tail(s)) : e \in DOMAIN Order(r) /\ Order(r)[Head(s)] < Order(r)[e]
  <1> DEFINE S == DOMAIN Order(r)
  <1>1. s \in Seq(S)
    BY DEF InOrder
  <1>2. /\ Len(s) \in Nat \ {0} /\ Tail(s) \in Seq(S) /\ Len(Tail(s)) = Len(s) - 1
        /\ \A i \in 1..Len(Tail(s)) : Tail(s)[i] = s[i + 1]
    BY <1>1, HeadTailProperties, EmptySeq
  <1>3. Head(s) = s[1] /\ s[1] \in S
    BY <1>1, <1>2
  <1>4. ASSUME NEW i \in 1..Len(Tail(s)) PROVE i + 1 \in 1..Len(s) /\ i \in 1..Len(s)
    BY <1>2
  <1>5. InOrder(r, Tail(s))
    <2>1. \A i, j \in 1..Len(Tail(s)) :
            i < j => Order(r)[Tail(s)[i]] < Order(r)[Tail(s)[j]]
      BY <1>2, <1>4 DEF InOrder
    <2> QED  BY <1>2, <2>1 DEF InOrder
  <1>6. Range(s) = {s[i] : i \in 1..Len(s)} /\ Range(Tail(s)) = {Tail(s)[i] : i \in 1..Len(Tail(s))}
    BY <1>1, <1>2, RangeEquality
  <1>7. \A i \in 1..Len(s) : i = 1 \/ (i - 1 \in 1..Len(Tail(s)) /\ s[i] = Tail(s)[i - 1])
    BY <1>2
  <1>8. \A i \in 1..Len(Tail(s)) : Tail(s)[i] = s[i + 1] /\ Order(r)[s[1]] < Order(r)[s[i + 1]]
    BY <1>2, <1>4 DEF InOrder
  <1>9. Range(s) = {Head(s)} \cup Range(Tail(s))
    <2>1. \A x \in Range(s) : x \in {Head(s)} \cup Range(Tail(s))
      BY <1>3, <1>6, <1>7
    <2>2. \A x \in Range(Tail(s)) : x \in Range(s)
      BY <1>4, <1>6, <1>8
    <2>3. Head(s) \in Range(s)
      BY <1>2, <1>3, <1>6
    <2> QED  BY <2>1, <2>2, <2>3
  <1>10. \A e \in Range(Tail(s)) : e \in S /\ Order(r)[Head(s)] < Order(r)[e]
    BY <1>2, <1>3, <1>6, <1>8
  <1> QED  BY <1>3, <1>5, <1>9, <1>10

-----------------------------------------------------------------------------
(* Files and what they hold of the user.                                   *)

LEMMA Forms ==
    /\ Absent \notin Content /\ Empty \notin Content /\ Garbled \notin Content
    /\ Absent # Empty /\ Absent # Garbled /\ Empty # Garbled
    /\ Blankness \in Content /\ Ours(Blankness) = {}
    /\ \A f \in File : f # Garbled => Parsed(f) \in Content /\ OursIn(f) = Ours(Parsed(f))
    /\ \A c \in Content : Parsed(c) = c /\ OursIn(c) = Ours(c) /\ c \in File /\ c \notin Damaged
    /\ Parsed(Absent) = Blankness /\ Parsed(Empty) = Blankness
    /\ OursIn(Absent) = {} /\ OursIn(Empty) = {} /\ OursIn(Garbled) = {}
  <1>1. Absent \notin Content /\ Empty \notin Content /\ Garbled \notin Content
    BY FormsAssumption
  <1>2. Blankness \in Content /\ Ours(Blankness) = {}
    BY DEF Blankness, Content, Ours
  <1> QED  BY <1>1, <1>2, ConfigAssumption DEF Parsed, OursIn, File, Damaged

LEMMA Fields ==
    \A c \in Content :
        /\ c.entries \subseteq Entry /\ c.keys \subseteq Keys \cup {"version"}
        /\ c.notify \in {"none", "birdybeep", "tool"}
        /\ Ours(c) = {e \in c.entries : e.ours # None}
  BY DEF Content, Ours, isBirdyBeepEntry, isBirdyBeepHookCommand

LEMMA NewEntries ==
    ASSUME NEW c \in Content, NEW E \in SUBSET Entry
    PROVE  /\ [c EXCEPT !.entries = E] \in Content
           /\ [c EXCEPT !.entries = E].entries = E
           /\ [c EXCEPT !.entries = E].keys = c.keys
           /\ [c EXCEPT !.entries = E].notify = c.notify
  BY DEF Content

LEMMA ItemsOf ==
    ASSUME NEW c \in Content, NEW x
    PROVE  x \in Items(c) <=>
               \/ \E k \in c.keys \cap Keys : x = <<"key", k>>
               \/ \E e \in c.entries : \E m \in e.mates : x = <<e.step, m>>
               \/ c.notify = "tool" /\ x = Tool
  <1>1. Parsed(c) = c /\ c # Garbled
    BY Forms
  <1>2. Items(c) = {<<"key", k>> : k \in c.keys \cap Keys}
                   \cup (UNION {{<<e.step, m>> : m \in e.mates} : e \in c.entries})
                   \cup (IF c.notify = "tool" THEN {<<"notify", "tool">>} ELSE {})
    BY <1>1 DEF Items
  <1>3. x \in Items(c) <=>
            \/ x \in {<<"key", k>> : k \in c.keys \cap Keys}
            \/ x \in UNION {{<<e.step, m>> : m \in e.mates} : e \in c.entries}
            \/ x \in IF c.notify = "tool" THEN {<<"notify", "tool">>} ELSE {}
    BY <1>2
  <1>4. x \in UNION {{<<e.step, m>> : m \in e.mates} : e \in c.entries}
          <=> \E e \in c.entries : \E m \in e.mates : x = <<e.step, m>>
    OBVIOUS
  <1>5. x \in {<<"key", k>> : k \in c.keys \cap Keys} <=> \E k \in c.keys \cap Keys : x = <<"key", k>>
    OBVIOUS
  <1>6. x \in (IF c.notify = "tool" THEN {<<"notify", "tool">>} ELSE {})
          <=> c.notify = "tool" /\ x = Tool
    BY DEF Tool
  <1> QED  BY <1>3, <1>4, <1>5, <1>6, Zenon

LEMMA NoItems ==
    /\ Items(Absent) = {} /\ Items(Empty) = {} /\ Items(Garbled) = {}
    /\ Items(Blankness) = {}
  <1>1. Blankness.entries = {} /\ Blankness.keys = {} /\ Blankness.notify = "none"
    BY DEF Blankness
  <1>2. \A x : x \notin Items(Blankness)
    BY <1>1, ItemsOf, Forms
  <1>3. Items(Absent) = Items(Blankness) /\ Items(Empty) = Items(Blankness)
    BY Forms DEF Items
  <1> QED  BY <1>2, <1>3 DEF Items

LEMMA ToolIsOne ==
    ASSUME NEW c \in Content PROVE Tool \in Items(c) <=> c.notify = "tool"
  <1>1. \A e \in c.entries : e.step \in Steps
    BY Fields DEF Entry
  <1> QED  BY <1>1, ItemsOf DEF Tool, Steps

\* The commands of the user stay beside their step.
Beside(c, d) ==
    \A e \in c.entries : \A m \in e.mates : \E f \in d.entries : f.step = e.step /\ m \in f.mates

LEMMA SameItems ==
    ASSUME NEW c \in Content, NEW d \in Content, Beside(c, d), Beside(d, c),
           c.keys \cap Keys = d.keys \cap Keys
    PROVE  /\ (c.notify = "tool" <=> d.notify = "tool") => Items(c) = Items(d)
           /\ c.notify # "tool" /\ d.notify = "tool" => Items(d) = Items(c) \cup {Tool}
  <1>1. \A x : (\E e \in c.entries : \E m \in e.mates : x = <<e.step, m>>) <=>
               (\E e \in d.entries : \E m \in e.mates : x = <<e.step, m>>)
    BY DEF Beside
  <1>2. \A x : x \in Items(c) /\ ~(c.notify = "tool" /\ x = Tool) => x \in Items(d)
    BY <1>1, ItemsOf
  <1>3. \A x : x \in Items(d) /\ ~(d.notify = "tool" /\ x = Tool) => x \in Items(c)
    BY <1>1, ItemsOf
  <1>4. /\ c.notify = "tool" => Tool \in Items(c)
        /\ d.notify = "tool" => Tool \in Items(d)
    BY ToolIsOne
  <1> QED  BY <1>2, <1>3, <1>4

-----------------------------------------------------------------------------
(* What an install makes of a file.                                        *)

\* D has of each step that h registers an entry of ours, if there is one.
First(h, c, D) ==
    /\ D \subseteq {e \in Ours(c) : e.step \in Registered(h)}
    /\ \A e \in Ours(c) : e.step \in Registered(h) => \E d \in D : d.step = e.step

LEMMA FirstsAre ==
    ASSUME NEW h, NEW f \in File, f # Garbled, NEW D \in Firsts(h, f)
    PROVE  First(h, Parsed(f), D)
  <1>1. OursIn(f) = Ours(Parsed(f))
    BY Forms
  <1> QED  BY <1>1 DEF First, Firsts

\* R is what is left of the entries of c when a repair has given cmd to the first of ours
\* of each step that h registers, and added those that were missing.
Repaired(h, c, cmd, R) ==
    /\ R \subseteq Entry
    /\ \A e \in R :
         \/ e \in c.entries
         \/ e.step \in Registered(h) /\ e.ours = cmd
            /\ (e.mates = {} \/ \E d \in Ours(c) : d.step = e.step /\ d.mates = e.mates)
    /\ \A d \in c.entries : \E e \in R : e.step = d.step /\ e.mates = d.mates
    /\ \A s \in Registered(h) : \E e \in R : e.step = s /\ e.ours = cmd

LEMMA StepsOf == \A h \in Harnesses : Registered(h) \subseteq Steps /\ Registered(h) # {}
  BY DEF Registered, Steps, Harnesses

LEMMA ManagedIs ==
    ASSUME NEW s \in Steps, NEW cmd \in Launchers
    PROVE  /\ Managed(s, cmd) \in Entry /\ Managed(s, cmd).step = s
           /\ Managed(s, cmd).ours = cmd /\ Managed(s, cmd).mates = {}
           /\ Managed(s, cmd).time = "managed"
  BY DEF Managed, Entry, Timeouts

\* Either way to repair an entry gives it the command and leaves its step and mates.
LEMMA RepairIs ==
    ASSUME NEW e \in Entry, NEW cmd \in Launchers
    PROVE  /\ repairEntryCommand(e, cmd) \in Entry
           /\ repairEntryCommand(e, cmd).step = e.step
           /\ repairEntryCommand(e, cmd).mates = e.mates
           /\ repairEntryCommand(e, cmd).ours = cmd
           /\ [e EXCEPT !.ours = cmd] \in Entry
           /\ [e EXCEPT !.ours = cmd].step = e.step
           /\ [e EXCEPT !.ours = cmd].mates = e.mates
           /\ [e EXCEPT !.ours = cmd].ours = cmd
  BY DEF repairEntryCommand, Entry, Timeouts

LEMMA RepairAll ==
    ASSUME NEW h \in Harnesses, NEW c \in Content, NEW cmd \in Launchers,
           NEW F \in [c.entries -> Entry], NEW R, NEW D, First(h, c, D),
           \A d \in c.entries :
               IF d \in D
               THEN F[d].step = d.step /\ F[d].mates = d.mates /\ F[d].ours = cmd
               ELSE F[d] = d,
           R = {F[d] : d \in c.entries} \cup {Managed(s, cmd) : s \in Missing(h, c)}
    PROVE  Repaired(h, c, cmd, R)
  <1>1. ASSUME NEW s \in Missing(h, c)
        PROVE  /\ s \in Registered(h) /\ Managed(s, cmd) \in Entry /\ Managed(s, cmd).step = s
               /\ Managed(s, cmd).ours = cmd /\ Managed(s, cmd).mates = {}
    BY ManagedIs, StepsOf DEF Missing
  <1>2. \A s \in Registered(h) : s \in Missing(h, c) \/ \E d \in D : d.step = s
    BY DEF Missing, First
  <1>8. \A d \in D : d \in c.entries /\ d \in Ours(c) /\ d.step \in Registered(h)
    BY Fields DEF First
  <1>3. \A x \in R : (\E d \in c.entries : x = F[d]) \/ (\E s \in Missing(h, c) : x = Managed(s, cmd))
    OBVIOUS
  <1>4. (\A d \in c.entries : F[d] \in R) /\ (\A s \in Missing(h, c) : Managed(s, cmd) \in R)
    OBVIOUS
  <1>5. ASSUME NEW e \in R
        PROVE  /\ e \in Entry
               /\ \/ e \in c.entries
                  \/ e.step \in Registered(h) /\ e.ours = cmd
                     /\ (e.mates = {} \/ \E d \in Ours(c) : d.step = e.step /\ d.mates = e.mates)
    <2>1. CASE \E d \in c.entries : e = F[d]
      BY <1>8, <2>1, Fields
    <2>2. CASE \E s \in Missing(h, c) : e = Managed(s, cmd)
      BY <1>1, <2>2
    <2> QED  BY <1>3, <2>1, <2>2
  <1>6. \A d \in c.entries : \E e \in R : e.step = d.step /\ e.mates = d.mates
    BY <1>4
  <1>7. ASSUME NEW s \in Registered(h) PROVE \E e \in R : e.step = s /\ e.ours = cmd
    BY <1>1, <1>2, <1>4, <1>8
  <1> QED  BY <1>5, <1>6, <1>7 DEF Repaired

LEMMA RepairEntries ==
    ASSUME NEW h \in Harnesses, NEW c \in Content, NEW cmd \in Launchers, NEW D, First(h, c, D)
    PROVE  Repaired(h, c, cmd, RepairedOrAdded(h, c, D, cmd, repairEntryCommand))
  <1> DEFINE F == [e \in c.entries |-> IF e \in D THEN repairEntryCommand(e, cmd) ELSE e]
             R == RepairedOrAdded(h, c, D, cmd, repairEntryCommand)
  <1>1. \A d \in c.entries : d \in Entry
    BY Fields
  <1>2. \A d \in c.entries :
          /\ repairEntryCommand(d, cmd) \in Entry /\ repairEntryCommand(d, cmd).step = d.step
          /\ repairEntryCommand(d, cmd).mates = d.mates /\ repairEntryCommand(d, cmd).ours = cmd
    BY <1>1, RepairIs
  <1>3. F \in [c.entries -> Entry]
    BY <1>1, <1>2
  <1>4. R = {F[e] : e \in c.entries} \cup {Managed(s, cmd) : s \in Missing(h, c)}
    BY DEF RepairedOrAdded
  <1>5. ASSUME NEW d \in c.entries
        PROVE  IF d \in D
               THEN F[d].step = d.step /\ F[d].mates = d.mates /\ F[d].ours = cmd
               ELSE F[d] = d
    BY <1>1, <1>2
  <1> QED  BY <1>3, <1>4, <1>5, RepairAll

LEMMA CursorEntries ==
    ASSUME NEW c \in Content, NEW cmd \in Launchers, NEW D, First("cursor", c, D)
    PROVE  \E R : /\ Repaired("cursor", c, cmd, R)
                  /\ mergeCursor(c, D, cmd) =
                       [c EXCEPT !.entries = {e \in R : ~(e.step = "retired" /\ isBirdyBeepEntry(e))},
                                 !.keys = @ \cup {"version"}]
  <1> DEFINE F == [e \in c.entries |-> IF e \in D THEN [e EXCEPT !.ours = cmd] ELSE e]
             R == {F[e] : e \in c.entries} \cup {Managed(s, cmd) : s \in Missing("cursor", c)}
  <1>1. \A d \in c.entries : d \in Entry
    BY Fields
  <1>2. \A d \in c.entries :
          /\ [d EXCEPT !.ours = cmd] \in Entry /\ [d EXCEPT !.ours = cmd].step = d.step
          /\ [d EXCEPT !.ours = cmd].mates = d.mates /\ [d EXCEPT !.ours = cmd].ours = cmd
    BY <1>1, RepairIs
  <1>3. F \in [c.entries -> Entry]
    BY <1>1, <1>2
  <1>4. mergeCursor(c, D, cmd) =
          [c EXCEPT !.entries = {e \in R : ~(e.step = "retired" /\ isBirdyBeepEntry(e))},
                    !.keys = @ \cup {"version"}]
    BY DEF mergeCursor, RepairedOrAdded
  <1>5. ASSUME NEW d \in c.entries
        PROVE  IF d \in D
               THEN F[d].step = d.step /\ F[d].mates = d.mates /\ F[d].ours = cmd
               ELSE F[d] = d
    BY <1>1, <1>2
  <1>6. Repaired("cursor", c, cmd, R)
    BY <1>3, <1>5, RepairAll DEF Harnesses
  <1> QED  BY <1>4, <1>6

\* What a merge for h makes of c.
Merged(h, c, d, cmd) ==
    /\ d \in Content /\ FileOK(h, d) /\ d.notify # "birdybeep"
    /\ Missing(h, d) = {}
    /\ h # "opencode" => \A s \in Registered(h) : \E e \in Ours(d) : e.step = s /\ e.ours = cmd
    /\ Beside(c, d) /\ Beside(d, c) /\ c.keys \cap Keys = d.keys \cap Keys

LEMMA OwnForm ==
    ASSUME NEW h \in Harnesses, NEW f \in File, f # Garbled, FileOK(h, f)
    PROVE  /\ Parsed(f) \in Content /\ Ours(Parsed(f)) = OursIn(f) /\ FileOK(h, Parsed(f))
           /\ h # "codex" => Parsed(f).notify # "birdybeep"
  <1>1. Parsed(f) \in Content /\ OursIn(f) = Ours(Parsed(f))
    BY Forms
  <1>2. f \in Content \/ f \in {Absent, Empty}
    BY DEF File
  <1>3. f \in {Absent, Empty} => Parsed(f).notify = "none"
    BY Forms DEF Blankness
  <1> QED  BY <1>1, <1>2, <1>3, Forms DEF FileOK

LEMMA MergedEntries ==
    ASSUME NEW h \in {"claude", "codex"}, NEW c \in Content, FileOK(h, c),
           NEW cmd \in Launchers, NEW R, Repaired(h, c, cmd, R), NEW d \in Content,
           d.entries = R, d.keys = c.keys, d.notify # "birdybeep"
    PROVE  Merged(h, c, d, cmd)
  <1>1. \A e \in Ours(c) : EntryOK(h, e)
    BY Forms DEF FileOK
  <1>2. ASSUME NEW e \in Ours(d) PROVE EntryOK(h, e)
    <2>1. e \in R /\ e.ours # None
      BY Fields
    <2>2. e \in c.entries => e \in Ours(c)
      BY <2>1, Fields
    <2> QED  BY <1>1, <2>1, <2>2 DEF Repaired, EntryOK
  <1>3. \A s \in Registered(h) : \E e \in Ours(d) : e.step = s /\ e.ours = cmd
    BY Fields, ConfigAssumption DEF Repaired
  <1>4. Beside(c, d)
    BY DEF Beside, Repaired
  <1>5. Beside(d, c)
    BY Fields DEF Beside, Repaired
  <1>6. FileOK(h, d)
    BY <1>2, Forms DEF FileOK
  <1>7. Missing(h, d) = {}
    BY <1>3 DEF Missing
  <1> QED  BY <1>3, <1>4, <1>5, <1>6, <1>7 DEF Merged

LEMMA MergedClaude ==
    ASSUME NEW c \in Content, FileOK("claude", c), NEW cmd \in Launchers,
           NEW D, First("claude", c, D)
    PROVE  /\ Merged("claude", c, mergeClaude(c, D, cmd), cmd)
           /\ mergeClaude(c, D, cmd).notify = c.notify
  <1> DEFINE R == RepairedOrAdded("claude", c, D, cmd, repairEntryCommand)
  <1>1. Repaired("claude", c, cmd, R)
    BY RepairEntries DEF Harnesses
  <1>2. R \in SUBSET Entry
    BY <1>1 DEF Repaired
  <1>3. mergeClaude(c, D, cmd) = [c EXCEPT !.entries = R]
    BY DEF mergeClaude
  <1> HIDE DEF R
  <1>4. c.notify # "birdybeep"
    BY DEF FileOK
  <1>5. PICK d : d = mergeClaude(c, D, cmd)
    OBVIOUS
  <1>6. d \in Content /\ d.entries = R /\ d.keys = c.keys /\ d.notify = c.notify
    BY <1>2, <1>3, <1>5, NewEntries
  <1>7. Merged("claude", c, d, cmd)
    BY <1>1, <1>4, <1>6, MergedEntries
  <1> QED  BY <1>5, <1>6, <1>7

LEMMA Notify ==
    ASSUME NEW c \in Content, NEW b \in File
    PROVE  /\ restoredNotify(c, b) \in {"none", "tool"}
           /\ restoredNotify(c, b) = "tool" <=>
                 \/ c.notify = "tool"
                 \/ c.notify = "birdybeep" /\ b # Garbled /\ Parsed(b).notify = "tool"
  <1>1. b # Garbled => Parsed(b).notify \in {"none", "birdybeep", "tool"}
    BY Forms, Fields
  <1>2. c.notify \in {"none", "birdybeep", "tool"}
    BY Fields
  <1>3. CASE c.notify # "birdybeep"
    BY <1>2, <1>3 DEF restoredNotify
  <1>4. CASE c.notify = "birdybeep" /\ b # Garbled /\ Parsed(b).notify # "birdybeep"
    BY <1>1, <1>4 DEF restoredNotify
  <1>5. CASE c.notify = "birdybeep" /\ ~(b # Garbled /\ Parsed(b).notify # "birdybeep")
    BY <1>1, <1>5 DEF restoredNotify
  <1> QED  BY <1>3, <1>4, <1>5

LEMMA MergedCodex ==
    ASSUME NEW c \in Content, FileOK("codex", c), NEW b \in File, NEW cmd \in Launchers,
           NEW D, First("codex", c, D)
    PROVE  /\ Merged("codex", c, mergeCodexConfig(c, b, D, cmd), cmd)
           /\ mergeCodexConfig(c, b, D, cmd).notify = restoredNotify(c, b)
  <1> DEFINE R == RepairedOrAdded("codex", c, D, cmd, repairEntryCommand)
             d == mergeCodexConfig(c, b, D, cmd)
  <1>1. Repaired("codex", c, cmd, R)
    BY RepairEntries DEF Harnesses
  <1>2. R \in SUBSET Entry
    BY <1>1 DEF Repaired
  <1>3. d = [c EXCEPT !.entries = R, !.notify = restoredNotify(c, b)]
    BY DEF mergeCodexConfig
  <1>4. restoredNotify(c, b) \in {"none", "tool"}
    BY Notify
  <1> HIDE DEF R, d
  <1>5. /\ d \in Content /\ d.entries = R /\ d.keys = c.keys /\ d.notify = restoredNotify(c, b)
    BY <1>2, <1>3, <1>4 DEF Content
  <1>6. Merged("codex", c, d, cmd)
    BY <1>1, <1>4, <1>5, MergedEntries
  <1> QED  BY <1>5, <1>6 DEF d

LEMMA MergedCursor ==
    ASSUME NEW c \in Content, FileOK("cursor", c), NEW cmd \in Launchers,
           NEW D, First("cursor", c, D)
    PROVE  /\ Merged("cursor", c, mergeCursor(c, D, cmd), cmd)
           /\ mergeCursor(c, D, cmd).notify = c.notify
  <1>1. PICK R : /\ Repaired("cursor", c, cmd, R)
                 /\ mergeCursor(c, D, cmd) =
                      [c EXCEPT !.entries = {e \in R : ~(e.step = "retired" /\ isBirdyBeepEntry(e))},
                                !.keys = @ \cup {"version"}]
    BY CursorEntries
  <1>2. PICK E : E = {e \in R : ~(e.step = "retired" /\ isBirdyBeepEntry(e))}
    OBVIOUS
  <1>3. E = {e \in R : ~(e.step = "retired" /\ e.ours # None)}
    BY <1>2 DEF isBirdyBeepEntry, isBirdyBeepHookCommand
  <1>4. PICK d : d = mergeCursor(c, D, cmd)
    OBVIOUS
  <1>5. E \subseteq Entry /\ c.notify # "birdybeep"
    BY <1>1, <1>3 DEF Repaired, FileOK
  <1>6. /\ d \in Content /\ d.entries = E /\ d.keys = c.keys \cup {"version"} /\ d.notify = c.notify
    BY <1>1, <1>2, <1>4, <1>5 DEF Content
  <1>7. \A e \in Ours(c) : e.step \in Registered("cursor") \cup {"retired"} /\ e.mates = {}
    BY Forms DEF FileOK, EntryOK
  <1>8. ASSUME NEW e \in Ours(d)
        PROVE  e.step \in Registered("cursor") /\ e.mates = {}
    <2>1. e \in R /\ e.ours # None /\ e.step # "retired"
      BY <1>3, <1>6, Fields
    <2>2. e \notin c.entries \/ e \in Ours(c)
      BY <2>1, Fields
    <2> QED  BY <1>1, <1>7, <2>1, <2>2 DEF Repaired
  <1>9. /\ \A s \in Registered("cursor") : \E e \in Ours(d) : e.step = s /\ e.ours = cmd
        /\ Missing("cursor", d) = {}
    <2>1. ASSUME NEW s \in Registered("cursor") PROVE \E e \in Ours(d) : e.step = s /\ e.ours = cmd
      <3>1. PICK e \in R : e.step = s /\ e.ours = cmd
        BY <1>1 DEF Repaired
      <3>2. s # "retired" /\ cmd # None
        BY ConfigAssumption DEF Registered
      <3> QED  BY <1>3, <1>6, <3>1, <3>2, Fields
    <2> QED  BY <2>1 DEF Missing
  <1>10. Beside(c, d)
    <2>1. ASSUME NEW e \in c.entries, NEW m \in e.mates
          PROVE  \E f \in d.entries : f.step = e.step /\ m \in f.mates
      <3>1. PICK f \in R : f.step = e.step /\ f.mates = e.mates
        BY <1>1 DEF Repaired
      <3>2. f \in E
        <4>1. f.ours # None /\ f.step = "retired" => f \in Ours(c)
          BY <1>1, Fields DEF Repaired, Registered
        <4> QED  BY <1>3, <1>7, <3>1, <4>1
      <3> QED  BY <1>6, <3>1, <3>2
    <2> QED  BY <2>1 DEF Beside
  <1>11. Beside(d, c)
    BY <1>1, <1>3, <1>6, Fields DEF Beside, Repaired
  <1>12. FileOK("cursor", d)
    BY <1>5, <1>6, <1>8, Forms DEF FileOK, EntryOK
  <1>13. c.keys \cap Keys = d.keys \cap Keys
    BY <1>6, ConfigAssumption
  <1>14. Merged("cursor", c, d, cmd)
    BY <1>5, <1>6, <1>8, <1>9, <1>10, <1>11, <1>12, <1>13 DEF Merged
  <1> QED  BY <1>4, <1>6, <1>14

LEMMA MergedOpenCode ==
    ASSUME NEW c \in Content, FileOK("opencode", c), NEW cmd
    PROVE  /\ Merged("opencode", c, mergeOpenCodeConfig(c), cmd)
           /\ mergeOpenCodeConfig(c).notify = c.notify
           /\ Ours(c) # {} => mergeOpenCodeConfig(c) = c
  <1> DEFINE p == Managed("plugin", Bare)
  <1>1. p \in Entry /\ p.step = "plugin" /\ p.ours # None /\ p.mates = {}
    BY ManagedIs, ConfigAssumption DEF Steps
  <1>2. Registered("opencode") = {"plugin"} /\ c.notify # "birdybeep"
    BY DEF Registered, FileOK
  <1>3. \A e \in Ours(c) : e = p
    BY Forms DEF FileOK, EntryOK
  <1>4. PICK d : d = mergeOpenCodeConfig(c)
    OBVIOUS
  <1> HIDE DEF p
  <1>5. Ours(c) # {} => Missing("opencode", c) = {}
    BY <1>1, <1>2, <1>3 DEF Missing
  <1>6. CASE Missing("opencode", c) = {}
    <2>1. d = c
      BY <1>4, <1>6 DEF mergeOpenCodeConfig
    <2>2. Beside(c, c)
      BY DEF Beside
    <2> QED  BY <1>2, <1>4, <1>6, <2>1, <2>2 DEF Merged
  <1>7. CASE Missing("opencode", c) # {}
    <2>1. d = [c EXCEPT !.entries = c.entries \cup {p}]
      BY <1>4, <1>7 DEF mergeOpenCodeConfig, p
    <2>2. c.entries \cup {p} \in SUBSET Entry
      BY <1>1, Fields
    <2>3. /\ d \in Content /\ d.entries = c.entries \cup {p} /\ d.keys = c.keys
          /\ d.notify = c.notify
      BY <2>1, <2>2, NewEntries
    <2>4. p \in Ours(d) /\ \A e \in Ours(d) : e = p
      BY <1>1, <1>3, <2>3, Fields
    <2>5. Missing("opencode", d) = {}
      BY <1>1, <1>2, <2>4 DEF Missing
    <2>6. Beside(c, d) /\ Beside(d, c)
      BY <1>1, <2>3 DEF Beside
    <2>7. FileOK("opencode", d)
      BY <1>1, <1>2, <2>3, <2>4, Forms DEF FileOK, EntryOK, p
    <2>8. Merged("opencode", c, d, cmd)
      BY <1>2, <2>3, <2>5, <2>6, <2>7 DEF Merged
    <2> QED  BY <1>4, <1>5, <1>7, <2>3, <2>8
  <1> QED  BY <1>6, <1>7

LEMMA Generated ==
    ASSUME NEW cmd \in Launchers, NEW f, f = generatedCopilotHooks(cmd)
    PROVE  /\ f \in Content /\ FileOK("copilot", f) /\ f.notify = "none"
           /\ isCopilotHooksWithTimeout(f, "managed")
           /\ Missing("copilot", f) = {} /\ \A e \in Ours(f) : e.ours = cmd
  <1> DEFINE a == Managed("start", cmd)
             b == Managed("stop", cmd)
  <1>1. /\ a \in Entry /\ a.step = "start" /\ a.ours = cmd /\ a.mates = {} /\ a.time = "managed"
        /\ b \in Entry /\ b.step = "stop" /\ b.ours = cmd /\ b.mates = {} /\ b.time = "managed"
    BY ManagedIs DEF Steps
  <1>2. Registered("copilot") = {"start", "stop"} /\ cmd # None
    BY ConfigAssumption DEF Registered
  <1>3. {Managed(s, cmd) : s \in Registered("copilot")} = {a, b}
    BY <1>2
  <1>4. f = [Blankness EXCEPT !.entries = {a, b}, !.keys = {"version"}]
    BY <1>3 DEF generatedCopilotHooks
  <1> HIDE DEF a, b
  <1>5. f \in Content /\ f.entries = {a, b} /\ f.keys = {"version"} /\ f.notify = "none"
    BY <1>1, <1>4, ZenonT(60) DEF Blankness, Content
  <1>6. Ours(f) = {a, b}
    BY <1>1, <1>2, <1>5, Fields
  <1>7. Missing("copilot", f) = {}
    BY <1>1, <1>2, <1>6 DEF Missing
  <1>8. Cardinality({a, b}) = 2 /\ Cardinality({"start", "stop"}) = 2
    <2>1. ASSUME NEW x, NEW y, x # y PROVE Cardinality({x, y}) = 2
      <3>1. IsFiniteSet({x}) /\ Cardinality({x}) = 1
        BY FS_Singleton
      <3>2. Cardinality({x} \cup {y}) = 2
        BY <2>1, <3>1, FS_AddElement
      <3>3. {x} \cup {y} = {x, y}
        OBVIOUS
      <3> QED  BY <3>2, <3>3
    <2> QED  BY <1>1, <2>1
  <1>9. {e.step : e \in f.entries} = {"start", "stop"}
    BY <1>1, <1>5
  <1>10. isCopilotHooksWithTimeout(f, "managed")
    BY <1>1, <1>2, <1>5, <1>8, <1>9, Forms
       DEF isCopilotHooksWithTimeout, isBirdyBeepEntry, isBirdyBeepHookCommand
  <1>11. FileOK("copilot", f)
    BY <1>1, <1>2, <1>5, <1>6, Forms DEF FileOK, EntryOK
  <1> QED  BY <1>1, <1>5, <1>6, <1>7, <1>10, <1>11

\* A file that is wholly ours holds nothing of the user.
LEMMA WhollyOurs ==
    ASSUME NEW f \in File, isManagedCopilotHooks(f)
    PROVE  f \in Content /\ Items(f) = {}
  <1>1. PICK time : isCopilotHooksWithTimeout(f, time)
    BY DEF isManagedCopilotHooks
  <1>2. /\ f \in Content /\ f.keys = {"version"} /\ f.notify = "none"
        /\ \A e \in f.entries : e.mates = {}
    BY <1>1 DEF isCopilotHooksWithTimeout, File
  <1>3. \A x : x \notin Items(f)
    BY <1>2, ItemsOf, ConfigAssumption
  <1> QED  BY <1>2, <1>3

-----------------------------------------------------------------------------
(* What an uninstall makes of a file.                                      *)

Stripped(h, c, d) ==
    /\ d \in Content /\ FileOK(h, d)
    /\ \A e \in d.entries : e.ours = None
    /\ Beside(c, d) /\ Beside(d, c) /\ c.keys \cap Keys = d.keys \cap Keys

LEMMA StrippedForm ==
    ASSUME NEW h, NEW c \in Content, NEW d \in Content, d.keys = c.keys,
           d.notify = "birdybeep" => h = "codex",
           \A e \in d.entries : e.ours = None, Beside(c, d), Beside(d, c)
    PROVE  Stripped(h, c, d)
  <1>1. OursIn(d) = {}
    BY Forms, Fields
  <1> QED  BY <1>1, Forms DEF Stripped, FileOK

LEMMA StrippedEntries ==
    ASSUME NEW c \in Content, NEW d, d = removeBirdyBeepHooks(c)
    PROVE  /\ d \in Content /\ d.keys = c.keys /\ d.notify = c.notify
           /\ \A e \in d.entries : e.ours = None
           /\ Beside(c, d) /\ Beside(d, c)
  <1>1. PICK E : E = UNION {stripBirdyBeepFromEntry(e) : e \in c.entries}
    OBVIOUS
  <1>2. ASSUME NEW e \in c.entries, NEW x \in stripBirdyBeepFromEntry(e)
        PROVE  x \in Entry /\ x.ours = None /\ x.step = e.step /\ x.mates = e.mates
    <2>1. e \in Entry
      BY Fields
    <2>2. CASE ~isBirdyBeepEntry(e)
      BY <1>2, <2>1, <2>2 DEF stripBirdyBeepFromEntry, isBirdyBeepEntry, isBirdyBeepHookCommand
    <2>3. CASE isBirdyBeepEntry(e)
      <3>1. x = [e EXCEPT !.ours = None, !.time = "managed"]
        BY <1>2, <2>3 DEF stripBirdyBeepFromEntry
      <3> QED  BY <2>1, <3>1 DEF Entry, Timeouts
    <2> QED  BY <2>2, <2>3
  <1>3. \A x : x \in E <=> \E e \in c.entries : x \in stripBirdyBeepFromEntry(e)
    BY <1>1
  <1>4. ASSUME NEW e \in c.entries, e.mates # {}
        PROVE  \E x : x \in stripBirdyBeepFromEntry(e)
    BY <1>4 DEF stripBirdyBeepFromEntry
  <1>5. ASSUME NEW e \in c.entries, e.mates # {}
        PROVE  \E f \in E : f.step = e.step /\ f.mates = e.mates
    BY <1>2, <1>3, <1>4, <1>5
  <1>6. ASSUME NEW f \in E
        PROVE  \E e \in c.entries : f.step = e.step /\ f.mates = e.mates
    BY <1>2, <1>3
  <1>7. E \in SUBSET Entry /\ \A e \in E : e.ours = None
    BY <1>2, <1>3
  <1>8. d = [c EXCEPT !.entries = E]
    BY <1>1 DEF removeBirdyBeepHooks
  <1>9. d \in Content /\ d.entries = E /\ d.keys = c.keys /\ d.notify = c.notify
    BY <1>7, <1>8, NewEntries
  <1>10. Beside(c, d) /\ Beside(d, c)
    BY <1>5, <1>6, <1>9 DEF Beside
  <1> QED  BY <1>7, <1>9, <1>10

LEMMA StrippedClaude ==
    ASSUME NEW c \in Content, FileOK("claude", c)
    PROVE  /\ Stripped("claude", c, removeBirdyBeepHooks(c))
           /\ removeBirdyBeepHooks(c).notify = c.notify
  BY StrippedEntries, StrippedForm DEF FileOK

LEMMA StrippedCodex ==
    ASSUME NEW c \in Content, NEW b \in File
    PROVE  /\ Stripped("codex", c, removeBirdyBeepConfig(c, b))
           /\ removeBirdyBeepConfig(c, b).notify = restoredNotify(c, b)
  <1>1. PICK r : r = removeBirdyBeepHooks(c)
    OBVIOUS
  <1>2. PICK d : d = removeBirdyBeepConfig(c, b)
    OBVIOUS
  <1>3. d = [r EXCEPT !.notify = restoredNotify(c, b)]
    BY <1>1, <1>2 DEF removeBirdyBeepConfig
  <1>4. /\ r \in Content /\ r.keys = c.keys /\ \A e \in r.entries : e.ours = None
        /\ Beside(c, r) /\ Beside(r, c) /\ restoredNotify(c, b) \in {"none", "tool"}
    BY <1>1, StrippedEntries, Notify
  <1>5. /\ d \in Content /\ d.entries = r.entries /\ d.keys = c.keys
        /\ d.notify = restoredNotify(c, b)
    BY <1>3, <1>4 DEF Content
  <1>6. Beside(c, d) /\ Beside(d, c)
    BY <1>4, <1>5 DEF Beside
  <1>7. \A e \in d.entries : e.ours = None
    BY <1>4, <1>5
  <1> QED  BY <1>2, <1>5, <1>6, <1>7, StrippedForm

LEMMA StrippedCursor ==
    ASSUME NEW c \in Content, FileOK("cursor", c)
    PROVE  /\ Stripped("cursor", c, removeCursorHooks(c))
           /\ removeCursorHooks(c).notify = c.notify
  <1>1. PICK d : d = removeCursorHooks(c)
    OBVIOUS
  <1>2. d = [c EXCEPT !.entries = c.entries \ Ours(c)]
    BY <1>1 DEF removeCursorHooks
  <1>3. c.entries \ Ours(c) \in SUBSET Entry
    BY Fields
  <1>4. /\ d \in Content /\ d.entries = c.entries \ Ours(c) /\ d.keys = c.keys
        /\ d.notify = c.notify
    BY <1>2, <1>3, NewEntries
  <1>5. \A e \in Ours(c) : e.mates = {}
    BY Forms DEF FileOK, EntryOK
  <1>6. Beside(c, d) /\ Beside(d, c)
    BY <1>4, <1>5 DEF Beside
  <1>7. \A e \in d.entries : e.ours = None
    BY <1>4, Fields
  <1> QED  BY <1>1, <1>4, <1>6, <1>7, StrippedForm DEF FileOK

LEMMA StrippedOpenCode ==
    ASSUME NEW c \in Content, FileOK("opencode", c)
    PROVE  /\ Stripped("opencode", c, removeBirdyBeepPlugin(c))
           /\ removeBirdyBeepPlugin(c).notify = c.notify
  <1>1. PICK d : d = removeBirdyBeepPlugin(c)
    OBVIOUS
  <1>2. PICK p : p = Managed("plugin", Bare)
    OBVIOUS
  <1>3. d = [c EXCEPT !.entries = c.entries \ {p}]
    BY <1>1, <1>2 DEF removeBirdyBeepPlugin
  <1>4. c.entries \ {p} \in SUBSET Entry
    BY Fields
  <1>5. /\ d \in Content /\ d.entries = c.entries \ {p} /\ d.keys = c.keys /\ d.notify = c.notify
    BY <1>3, <1>4, NewEntries
  <1>6. \A e \in Ours(c) : e = p
    BY <1>2, Forms DEF FileOK, EntryOK
  <1>7. p.mates = {}
    BY <1>2, ManagedIs, ConfigAssumption DEF Steps
  <1>8. Beside(c, d) /\ Beside(d, c)
    BY <1>5, <1>7 DEF Beside
  <1>9. \A e \in d.entries : e.ours = None
    BY <1>5, <1>6, Fields
  <1> QED  BY <1>1, <1>5, <1>8, <1>9, StrippedForm DEF FileOK

-----------------------------------------------------------------------------
(* What an operation sets out to do.                                       *)

\* When an operation that overwrites makes a copy, and whose; Due says of what.
CopyFacts(o) ==
    /\ "write" \in Pending(o) => "truncate" \in Pending(o)
    /\ "truncate" \in Pending(o) /\ Pending(o) \cap Copies = {} =>
         \/ cfg = Absent
         \/ o.result = "removed"
         \/ harness = "codex" /\ backup = cfg
         \/ harness # "codex" /\ backup # Absent
         \/ harness = "copilot" /\ isManagedCopilotHooks(cfg)
    /\ Pending(o) \cap Copies # {} =>
         /\ cfg # Absent /\ o.result = "installed" /\ (backup = Absent \/ harness = "codex")
         /\ ~(harness = "copilot" /\ isManagedCopilotHooks(cfg))
    /\ harness # "copilot" /\ o.result = "removed" /\ "dropBackup" \in Pending(o) =>
         "truncate" \in Pending(o)
    /\ harness = "copilot" =>
         /\ o.result = "removed" /\ "truncate" \in Pending(o) => backup # Absent
         /\ "remove" \in Pending(o) =>
              /\ "truncate" \notin Pending(o) /\ isManagedCopilotHooks(cfg)
              /\ backup = Absent \/ isManagedCopilotHooks(backup)
         /\ "dropBackup" \in Pending(o) =>
              /\ backup # Absent
              /\ IF "write" \in Pending(o) THEN o.draft = backup
                 ELSE "truncate" \notin Pending(o) /\ isManagedCopilotHooks(backup)

GoodPlan(o) ==
    /\ OpOK(o)
    /\ harness # "copilot" /\ {"raced", "blind"} \cap tainted = {}
       /\ ~(o.result = "installed" /\ cfg = Empty) => ContentPlan(o)
    /\ CopyFacts(o)
    /\ RemovedPlan(o)
    /\ harness \in Marked => MarkerPlan(o)
    /\ InstalledPlan(o)

LEMMA PlanIs ==
    ASSUME NEW r, NEW t, NEW d
    PROVE  /\ Plan(r, t, d).result = r /\ Plan(r, t, d).todo = t /\ Plan(r, t, d).draft = d
           /\ Plan(r, t, d) = Plan(Plan(r, t, d).result, Plan(r, t, d).todo, Plan(r, t, d).draft)
           /\ Rest(r) = Plan(r, <<>>, Absent)
  BY DEF Plan, Rest

LEMMA PlainFile == ASSUME NEW h PROVE FileOK(h, Absent) /\ FileOK(h, Empty) /\ FileOK(h, Garbled)
  BY Forms DEF FileOK, File

LEMMA RestIsGood ==
    ASSUME NEW r \in {"none", "error", "unchanged"} PROVE GoodPlan(Rest(r))
  <1>1. PICK o : o = Rest(r)
    OBVIOUS
  <1>2. /\ o = Plan(o.result, o.todo, o.draft) /\ o.result = r /\ o.todo = <<>>
        /\ o.draft = Absent
    BY <1>1, PlanIs
  <1>3. Pending(o) = {} /\ InOrder(r, o.todo)
    BY <1>2, NoEffect DEF Pending
  <1>4. OpOK(o)
    BY <1>2, <1>3, PlainFile DEF OpOK, Results
  <1>5. ContentPlan(o) /\ CopyFacts(o) /\ RemovedPlan(o) /\ MarkerPlan(o) /\ InstalledPlan(o)
    BY <1>2, <1>3 DEF ContentPlan, CopyFacts, RemovedPlan, MarkerPlan, InstalledPlan
  <1> QED  BY <1>1, <1>4, <1>5 DEF GoodPlan

LEMMA Resting == ~Busy => Pending(op) = {}
  BY NoEffect DEF Busy, Pending

\* A rewriting that keeps the user's keys and commands, and gives the notify slot back.
LEMMA KeptMine ==
    ASSUME FormInv, ContentInv, harness # "copilot", {"raced", "blind"} \cap tainted = {},
           cfg \notin Damaged, NEW c, c = Parsed(cfg), NEW d \in Content,
           Beside(c, d), Beside(d, c), c.keys \cap Keys = d.keys \cap Keys,
           d.notify = restoredNotify(c, backup)
    PROVE  Items(d) = mine /\ Displaced(d) = {}
  <1>1. c \in Content /\ backup \in File /\ Parsed(c) = c /\ Parsed(d) = d
    BY Forms DEF FormInv, FileOK, Damaged
  <1>2. Items(cfg) = Items(c) /\ Displaced(cfg) = Displaced(c)
    BY <1>1, Forms DEF Items, Displaced, Damaged
  <1>3. /\ Items(c) = mine \ Displaced(c)
        /\ Displaced(c) # {} => (Tool \in mine <=> backup # Garbled /\ Parsed(backup).notify = "tool")
    BY <1>2 DEF ContentInv
  <1>4. /\ d.notify \in {"none", "tool"}
        /\ d.notify = "tool" <=>
              \/ c.notify = "tool"
              \/ c.notify = "birdybeep" /\ backup # Garbled /\ Parsed(backup).notify = "tool"
    BY <1>1, Notify
  <1>5. Displaced(d) = {} /\ Displaced(c) = IF c.notify = "birdybeep" THEN {Tool} ELSE {}
    BY <1>1, <1>4 DEF Displaced
  <1>6. /\ (c.notify = "tool" <=> d.notify = "tool") => Items(c) = Items(d)
        /\ c.notify # "tool" /\ d.notify = "tool" => Items(d) = Items(c) \cup {Tool}
    BY <1>1, SameItems
  <1>7. CASE c.notify = "birdybeep"
    <2>1. Tool \in mine <=> d.notify = "tool"
      BY <1>3, <1>4, <1>5, <1>7
    <2> QED  BY <1>3, <1>5, <1>6, <1>7, <2>1
  <1>8. CASE c.notify # "birdybeep"
    BY <1>3, <1>4, <1>5, <1>6, <1>8
  <1> QED  BY <1>5, <1>7, <1>8

\* An install that rewrites the file.
LEMMA RewriteIsGood ==
    ASSUME FormInv, ContentInv, MarkerInv, ~Busy, harness # "copilot", cfg # Garbled,
           NEW c, c = Parsed(cfg), NEW d, Merged(harness, c, d, cli),
           d.notify = restoredNotify(c, backup),
           NEW t, InOrder("installed", t), Range(t) \subseteq Allowed(harness, "installed"),
           {"truncate", "write"} \subseteq Range(t),
           "backup" \in Range(t) => cfg # Absent /\ backup = Absent,
           "date" \in Range(t) => cfg # Absent /\ harness = "codex",
           Range(t) \cap Copies = {} => cfg = Absent \/ (backup # Absent /\ (harness = "codex" => backup = cfg)),
           harness \in Marked /\ "clearSeen" \notin Range(t) => Ours(c) = {},
           harness = "opencode" => "setLauncher" \in Range(t)
    PROVE  GoodPlan(Plan("installed", t, d))
  <1>1. PICK o : o = Plan("installed", t, d)
    OBVIOUS
  <1>2. /\ o = Plan(o.result, o.todo, o.draft) /\ o.result = "installed" /\ o.todo = t
        /\ o.draft = d /\ Pending(o) = Range(t)
    BY <1>1, PlanIs DEF Pending
  <1>3. c \in Content /\ OursIn(cfg) = Ours(c) /\ d \in Content /\ FileOK(harness, d)
    BY Forms DEF FormInv, FileOK, Merged
  <1>4. OpOK(o)
    BY <1>2, <1>3 DEF OpOK, Results, Copies
  <1>5. ASSUME {"raced", "blind"} \cap tainted = {}, cfg # Empty PROVE ContentPlan(o)
    <2>1. Items(d) = mine /\ Displaced(d) = {}
      BY <1>3, <1>5, KeptMine DEF Merged, Damaged
    <2>2. "remove" \notin Pending(o)
      BY <1>2 DEF Allowed
    <2> QED  BY <1>2, <1>3, <2>1, <2>2, Forms DEF ContentPlan
  <1>6. CopyFacts(o)
    <2>1. "remove" \notin Pending(o) /\ "dropBackup" \notin Pending(o)
      BY <1>2 DEF Allowed
    <2> QED  BY <1>2, <2>1 DEF CopyFacts, Copies
  <1>7. RemovedPlan(o)
    BY <1>2 DEF RemovedPlan
  <1>8. harness \in Marked => MarkerPlan(o)
    BY <1>2, <1>3, Resting DEF MarkerInv, MarkerPlan, Vouched
  <1>9. InstalledPlan(o)
    BY <1>2, <1>3 DEF InstalledPlan, Healed, Merged
  <1> QED  BY <1>1, <1>2, <1>4, <1>5, <1>6, <1>7, <1>8, <1>9 DEF GoodPlan

\* An install that finds the file as it would write it.
LEMMA KeepIsGood ==
    ASSUME FormInv, harness # "copilot", cfg # Garbled,
           Merged(harness, Parsed(cfg), Parsed(cfg), cli),
           NEW t, InOrder("installed", t), Range(t) \subseteq {"setLauncher"},
           NEW d, FileOK(harness, d), harness = "opencode" <=> "setLauncher" \in Range(t)
    PROVE  GoodPlan(Plan("installed", t, d))
  <1>1. PICK o : o = Plan("installed", t, d)
    OBVIOUS
  <1>2. /\ o = Plan(o.result, o.todo, o.draft) /\ o.result = "installed" /\ o.todo = t
        /\ o.draft = d /\ Pending(o) = Range(t)
    BY <1>1, PlanIs DEF Pending
  <1>3. cfg \in Content /\ Parsed(cfg) = cfg
    <2>1. Missing(harness, Blankness) # {}
      BY Forms, StepsOf DEF Missing, FormInv
    <2>2. cfg \notin {Absent, Empty}
      BY <2>1, Forms DEF Merged
    <2> QED  BY <2>2, Forms DEF FormInv, FileOK, File
  <1>4. OpOK(o)
    BY <1>2 DEF OpOK, Results, Copies, Allowed
  <1>5. ContentPlan(o) /\ CopyFacts(o) /\ RemovedPlan(o) /\ MarkerPlan(o)
    BY <1>2 DEF ContentPlan, CopyFacts, Copies, RemovedPlan, MarkerPlan
  <1>6. InstalledPlan(o)
    BY <1>2, <1>3 DEF InstalledPlan, Healed, Merged
  <1> QED  BY <1>1, <1>4, <1>5, <1>6 DEF GoodPlan

LEMMA OverwriteIs ==
    /\ InOrder("installed", Overwrite)
    /\ Range(Overwrite) = IF cfg # Absent /\ backup = Absent THEN {"backup", "truncate", "write"}
                          ELSE {"truncate", "write"}
  <1>1. /\ {"backup", "truncate", "write"} \subseteq DOMAIN Order("installed")
        /\ Order("installed")["backup"] < Order("installed")["truncate"]
        /\ Order("installed")["truncate"] < Order("installed")["write"]
    BY DEF Order, InstallOrder
  <1> QED  BY <1>1, TwoEffects, ThreeEffects DEF Overwrite

LEMMA CodexOverwriteIs ==
    /\ InOrder("installed", CodexOverwrite)
    /\ Range(CodexOverwrite) =
         {"truncate", "write"}
         \cup (IF cfg # Absent /\ backup = Absent THEN {"backup"}
               ELSE IF cfg # Absent /\ backup # cfg THEN {"date"} ELSE {})
  <1>1. /\ {"date", "truncate", "write"} \subseteq DOMAIN Order("installed")
        /\ Order("installed")["date"] < Order("installed")["truncate"]
        /\ Order("installed")["truncate"] < Order("installed")["write"]
    BY DEF Order, InstallOrder
  <1>2. CASE cfg # Absent /\ backup \notin {Absent, cfg}
    BY <1>1, <1>2, ThreeEffects DEF CodexOverwrite
  <1>3. CASE ~(cfg # Absent /\ backup \notin {Absent, cfg})
    BY <1>3, OverwriteIs DEF CodexOverwrite
  <1> QED  BY <1>2, <1>3

LEMMA MigrationIs ==
    InOrder("installed", Migration) /\ Range(Migration) = {"recordMigration", "clearSeen"}
  <1>1. /\ {"recordMigration", "clearSeen"} \subseteq DOMAIN Order("installed")
        /\ Order("installed")["recordMigration"] < Order("installed")["clearSeen"]
    BY DEF Order, InstallOrder
  <1> QED  BY <1>1, TwoEffects DEF Migration

LEMMA InstallsClaude ==
    ASSUME FormInv, ContentInv, MarkerInv, ~Busy, harness = "claude", NEW D \in Firsts("claude", cfg)
    PROVE  GoodPlan(installClaudeCode(D))
  <1>1. PICK c : c = Parsed(cfg)
    OBVIOUS
  <1>2. PICK d : d = mergeClaude(c, D, cli)
    OBVIOUS
  <1>3. CASE cfg = Garbled
    BY <1>3, RestIsGood DEF installClaudeCode
  <1>4. CASE cfg # Garbled
    <2>1. /\ c \in Content /\ FileOK("claude", c) /\ cli \in Launchers /\ c.notify # "birdybeep"
          /\ First("claude", c, D)
      BY <1>1, <1>4, OwnForm, FirstsAre DEF FormInv, FileOK
    <2>2. Merged("claude", c, d, cli) /\ d.notify = restoredNotify(c, backup)
      BY <1>2, <2>1, MergedClaude DEF restoredNotify
    <2>3. CASE d = c
      <3>1. installClaudeCode(D) = Plan("installed", <<>>, Absent)
        BY <1>1, <1>2, <1>4, <2>3, PlanIs DEF installClaudeCode
      <3> QED  BY <1>1, <1>4, <2>2, <2>3, <3>1, KeepIsGood, NoEffect, PlainFile
    <2>4. CASE d # c
      <3>1. installClaudeCode(D) = Plan("installed", Overwrite, d)
        BY <1>1, <1>2, <1>4, <2>4 DEF installClaudeCode
      <3>2. Range(Overwrite) \subseteq Allowed(harness, "installed")
        BY OverwriteIs DEF Allowed
      <3> QED
        BY <1>1, <1>4, <2>2, <3>1, <3>2, OverwriteIs, RewriteIsGood DEF Marked, Copies
    <2> QED  BY <2>3, <2>4
  <1> QED  BY <1>3, <1>4

LEMMA InstallsCursor ==
    ASSUME FormInv, ContentInv, MarkerInv, ~Busy, harness = "cursor", NEW D \in Firsts("cursor", cfg)
    PROVE  GoodPlan(installCursor(D))
  <1>1. PICK c : c = Parsed(cfg)
    OBVIOUS
  <1>2. PICK d : d = mergeCursor(c, D, cli)
    OBVIOUS
  <1>3. CASE cfg = Garbled
    BY <1>3, RestIsGood DEF installCursor
  <1>4. CASE cfg # Garbled
    <2>1. /\ c \in Content /\ FileOK("cursor", c) /\ cli \in Launchers /\ c.notify # "birdybeep"
          /\ First("cursor", c, D)
      BY <1>1, <1>4, OwnForm, FirstsAre DEF FormInv, FileOK
    <2>2. Merged("cursor", c, d, cli) /\ d.notify = restoredNotify(c, backup)
      BY <1>2, <2>1, MergedCursor DEF restoredNotify
    <2>3. CASE d = c
      <3>1. installCursor(D) = Plan("installed", <<>>, Absent)
        BY <1>1, <1>2, <1>4, <2>3, PlanIs DEF installCursor
      <3> QED  BY <1>1, <1>4, <2>2, <2>3, <3>1, KeepIsGood, NoEffect, PlainFile
    <2>4. CASE d # c
      <3>1. installCursor(D) = Plan("installed", Overwrite, d)
        BY <1>1, <1>2, <1>4, <2>4 DEF installCursor
      <3>2. Range(Overwrite) \subseteq Allowed(harness, "installed")
        BY OverwriteIs DEF Allowed
      <3> QED
        BY <1>1, <1>4, <2>2, <3>1, <3>2, OverwriteIs, RewriteIsGood DEF Marked, Copies
    <2> QED  BY <2>3, <2>4
  <1> QED  BY <1>3, <1>4

\* Hooks that may have been trusted are rewritten only after their marker is cleared.
LEMMA InstallsCodex ==
    ASSUME FormInv, ContentInv, MarkerInv, ~Busy, harness = "codex", NEW D \in Firsts("codex", cfg)
    PROVE  GoodPlan(installCodex(D))
  <1>1. PICK c : c = Parsed(cfg)
    OBVIOUS
  <1>2. PICK d : d = mergeCodexConfig(c, backup, D, cli)
    OBVIOUS
  <1>3. CASE cfg = Garbled
    BY <1>3, RestIsGood DEF installCodex
  <1>4. CASE cfg # Garbled
    <2>1. /\ c \in Content /\ FileOK("codex", c) /\ cli \in Launchers /\ backup \in File
          /\ First("codex", c, D)
      BY <1>1, <1>4, OwnForm, FirstsAre DEF FormInv, FileOK
    <2>2. Merged("codex", c, d, cli) /\ d.notify = restoredNotify(c, backup)
      BY <1>2, <2>1, MergedCodex
    <2>3. CASE d = c
      <3>1. installCodex(D) = Plan("installed", <<>>, Absent)
        BY <1>1, <1>2, <1>4, <2>3, PlanIs DEF installCodex
      <3> QED  BY <1>1, <1>4, <2>2, <2>3, <3>1, KeepIsGood, NoEffect, PlainFile
    <2>4. CASE d # c
      <3>1. PICK t : t = (IF previouslyConfigured(c) THEN Migration ELSE <<>>) \o CodexOverwrite
        OBVIOUS
      <3>2. installCodex(D) = Plan("installed", t, d)
        BY <1>1, <1>2, <1>4, <2>4, <3>1 DEF installCodex
      <3>3. /\ InOrder("installed", t)
            /\ Range(t) = (IF previouslyConfigured(c) THEN {"recordMigration", "clearSeen"} ELSE {})
                          \cup Range(CodexOverwrite)
        <4>1. \A a \in {"recordMigration", "clearSeen"}, b \in {"backup", "date", "truncate", "write"} :
                Order("installed")[a] < Order("installed")[b]
          BY DEF Order, InstallOrder
        <4>2. CASE previouslyConfigured(c)
          <5>1. Precedes("installed", Migration, CodexOverwrite)
            BY <4>1, MigrationIs, CodexOverwriteIs DEF Precedes
          <5>2. t = Migration \o CodexOverwrite
            BY <3>1, <4>2
          <5> QED  BY <4>2, <5>1, <5>2, MigrationIs, CodexOverwriteIs, InSequence
        <4>3. CASE ~previouslyConfigured(c)
          <5>1. Precedes("installed", <<>>, CodexOverwrite)
            BY NoEffect DEF Precedes
          <5> QED  BY <3>1, <4>3, <5>1, NoEffect, CodexOverwriteIs, InSequence
        <4> QED  BY <4>2, <4>3
      <3>4. Range(t) \subseteq Allowed(harness, "installed")
        BY <3>3, CodexOverwriteIs DEF Allowed
      <3>5. "clearSeen" \notin Range(t) => Ours(c) = {}
        BY <3>3 DEF previouslyConfigured
      <3>6. /\ {"truncate", "write"} \subseteq Range(t)
            /\ "backup" \in Range(t) => cfg # Absent /\ backup = Absent
            /\ "date" \in Range(t) => cfg # Absent
            /\ Range(t) \cap Copies = {} => cfg = Absent \/ (backup # Absent /\ backup = cfg)
        BY <3>3, CodexOverwriteIs DEF Copies
      <3> QED
        BY <1>1, <1>4, <2>2, <3>2, <3>3, <3>4, <3>5, <3>6, RewriteIsGood
    <2> QED  BY <2>3, <2>4
  <1> QED  BY <1>3, <1>4

LEMMA InstallsOpenCode ==
    ASSUME FormInv, ContentInv, MarkerInv, ~Busy, harness = "opencode"
    PROVE  GoodPlan(installOpenCode)
  <1>1. PICK c : c = Parsed(cfg)
    OBVIOUS
  <1>2. PICK d : d = mergeOpenCodeConfig(c)
    OBVIOUS
  <1>3. CASE cfg = Garbled
    BY <1>3, RestIsGood DEF installOpenCode
  <1>4. CASE cfg # Garbled
    <2>1. c \in Content /\ FileOK("opencode", c) /\ c.notify # "birdybeep"
      BY <1>1, <1>4, OwnForm DEF FormInv, FileOK
    <2>2. /\ Merged("opencode", c, d, cli) /\ d.notify = restoredNotify(c, backup)
          /\ Ours(c) # {} => d = c
      BY <1>2, <2>1, MergedOpenCode DEF restoredNotify
    <2>3. "setLauncher" \in DOMAIN Order("installed")
      BY DEF Order, InstallOrder
    <2>4. InOrder("installed", <<"setLauncher">>) /\ Range(<<"setLauncher">>) = {"setLauncher"}
      BY <2>3, OneEffect
    <2>5. CASE d = c
      <3>1. installOpenCode = Plan("installed", <<"setLauncher">> \o <<>>, d)
        BY <1>1, <1>2, <1>4, <2>5 DEF installOpenCode
      <3>2. <<"setLauncher">> \o <<>> = <<"setLauncher">>
        OBVIOUS
      <3>3. installOpenCode = Plan("installed", <<"setLauncher">>, d)
        BY <3>1, <3>2
      <3> QED  BY <1>1, <1>4, <2>2, <2>4, <2>5, <3>3, KeepIsGood DEF Merged
    <2>6. CASE d # c
      <3>1. PICK t : t = <<"setLauncher">> \o Overwrite
        OBVIOUS
      <3>2. installOpenCode = Plan("installed", t, d)
        BY <1>1, <1>2, <1>4, <2>6, <3>1 DEF installOpenCode
      <3>3. \A b \in {"backup", "truncate", "write"} :
              Order("installed")["setLauncher"] < Order("installed")[b]
        BY DEF Order, InstallOrder
      <3>4. InOrder("installed", t) /\ Range(t) = {"setLauncher"} \cup Range(Overwrite)
        <4>1. Precedes("installed", <<"setLauncher">>, Overwrite)
          BY <2>4, <3>3, OverwriteIs DEF Precedes
        <4> QED  BY <2>4, <3>1, <4>1, OverwriteIs, InSequence
      <3>5. Range(t) \subseteq Allowed(harness, "installed")
        BY <3>4, OverwriteIs DEF Allowed
      <3>6. /\ {"truncate", "write"} \subseteq Range(t) /\ "date" \notin Range(t)
            /\ "backup" \in Range(t) => cfg # Absent /\ backup = Absent
            /\ Range(t) \cap Copies = {} => cfg = Absent \/ backup # Absent
        BY <3>4, OverwriteIs DEF Copies
      <3> QED
        BY <1>1, <1>4, <2>2, <2>6, <3>2, <3>4, <3>5, <3>6, RewriteIsGood
    <2> QED  BY <2>5, <2>6
  <1> QED  BY <1>3, <1>4

LEMMA InstallsCopilot ==
    ASSUME FormInv, ContentInv, MarkerInv, ~Busy, harness = "copilot"
    PROVE  GoodPlan(installCopilot)
  <1>1. PICK d : d = generatedCopilotHooks(cli)
    OBVIOUS
  <1>2. d \in Content /\ FileOK("copilot", d)
    BY <1>1, Generated DEF FormInv
  <1>3. CASE cfg = d
    <2>1. PICK o : o = Rest("installed")
      OBVIOUS
    <2>2. installCopilot = o
      BY <1>1, <1>3, <2>1 DEF installCopilot
    <2>3. /\ o = Plan(o.result, o.todo, o.draft) /\ o.result = "installed" /\ o.todo = <<>>
          /\ o.draft = Absent /\ Pending(o) = {}
      BY <2>1, PlanIs, NoEffect DEF Pending
    <2>4. OpOK(o)
      BY <2>3, NoEffect, PlainFile DEF OpOK, Results
    <2>5. CopyFacts(o) /\ RemovedPlan(o) /\ InstalledPlan(o)
      BY <1>1, <1>3, <2>3 DEF CopyFacts, RemovedPlan, InstalledPlan, Healed
    <2> QED  BY <2>2, <2>4, <2>5 DEF GoodPlan, Marked
  <1>4. CASE cfg # d
    <2>1. PICK t : t = IF isManagedCopilotHooks(cfg) THEN <<"truncate", "write">> ELSE Overwrite
      OBVIOUS
    <2>2. PICK o : o = Plan("installed", t, d)
      OBVIOUS
    <2>3. installCopilot = o
      BY <1>1, <1>4, <2>1, <2>2 DEF installCopilot
    <2>4. /\ {"truncate", "write"} \subseteq DOMAIN Order("installed")
          /\ Order("installed")["truncate"] < Order("installed")["write"]
      BY DEF Order, InstallOrder
    <2>5. /\ InOrder("installed", t) /\ {"truncate", "write"} \subseteq Range(t)
          /\ Range(t) \subseteq {"backup", "truncate", "write"}
          /\ "backup" \in Range(t) => ~isManagedCopilotHooks(cfg) /\ cfg # Absent /\ backup = Absent
          /\ "backup" \notin Range(t) => isManagedCopilotHooks(cfg) \/ cfg = Absent \/ backup # Absent
      BY <2>1, <2>4, TwoEffects, OverwriteIs
    <2>6. /\ o = Plan(o.result, o.todo, o.draft) /\ o.result = "installed" /\ o.todo = t
          /\ o.draft = d /\ Pending(o) = Range(t)
      BY <2>2, PlanIs DEF Pending
    <2>7. OpOK(o)
      BY <1>2, <2>5, <2>6 DEF OpOK, Results, Allowed, Copies
    <2>8. CopyFacts(o)
      BY <2>5, <2>6 DEF CopyFacts, Copies
    <2>9. RemovedPlan(o) /\ InstalledPlan(o)
      BY <1>1, <2>5, <2>6 DEF RemovedPlan, InstalledPlan, Healed
    <2> QED  BY <2>3, <2>7, <2>8, <2>9 DEF GoodPlan, Marked
  <1> QED  BY <1>3, <1>4

LEMMA DropBackupIs ==
    \A r \in {"removed", "unchanged"} :
        /\ InOrder(r, DropBackup)
        /\ Range(DropBackup) = IF backup # Absent THEN {"dropBackup"} ELSE {}
  <1>1. \A r \in {"removed", "unchanged"} : "dropBackup" \in DOMAIN Order(r)
    BY DEF Order, UninstallOrder
  <1> QED  BY <1>1, OneEffect, NoEffect DEF DropBackup

LEMMA NothingIsGood ==
    ASSUME harness # "copilot", cfg = Absent PROVE GoodPlan(NothingInstalled)
  <1>1. PICK o : o = NothingInstalled
    OBVIOUS
  <1>2. /\ o = Plan(o.result, o.todo, o.draft) /\ o.result = "unchanged" /\ o.todo = DropBackup
        /\ o.draft = Absent /\ InOrder("unchanged", DropBackup) /\ Pending(o) \subseteq {"dropBackup"}
    BY <1>1, PlanIs, DropBackupIs DEF NothingInstalled, Pending
  <1>3. OpOK(o)
    BY <1>2, PlainFile DEF OpOK, Results, Allowed, Copies
  <1>4. ContentPlan(o) /\ CopyFacts(o) /\ RemovedPlan(o) /\ MarkerPlan(o) /\ InstalledPlan(o)
    BY <1>2 DEF ContentPlan, CopyFacts, Copies, RemovedPlan, MarkerPlan, InstalledPlan
  <1> QED  BY <1>1, <1>3, <1>4 DEF GoodPlan

Clears(h) ==
    CASE h = "codex" -> {"clearSeen", "clearMigration"}
      [] h = "opencode" -> {"clearSeen", "clearLauncher"}
      [] OTHER -> {}

LEMMA CleanedEffects ==
    ASSUME NEW h \in Harnesses \ {"copilot"}, NEW k, InOrder("removed", k), Range(k) = Clears(h),
           NEW own \in BOOLEAN, NEW f,
           NEW o, o = Cleaned(f, own, k)
    PROVE  /\ o = Plan(o.result, o.todo, o.draft) /\ o.result = "removed"
           /\ InOrder("removed", o.todo) /\ Pending(o) \subseteq Allowed(h, "removed")
           /\ Clears(h) \subseteq Pending(o)
           /\ IF own /\ backup = Absent
              THEN o.draft = Absent /\ Pending(o) = {"remove"} \cup Clears(h)
              ELSE /\ o.draft = f
                   /\ Pending(o) = {"truncate", "write"} \cup Clears(h)
                                   \cup (IF backup # Absent THEN {"dropBackup"} ELSE {})
  <1>1. /\ {"truncate", "write", "remove"} \subseteq DOMAIN Order("removed")
        /\ Order("removed")["truncate"] < Order("removed")["write"]
        /\ \A a \in {"truncate", "write"} : Order("removed")[a] < Order("removed")["dropBackup"]
        /\ \A a \in {"truncate", "write", "dropBackup", "remove"},
              b \in {"clearSeen", "clearMigration", "clearLauncher"} :
             Order("removed")[a] < Order("removed")[b]
    BY DEF Order, UninstallOrder
  <1>2. Clears(h) \subseteq {"clearSeen", "clearMigration", "clearLauncher"}
    BY DEF Clears
  <1>3. CASE own /\ backup = Absent
    <2>1. PICK x : x = <<"remove">> \o k
      OBVIOUS
    <2>2. o = Plan("removed", x, Absent)
      BY <1>3, <2>1 DEF Cleaned
    <2>3. InOrder("removed", <<"remove">>) /\ Range(<<"remove">>) = {"remove"}
      BY <1>1, OneEffect
    <2>4. Precedes("removed", <<"remove">>, k)
      BY <1>1, <1>2, <2>3 DEF Precedes
    <2>5. InOrder("removed", x) /\ Range(x) = {"remove"} \cup Clears(h)
      BY <2>1, <2>3, <2>4, InSequence
    <2>6. {"remove"} \cup Clears(h) \subseteq Allowed(h, "removed")
      BY DEF Clears, Allowed, Marked
    <2>7. /\ o = Plan(o.result, o.todo, o.draft) /\ o.result = "removed" /\ o.todo = x
          /\ o.draft = Absent
      BY <2>2, PlanIs
    <2> QED  BY <1>3, <2>5, <2>6, <2>7 DEF Pending
  <1>4. CASE ~(own /\ backup = Absent)
    <2>1. PICK w : w = <<"truncate", "write">>
      OBVIOUS
    <2>2. PICK x : x = w \o DropBackup
      OBVIOUS
    <2>3. o = Plan("removed", x \o k, f)
      BY <1>4, <2>1, <2>2 DEF Cleaned
    <2>4. InOrder("removed", w) /\ Range(w) = {"truncate", "write"}
      BY <1>1, <2>1, TwoEffects
    <2>5. /\ InOrder("removed", DropBackup)
          /\ Range(DropBackup) = IF backup # Absent THEN {"dropBackup"} ELSE {}
      BY DropBackupIs
    <2>6. Precedes("removed", w, DropBackup)
      BY <1>1, <2>4, <2>5 DEF Precedes
    <2>7. InOrder("removed", x) /\ Range(x) = Range(w) \cup Range(DropBackup)
      BY <2>2, <2>4, <2>5, <2>6, InSequence
    <2>8. Precedes("removed", x, k)
      BY <1>1, <1>2, <2>4, <2>5, <2>7 DEF Precedes
    <2>9. InOrder("removed", x \o k) /\ Range(x \o k) = Range(x) \cup Clears(h)
      BY <2>7, <2>8, InSequence
    <2>10. {"truncate", "write", "dropBackup"} \cup Clears(h) \subseteq Allowed(h, "removed")
      BY DEF Clears, Allowed, Marked
    <2> QED  BY <1>4, <2>3, <2>4, <2>5, <2>7, <2>9, <2>10, PlanIs DEF Pending
  <1> QED  BY <1>3, <1>4

LEMMA CleanedIsGood ==
    ASSUME FormInv, ContentInv, ~Busy, harness # "copilot", cfg \notin {Absent, Empty, Garbled},
           NEW c, c = Parsed(cfg), NEW d, Stripped(harness, c, d),
           d.notify = restoredNotify(c, backup),
           NEW f, f = d \/ (f = backup /\ d = Parsed(backup) /\ f # Garbled),
           NEW own \in BOOLEAN, own => Items(d) = {},
           NEW k, InOrder("removed", k), Range(k) = Clears(harness)
    PROVE  GoodPlan(Cleaned(f, own, k))
  <1>1. PICK o : o = Cleaned(f, own, k)
    OBVIOUS
  <1>2. harness \in Harnesses \ {"copilot"} /\ backup \in File /\ c \in Content
    BY Forms DEF FormInv, FileOK
  <1>3. /\ o = Plan(o.result, o.todo, o.draft) /\ o.result = "removed"
        /\ InOrder("removed", o.todo) /\ Pending(o) \subseteq Allowed(harness, "removed")
        /\ Clears(harness) \subseteq Pending(o)
        /\ IF own /\ backup = Absent
           THEN o.draft = Absent /\ Pending(o) = {"remove"} \cup Clears(harness)
           ELSE /\ o.draft = f
                /\ Pending(o) = {"truncate", "write"} \cup Clears(harness)
                                \cup (IF backup # Absent THEN {"dropBackup"} ELSE {})
    BY <1>1, <1>2, CleanedEffects
  <1>4. /\ harness \in Marked => "clearSeen" \in Pending(o)
        /\ harness = "codex" => "clearMigration" \in Pending(o)
        /\ harness = "opencode" => "clearLauncher" \in Pending(o)
        /\ Clears(harness) \cap {"truncate", "write", "dropBackup", "remove", "backup", "date"} = {}
    BY <1>3 DEF Clears, Marked
  <1>5. /\ FileOK(harness, f) /\ f # Garbled /\ Parsed(f) = d /\ d \in Content
        /\ OursIn(f) = {} /\ Items(f) = Items(d) /\ d.notify # "birdybeep"
        /\ \A e \in d.entries : e.ours = None
    <2>1. d \in Content /\ FileOK(harness, d) /\ \A e \in d.entries : e.ours = None
      BY DEF Stripped
    <2>2. Parsed(d) = d /\ OursIn(d) = {} /\ d # Garbled
      BY <2>1, Forms, Fields
    <2>3. d.notify # "birdybeep"
      BY <1>2, Notify
    <2>4. CASE f = d
      BY <2>1, <2>2, <2>3, <2>4
    <2>5. CASE f = backup /\ d = Parsed(backup) /\ f # Garbled
      <3>1. FileOK(harness, f) /\ OursIn(f) = Ours(d)
        BY <1>2, <2>5, Forms DEF FormInv
      <3>2. Items(f) = Items(d)
        BY <2>2, <2>5 DEF Items
      <3> QED  BY <2>1, <2>2, <2>3, <2>5, <3>1, <3>2, Forms
    <2> QED  BY <2>4, <2>5
  <1>6. OpOK(o)
    <2>1. FileOK(harness, o.draft)
      BY <1>3, <1>5, PlainFile
    <2> QED  BY <1>3, <1>4, <2>1 DEF OpOK, Results, Copies
  <1>7. ASSUME {"raced", "blind"} \cap tainted = {} PROVE ContentPlan(o)
    <2>1. Items(d) = mine /\ Displaced(d) = {}
      BY <1>5, <1>7, KeptMine DEF Stripped, Damaged
    <2>2. Displaced(f) = {}
      BY <1>5, <2>1 DEF Displaced
    <2> QED  BY <1>3, <1>4, <1>5, <2>1, <2>2 DEF ContentPlan
  <1>8. CopyFacts(o)
    BY <1>3, <1>4 DEF CopyFacts, Copies
  <1>9. RemovedPlan(o)
    BY <1>3, <1>4, <1>5 DEF RemovedPlan, Clean, FormInv, Marked
  <1>10. harness \in Marked => MarkerPlan(o)
    BY <1>3, <1>4, <1>5 DEF MarkerPlan
  <1>11. InstalledPlan(o)
    BY <1>3 DEF InstalledPlan
  <1> QED  BY <1>1, <1>6, <1>7, <1>8, <1>9, <1>10, <1>11 DEF GoodPlan

LEMMA UninstallsClaude ==
    ASSUME FormInv, ContentInv, ~Busy, harness = "claude"
    PROVE  GoodPlan(uninstallClaudeCode)
  <1>1. CASE cfg = Absent
    BY <1>1, NothingIsGood DEF uninstallClaudeCode
  <1>2. CASE cfg # Absent /\ cfg \in Damaged
    BY <1>2, RestIsGood DEF uninstallClaudeCode
  <1>3. CASE cfg # Absent /\ cfg \notin Damaged
    <2>1. PICK d : d = removeBirdyBeepHooks(cfg)
      OBVIOUS
    <2>2. /\ cfg \in Content /\ cfg \notin {Absent, Empty, Garbled} /\ Parsed(cfg) = cfg
          /\ FileOK("claude", cfg) /\ cfg.notify # "birdybeep"
      BY <1>3, Forms DEF FormInv, FileOK, File, Damaged
    <2>3. Stripped("claude", cfg, d) /\ d.notify = restoredNotify(cfg, backup)
      BY <2>1, <2>2, StrippedClaude DEF restoredNotify
    <2>4. CASE d = cfg
      BY <1>3, <2>1, <2>4, RestIsGood DEF uninstallClaudeCode
    <2>5. CASE d # cfg
      <3>1. PICK own \in BOOLEAN : own <=> d = Blankness
        OBVIOUS
      <3>2. uninstallClaudeCode = Cleaned(d, own, <<>>)
        BY <1>3, <2>1, <2>5, <3>1 DEF uninstallClaudeCode
      <3>3. InOrder("removed", <<>>) /\ Range(<<>>) = Clears(harness)
        BY NoEffect DEF Clears
      <3>4. own => Items(d) = {}
        BY <3>1, NoItems
      <3> QED  BY <2>2, <2>3, <3>2, <3>3, <3>4, CleanedIsGood
    <2> QED  BY <2>4, <2>5
  <1> QED  BY <1>1, <1>2, <1>3

LEMMA UninstallsCursor ==
    ASSUME FormInv, ContentInv, ~Busy, harness = "cursor"
    PROVE  GoodPlan(uninstallCursor)
  <1>1. CASE cfg = Absent
    BY <1>1, NothingIsGood DEF uninstallCursor
  <1>2. CASE cfg # Absent /\ cfg \in Damaged
    BY <1>2, RestIsGood DEF uninstallCursor
  <1>3. CASE cfg # Absent /\ cfg \notin Damaged
    <2>1. PICK d : d = removeCursorHooks(cfg)
      OBVIOUS
    <2>2. /\ cfg \in Content /\ cfg \notin {Absent, Empty, Garbled} /\ Parsed(cfg) = cfg
          /\ FileOK("cursor", cfg) /\ cfg.notify # "birdybeep"
      BY <1>3, Forms DEF FormInv, FileOK, File, Damaged
    <2>3. Stripped("cursor", cfg, d) /\ d.notify = restoredNotify(cfg, backup)
      BY <2>1, <2>2, StrippedCursor DEF restoredNotify
    <2>4. CASE d = cfg
      BY <1>3, <2>1, <2>4, RestIsGood DEF uninstallCursor
    <2>5. CASE d # cfg
      <3>1. PICK own \in BOOLEAN : own <=> onlyScaffoldingRemains(d)
        OBVIOUS
      <3>2. uninstallCursor = Cleaned(d, own, <<>>)
        BY <1>3, <2>1, <2>5, <3>1 DEF uninstallCursor, onlyScaffoldingRemains
      <3>3. InOrder("removed", <<>>) /\ Range(<<>>) = Clears(harness)
        BY NoEffect DEF Clears
      <3>4. ASSUME own PROVE Items(d) = {}
        <4>1. d = [Blankness EXCEPT !.keys = d.keys \cap {"version"}]
          BY <3>1, <3>4 DEF onlyScaffoldingRemains
        <4>2. d.entries = {} /\ d.notify = "none" /\ d.keys = d.keys \cap {"version"}
          BY <4>1 DEF Blankness
        <4>3. \A x : x \notin Items(d)
          BY <2>3, <4>2, ItemsOf, ConfigAssumption DEF Stripped
        <4> QED  BY <4>3
      <3> QED  BY <2>2, <2>3, <3>2, <3>3, <3>4, CleanedIsGood
    <2> QED  BY <2>4, <2>5
  <1> QED  BY <1>1, <1>2, <1>3

\* Where there is nothing to remove from, nothing is removed.
LEMMA BlankStays ==
    /\ \A b \in File : removeBirdyBeepConfig(Blankness, b) = Blankness
    /\ removeBirdyBeepPlugin(Blankness) = Blankness
  <1>1. Blankness.entries = {} /\ Blankness.keys = {} /\ Blankness.notify = "none"
    BY DEF Blankness
  <1>2. UNION {stripBirdyBeepFromEntry(e) : e \in {}} = {}
    OBVIOUS
  <1>3. [Blankness EXCEPT !.entries = {}] = Blankness
    BY DEF Blankness
  <1>4. removeBirdyBeepHooks(Blankness) = Blankness
    BY <1>1, <1>2, <1>3 DEF removeBirdyBeepHooks
  <1>5. \A b : restoredNotify(Blankness, b) = "none"
    BY <1>1 DEF restoredNotify
  <1>6. [Blankness EXCEPT !.notify = "none"] = Blankness
    BY DEF Blankness
  <1>7. \A b : removeBirdyBeepConfig(Blankness, b) = Blankness
    BY <1>4, <1>5, <1>6 DEF removeBirdyBeepConfig
  <1>8. removeBirdyBeepPlugin(Blankness) = Blankness
    <2>1. {} \ {Managed("plugin", Bare)} = {}
      OBVIOUS
    <2> QED  BY <1>1, <1>3, <2>1 DEF removeBirdyBeepPlugin
  <1> QED  BY <1>7, <1>8

LEMMA ClearsInOrder ==
    /\ InOrder("removed", <<"clearSeen", "clearMigration">>)
    /\ Range(<<"clearSeen", "clearMigration">>) = Clears("codex")
    /\ InOrder("removed", <<"clearSeen", "clearLauncher">>)
    /\ Range(<<"clearSeen", "clearLauncher">>) = Clears("opencode")
  <1>1. /\ {"clearSeen", "clearMigration", "clearLauncher"} \subseteq DOMAIN Order("removed")
        /\ Order("removed")["clearSeen"] < Order("removed")["clearMigration"]
        /\ Order("removed")["clearSeen"] < Order("removed")["clearLauncher"]
    BY DEF Order, UninstallOrder
  <1> QED  BY <1>1, TwoEffects DEF Clears

LEMMA UninstallsCodex ==
    ASSUME FormInv, ContentInv, ~Busy, harness = "codex"
    PROVE  GoodPlan(uninstallCodex)
  <1>1. PICK c : c = Parsed(cfg)
    OBVIOUS
  <1>2. PICK d : d = removeBirdyBeepConfig(c, backup)
    OBVIOUS
  <1>3. CASE cfg = Absent
    BY <1>3, NothingIsGood DEF uninstallCodex
  <1>4. CASE cfg # Absent /\ Garbled \in {cfg, backup}
    BY <1>4, RestIsGood DEF uninstallCodex
  <1>5. CASE cfg # Absent /\ Garbled \notin {cfg, backup} /\ d = c
    BY <1>1, <1>2, <1>5, RestIsGood DEF uninstallCodex
  <1>6. CASE cfg # Absent /\ Garbled \notin {cfg, backup} /\ d # c
    <2>1. backup \in File /\ c \in Content
      BY <1>1, <1>6, Forms DEF FormInv, FileOK
    <2>2. cfg \notin {Absent, Empty, Garbled}
      BY <1>1, <1>2, <1>6, <2>1, BlankStays, Forms
    <2>3. Stripped("codex", c, d) /\ d.notify = restoredNotify(c, backup)
      BY <1>2, <2>1, StrippedCodex
    <2>4. PICK f : f = IF backup # Absent /\ d = Parsed(backup) THEN backup ELSE d
      OBVIOUS
    <2>5. PICK own \in BOOLEAN : own <=> d = Blankness
      OBVIOUS
    <2>6. uninstallCodex = Cleaned(f, own, <<"clearSeen", "clearMigration">>)
      BY <1>1, <1>2, <1>6, <2>4, <2>5 DEF uninstallCodex
    <2>7. own => Items(d) = {}
      BY <2>5, NoItems
    <2>8. f = d \/ (f = backup /\ d = Parsed(backup) /\ f # Garbled)
      BY <1>6, <2>4
    <2> QED  BY <1>1, <2>2, <2>3, <2>6, <2>7, <2>8, ClearsInOrder, CleanedIsGood
  <1> QED  BY <1>3, <1>4, <1>5, <1>6

LEMMA UninstallsOpenCode ==
    ASSUME FormInv, ContentInv, ~Busy, harness = "opencode"
    PROVE  GoodPlan(uninstallOpenCode)
  <1>1. PICK c : c = Parsed(cfg)
    OBVIOUS
  <1>2. PICK d : d = removeBirdyBeepPlugin(c)
    OBVIOUS
  <1>3. CASE cfg = Absent
    BY <1>3, NothingIsGood DEF uninstallOpenCode
  <1>4. CASE cfg # Absent /\ Garbled \in {cfg, backup}
    BY <1>4, RestIsGood DEF uninstallOpenCode
  <1>5. CASE cfg # Absent /\ Garbled \notin {cfg, backup} /\ d = c
    BY <1>1, <1>2, <1>5, RestIsGood DEF uninstallOpenCode
  <1>6. CASE cfg # Absent /\ Garbled \notin {cfg, backup} /\ d # c
    <2>1. backup \in File /\ c \in Content /\ FileOK("opencode", c) /\ c.notify # "birdybeep"
      BY <1>1, <1>6, OwnForm DEF FormInv, FileOK
    <2>2. cfg \notin {Absent, Empty, Garbled}
      BY <1>1, <1>2, <1>6, <2>1, BlankStays, Forms
    <2>3. Stripped("opencode", c, d) /\ d.notify = restoredNotify(c, backup)
      BY <1>2, <2>1, StrippedOpenCode DEF restoredNotify
    <2>4. PICK f : f = IF backup # Absent /\ d = Parsed(backup) THEN backup ELSE d
      OBVIOUS
    <2>5. PICK own \in BOOLEAN : own <=> d = Blankness
      OBVIOUS
    <2>6. uninstallOpenCode = Cleaned(f, own, <<"clearSeen", "clearLauncher">>)
      BY <1>1, <1>2, <1>6, <2>4, <2>5 DEF uninstallOpenCode
    <2>7. own => Items(d) = {}
      BY <2>5, NoItems
    <2>8. f = d \/ (f = backup /\ d = Parsed(backup) /\ f # Garbled)
      BY <1>6, <2>4
    <2> QED  BY <1>1, <2>2, <2>3, <2>6, <2>7, <2>8, ClearsInOrder, CleanedIsGood
  <1> QED  BY <1>3, <1>4, <1>5, <1>6

LEMMA UninstallsCopilot ==
    ASSUME FormInv, ~Busy, harness = "copilot"
    PROVE  GoodPlan(uninstallCopilot)
  <1>1. /\ {"truncate", "write", "dropBackup", "remove"} \subseteq DOMAIN Order("removed")
        /\ Order("removed")["truncate"] < Order("removed")["write"]
        /\ Order("removed")["write"] < Order("removed")["dropBackup"]
        /\ Order("removed")["dropBackup"] < Order("removed")["remove"]
    BY DEF Order, UninstallOrder
  <1>2. /\ FileOK("copilot", backup) /\ FileOK("copilot", Absent) /\ ~isManagedCopilotHooks(Absent)
        /\ ~seen /\ ~migrated /\ launcher = None
    BY PlainFile DEF FormInv, Marked, isManagedCopilotHooks, isCopilotHooksWithTimeout
  <1>3. ASSUME NEW t, NEW f, NEW o, o = Plan("removed", t, f), uninstallCopilot = o,
               f = Absent \/ f = backup, InOrder("removed", t),
               Range(t) \subseteq {"truncate", "write", "dropBackup", "remove"},
               "truncate" \in Range(t) <=> "write" \in Range(t),
               "write" \in Range(t) => /\ f = backup /\ ~isManagedCopilotHooks(backup)
                                       /\ "remove" \notin Range(t) /\ "dropBackup" \in Range(t),
               "dropBackup" \in Range(t) <=> backup # Absent,
               "dropBackup" \in Range(t) /\ "write" \notin Range(t) => isManagedCopilotHooks(backup),
               "write" \notin Range(t) => ("remove" \in Range(t) <=> isManagedCopilotHooks(cfg))
        PROVE  GoodPlan(uninstallCopilot)
    <2>1. /\ o = Plan(o.result, o.todo, o.draft) /\ o.result = "removed" /\ o.todo = t
          /\ o.draft = f /\ Pending(o) = Range(t)
      BY <1>3, PlanIs DEF Pending
    <2>2. OpOK(o)
      BY <1>2, <1>3, <2>1 DEF OpOK, Results, Allowed, Copies, Marked
    <2>3. CopyFacts(o)
      BY <1>3, <2>1 DEF CopyFacts, Copies
    <2>4. RemovedPlan(o) /\ InstalledPlan(o)
      BY <1>2, <1>3, <2>1 DEF RemovedPlan, InstalledPlan, Clean
    <2> QED  BY <1>3, <2>2, <2>3, <2>4 DEF GoodPlan, Marked
  <1>4. CASE (cfg = Absent /\ backup = Absent) \/ (backup = Absent /\ ~isManagedCopilotHooks(cfg))
    BY <1>4, RestIsGood DEF uninstallCopilot
  <1>5. CASE backup # Absent /\ isManagedCopilotHooks(backup) /\ ~isManagedCopilotHooks(cfg)
    <2>1. uninstallCopilot = Plan("removed", <<"dropBackup">> \o <<>>, Absent)
      BY <1>5 DEF uninstallCopilot
    <2>2. <<"dropBackup">> \o <<>> = <<"dropBackup">>
      OBVIOUS
    <2>3. uninstallCopilot = Plan("removed", <<"dropBackup">>, Absent)
      BY <2>1, <2>2
    <2>4. InOrder("removed", <<"dropBackup">>) /\ Range(<<"dropBackup">>) = {"dropBackup"}
      BY <1>1, OneEffect
    <2> QED  BY <1>3, <1>5, <2>3, <2>4
  <1>6. CASE backup # Absent /\ isManagedCopilotHooks(backup) /\ isManagedCopilotHooks(cfg)
    <2>1. PICK t : t = <<"dropBackup">> \o <<"remove">>
      OBVIOUS
    <2>2. uninstallCopilot = Plan("removed", t, Absent)
      BY <1>6, <2>1 DEF uninstallCopilot
    <2>3. /\ InOrder("removed", <<"dropBackup">>) /\ Range(<<"dropBackup">>) = {"dropBackup"}
          /\ InOrder("removed", <<"remove">>) /\ Range(<<"remove">>) = {"remove"}
      BY <1>1, OneEffect
    <2>4. Precedes("removed", <<"dropBackup">>, <<"remove">>)
      BY <1>1, <2>3 DEF Precedes
    <2>5. InOrder("removed", t) /\ Range(t) = {"dropBackup", "remove"}
      BY <2>1, <2>3, <2>4, InSequence
    <2> QED  BY <1>3, <1>6, <2>2, <2>5
  <1>7. CASE backup # Absent /\ ~isManagedCopilotHooks(backup)
    <2>1. uninstallCopilot = Plan("removed", <<"truncate", "write", "dropBackup">>, backup)
      BY <1>7 DEF uninstallCopilot
    <2>2. /\ InOrder("removed", <<"truncate", "write", "dropBackup">>)
          /\ Range(<<"truncate", "write", "dropBackup">>) = {"truncate", "write", "dropBackup"}
      BY <1>1, ThreeEffects
    <2> QED  BY <1>3, <1>7, <2>1, <2>2
  <1>8. CASE backup = Absent /\ isManagedCopilotHooks(cfg)
    <2>1. uninstallCopilot = Plan("removed", <<"remove">>, Absent)
      BY <1>2, <1>8 DEF uninstallCopilot
    <2>2. InOrder("removed", <<"remove">>) /\ Range(<<"remove">>) = {"remove"}
      BY <1>1, OneEffect
    <2> QED  BY <1>3, <1>8, <2>1, <2>2
  <1> QED  BY <1>4, <1>5, <1>6, <1>7, <1>8

-----------------------------------------------------------------------------
(* The parts of the invariant, step by step.                               *)

LEMMA DueIs ==
    ASSUME NEW o, OpOK(o)
    PROVE  /\ \/ Due(o) = saved
              \/ Due(o) = {} /\ "truncate" \in Pending(o)
              \/ /\ Due(o) = Items(cfg) /\ "truncate" \in Pending(o) /\ cfg # Absent
                 /\ backup = Absent \/ harness = "codex"
           /\ "truncate" \in Pending(o) =>
                /\ cfg = Absent => Due(o) = {}
                /\ o.result = "removed" /\ harness # "copilot" => Due(o) = {}
                /\ cfg # Absent /\ o.result # "removed"
                   /\ ~(harness = "copilot" /\ isManagedCopilotHooks(cfg))
                   /\ (backup = Absent \/ harness = "codex") => Due(o) = Items(cfg)
  <1>1. o.todo \in Seq(DOMAIN Order(o.result))
    BY DEF OpOK, InOrder
  <1>2. Pending(o) = {o.todo[i] : i \in 1..Len(o.todo)}
    BY <1>1, RangeEquality DEF Pending
  <1>3. Contains(o.todo, "truncate") <=> "truncate" \in Pending(o)
    BY <1>2 DEF Contains
  <1>4. CASE ~Contains(o.todo, "truncate")
    <2>1. Due(o) = saved
      BY <1>4 DEF Due
    <2> QED  BY <1>3, <1>4, <2>1
  <1>5. CASE Contains(o.todo, "truncate") /\ cfg = Absent
    <2>1. Due(o) = {}
      BY <1>5 DEF Due
    <2> QED  BY <1>3, <1>5, <2>1
  <1>6. CASE Contains(o.todo, "truncate") /\ cfg # Absent /\ o.result = "removed"
    <2>1. Due(o) = IF harness = "copilot" THEN saved ELSE {}
      BY <1>6 DEF Due
    <2> QED  BY <1>3, <1>6, <2>1
  <1>7. CASE /\ Contains(o.todo, "truncate") /\ cfg # Absent /\ o.result # "removed"
             /\ harness = "copilot" /\ isManagedCopilotHooks(cfg)
    <2>1. Due(o) = saved
      BY <1>7 DEF Due
    <2> QED  BY <1>3, <1>7, <2>1
  <1>8. CASE /\ Contains(o.todo, "truncate") /\ cfg # Absent /\ o.result # "removed"
             /\ ~(harness = "copilot" /\ isManagedCopilotHooks(cfg))
    <2>1. Due(o) = IF backup = Absent \/ harness = "codex" THEN Items(cfg) ELSE saved
      BY <1>8 DEF Due
    <2> QED  BY <1>3, <1>8, <2>1
  <1> QED  BY <1>4, <1>5, <1>6, <1>7, <1>8

LEMMA StartCopies ==
    ASSUME FormInv, CopyInv, ~Busy, NEW o, GoodPlan(o), StartOp(o)
    PROVE  CopyInv'
  <1> SUFFICES ASSUME {"raced", "blind", "torn"} \cap tainted' = {}
               PROVE  /\ harness # "codex" /\ backup # Absent => saved' \subseteq Items(backup)
                      /\ harness = "copilot" /\ backup = Absent => saved' \subseteq Items(cfg)
                      /\ cfg \in Damaged => saved' \subseteq Items(backup) \cup dated
                      /\ CopyPlan(o, saved')
    BY DEF CopyInv, StartOp, CopyPlan, files, world
  <1>1. /\ {"raced", "blind", "torn"} \cap tainted = {}
        /\ o.result = "installed" => cfg # Empty
    BY DEF StartOp
  <1>2. saved' = Due(o) /\ OpOK(o) /\ CopyFacts(o)
    BY DEF StartOp, GoodPlan
  <1>3. saved' \in {saved, {}, Items(cfg)}
    BY <1>2, DueIs
  <1>4. saved' # saved => "truncate" \in Pending(o) /\ (saved' # {} => backup = Absent \/ harness = "codex")
    BY <1>2, DueIs
  <1>5. /\ harness # "codex" /\ backup # Absent => saved \subseteq Items(backup)
        /\ harness = "copilot" /\ backup = Absent => saved \subseteq Items(cfg)
        /\ cfg \in Damaged => saved \subseteq Items(backup) \cup dated
    BY <1>1 DEF CopyInv
  <1>6. cfg \in Damaged => Items(cfg) = {}
    BY NoItems DEF Damaged
  <1>7. harness # "codex" /\ backup # Absent => saved' \subseteq Items(backup)
    BY <1>3, <1>4, <1>5
  <1>8. harness = "copilot" /\ backup = Absent => saved' \subseteq Items(cfg)
    BY <1>3, <1>5
  <1>9. cfg \in Damaged => saved' \subseteq Items(backup) \cup dated
    BY <1>3, <1>5, <1>6
  <1>10. Pending(o) \cap Copies # {} => saved' \subseteq Items(cfg)
    BY <1>2, DueIs DEF CopyFacts, OpOK
  <1>11. isManagedCopilotHooks(cfg) => Items(cfg) = {}
    BY WhollyOurs DEF FormInv, FileOK
  <1>12. ASSUME Pending(o) \cap Copies = {}, "write" \in Pending(o)
         PROVE  saved' \subseteq Items(backup) \cup dated
    <2>1. "truncate" \in Pending(o)
      BY <1>2, <1>12 DEF CopyFacts
    <2>2. CASE cfg = Absent \/ (o.result = "removed" /\ harness # "copilot")
      BY <1>2, <2>1, <2>2, DueIs
    <2>3. CASE harness = "copilot" /\ o.result = "removed"
      BY <1>2, <1>7, <2>1, <2>3 DEF CopyFacts
    <2>4. CASE harness = "codex" /\ backup = cfg
      BY <1>2, <1>12, <2>1, <2>2, <2>4, DueIs
    <2>5. CASE harness # "codex" /\ backup # Absent
      BY <1>7, <2>5
    <2>6. CASE harness = "copilot" /\ isManagedCopilotHooks(cfg)
      BY <1>7, <1>8, <1>11, <2>6
    <2> QED  BY <1>2, <1>12, <2>1, <2>2, <2>3, <2>4, <2>5, <2>6 DEF CopyFacts
  <1>13. harness # "copilot" /\ o.result = "removed" /\ "dropBackup" \in Pending(o) => saved' = {}
    BY <1>2, DueIs DEF CopyFacts
  <1>14. isManagedCopilotHooks(backup) => Items(backup) = {}
    BY WhollyOurs DEF FormInv, FileOK
  <1>15. harness = "copilot" /\ "remove" \in Pending(o) => saved' = {}
    BY <1>2, <1>7, <1>8, <1>11, <1>14 DEF CopyFacts
  <1>16. harness = "copilot" /\ "dropBackup" \in Pending(o) =>
           saved' \subseteq IF "write" \in Pending(o) THEN Items(o.draft) ELSE Items(cfg)
    BY <1>2, <1>7, <1>14 DEF CopyFacts
  <1> QED
    BY <1>7, <1>8, <1>9, <1>10, <1>12, <1>13, <1>15, <1>16 DEF CopyPlan

-----------------------------------------------------------------------------
(* One effect of an operation, and what may follow it.                     *)

Later(r, e) == {x \in DOMAIN Order(r) : Order(r)[e] < Order(r)[x]}

LEMMA WhatFollows ==
    /\ \A r : \A e : e \notin Later(r, e)
    /\ Later("installed", "recordMigration") =
         {"clearSeen", "setLauncher", "backup", "date", "truncate", "write"}
    /\ Later("installed", "clearSeen") = {"setLauncher", "backup", "date", "truncate", "write"}
    /\ Later("installed", "setLauncher") = {"backup", "date", "truncate", "write"}
    /\ Later("installed", "backup") = {"date", "truncate", "write"}
    /\ Later("installed", "date") = {"truncate", "write"}
    /\ Later("installed", "truncate") = {"write"}
    /\ Later("installed", "write") = {}
    /\ \A r : r # "installed" =>
         /\ Later(r, "truncate") = {"write", "dropBackup", "remove", "clearSeen",
                                    "clearMigration", "clearLauncher"}
         /\ Later(r, "write") = {"dropBackup", "remove", "clearSeen", "clearMigration", "clearLauncher"}
         /\ Later(r, "dropBackup") = {"remove", "clearSeen", "clearMigration", "clearLauncher"}
         /\ Later(r, "remove") = {"clearSeen", "clearMigration", "clearLauncher"}
         /\ Later(r, "clearSeen") = {"clearMigration", "clearLauncher"}
         /\ Later(r, "clearMigration") = {"clearLauncher"}
         /\ Later(r, "clearLauncher") = {}
  <1>1. ASSUME NEW r, NEW e, e \in Later(r, e) PROVE FALSE
    BY <1>1, Ranks DEF Later
  <1>2. Order("installed") = InstallOrder /\ \A r : r # "installed" => Order(r) = UninstallOrder
    BY DEF Order
  <1>3. \A e : Later("installed", e) = {x \in DOMAIN InstallOrder : InstallOrder[e] < InstallOrder[x]}
    BY <1>2 DEF Later
  <1>4. \A r, e : r # "installed" =>
          Later(r, e) = {x \in DOMAIN UninstallOrder : UninstallOrder[e] < UninstallOrder[x]}
    BY <1>2 DEF Later
  <1>5. /\ Later("installed", "recordMigration") =
             {"clearSeen", "setLauncher", "backup", "date", "truncate", "write"}
        /\ Later("installed", "clearSeen") = {"setLauncher", "backup", "date", "truncate", "write"}
        /\ Later("installed", "setLauncher") = {"backup", "date", "truncate", "write"}
    BY <1>3, Ranks DEF InstallOrder
  <1>6. /\ Later("installed", "backup") = {"date", "truncate", "write"}
        /\ Later("installed", "date") = {"truncate", "write"}
        /\ Later("installed", "truncate") = {"write"}
        /\ Later("installed", "write") = {}
    BY <1>3, Ranks DEF InstallOrder
  <1>7. ASSUME NEW r, r # "installed"
        PROVE  /\ Later(r, "truncate") = {"write", "dropBackup", "remove", "clearSeen",
                                          "clearMigration", "clearLauncher"}
               /\ Later(r, "write") = {"dropBackup", "remove", "clearSeen", "clearMigration",
                                       "clearLauncher"}
               /\ Later(r, "dropBackup") = {"remove", "clearSeen", "clearMigration", "clearLauncher"}
               /\ Later(r, "remove") = {"clearSeen", "clearMigration", "clearLauncher"}
    BY <1>4, <1>7, Ranks DEF UninstallOrder
  <1>8. ASSUME NEW r, r # "installed"
        PROVE  /\ Later(r, "clearSeen") = {"clearMigration", "clearLauncher"}
               /\ Later(r, "clearMigration") = {"clearLauncher"}
               /\ Later(r, "clearLauncher") = {}
    BY <1>4, <1>8, Ranks DEF UninstallOrder
  <1> QED  BY <1>1, <1>5, <1>6, <1>7, <1>8

\* The operation has had its effect e.
Progress(e) ==
    /\ e \in Pending(op) \cap Allowed(harness, op.result)
    /\ op' = Plan(op'.result, op'.todo, op'.draft)
    /\ op'.result = op.result /\ op'.draft = op.draft
    /\ InOrder(op.result, op'.todo)
    /\ Pending(op) = {e} \cup Pending(op')
    /\ Pending(op') \subseteq Later(op.result, e)

LEMMA Progresses ==
    ASSUME FormInv, NEW e, Effect(e), Done
    PROVE  Progress(e)
  <1>1. /\ op = Plan(op.result, op.todo, op.draft) /\ InOrder(op.result, op.todo)
        /\ Pending(op) \subseteq Allowed(harness, op.result) /\ op.todo # <<>> /\ Head(op.todo) = e
    BY DEF FormInv, OpOK, Effect, Busy
  <1>2. op' = Plan(op.result, Tail(op.todo), op.draft)
    BY <1>1 DEF Done, Plan
  <1>3. op'.result = op.result /\ op'.draft = op.draft /\ op'.todo = Tail(op.todo)
    BY <1>2, PlanIs
  <1>4. /\ InOrder(op.result, Tail(op.todo)) /\ Range(op.todo) = {e} \cup Range(Tail(op.todo))
        /\ Range(Tail(op.todo)) \subseteq Later(op.result, e)
    BY <1>1, NextEffect DEF Later
  <1> QED  BY <1>1, <1>2, <1>3, <1>4 DEF Progress, Pending

\* What remains of an operation is one that may remain.
LEMMA RemainsOK ==
    ASSUME OpOK(op), NEW e, Progress(e), UNCHANGED harness, tainted \ {"doubt"} \subseteq tainted',
           e # "backup" => backup' \in {backup, Absent}
    PROVE  OpOK(op)'
  <1>1. \A x \in Pending(op)' : x \in Pending(op) /\ x \in Later(op.result, e)
    BY DEF Progress
  <1>2. /\ op' = Plan(op'.result, op'.todo, op'.draft)
        /\ op'.result \in Results
        /\ InOrder(op'.result, op'.todo)
        /\ Pending(op') \subseteq Allowed(harness, op'.result)
        /\ FileOK(harness, op'.draft)
    BY DEF Progress, OpOK
  <1>3. CASE op.result = "installed"
    BY <1>1, <1>2, <1>3, WhatFollows DEF OpOK, Progress, Pending, Allowed, Copies, Marked, FileOK
  <1>4. CASE op.result = "removed"
    BY <1>1, <1>2, <1>4, WhatFollows DEF OpOK, Progress, Pending, Allowed, Copies, Marked, FileOK
  <1>5. CASE op.result = "unchanged"
    BY <1>1, <1>2, <1>5, WhatFollows DEF OpOK, Progress, Pending, Allowed, Copies, Marked, FileOK
  <1>6. CASE op.result \in {"none", "error"}
    BY <1>6 DEF Progress, Allowed
  <1> QED  BY <1>3, <1>4, <1>5, <1>6 DEF OpOK, Results

LEMMA RestingOK ==
    ASSUME harness' = harness, NEW r \in {"none", "error", "unchanged"}, op' = Rest(r)
    PROVE  OpOK(op)' /\ Pending(op)' = {} /\ op'.result = r
  <1>1. /\ op' = Plan(op'.result, op'.todo, op'.draft) /\ op'.result = r /\ op'.todo = <<>>
        /\ op'.draft = Absent
    BY PlanIs
  <1>2. Pending(op') = {} /\ InOrder(r, op'.todo)
    BY <1>1, NoEffect DEF Pending
  <1>3. FileOK(harness, op'.draft)
    BY <1>1, PlainFile
  <1> QED  BY <1>1, <1>2, <1>3 DEF OpOK, Pending, Results, FileOK

-----------------------------------------------------------------------------
(* What the user makes of a file.                                          *)

LEMMA NewEntriesOK ==
    ASSUME NEW h, NEW c \in Content, FileOK(h, c), NEW E \in SUBSET Entry,
           \A e \in E : e.ours = None \/ EntryOK(h, e)
    PROVE  [c EXCEPT !.entries = E] \in Content /\ FileOK(h, [c EXCEPT !.entries = E])
  <1>1. PICK d : d = [c EXCEPT !.entries = E]
    OBVIOUS
  <1>2. d \in Content /\ d.entries = E /\ d.notify = c.notify
    BY <1>1, NewEntries
  <1>3. \A e \in OursIn(d) : EntryOK(h, e)
    BY <1>2, Forms, Fields
  <1> QED  BY <1>1, <1>2, <1>3, Forms DEF FileOK

\* An entry is given another form, or joins the others.
LEMMA SwapOK ==
    ASSUME NEW h, NEW c \in Content, FileOK(h, c), NEW S, NEW d \in Entry,
           d.ours = None \/ EntryOK(h, d), NEW f,
           f = [c EXCEPT !.entries = (c.entries \ S) \cup {d}]
    PROVE  f \in Content /\ FileOK(h, f)
  <1>1. \A e \in c.entries : e \in Entry /\ (e.ours = None \/ EntryOK(h, e))
    BY Forms, Fields DEF FileOK
  <1>2. PICK E : E = (c.entries \ S) \cup {d}
    OBVIOUS
  <1>3. E \in SUBSET Entry /\ \A e \in E : e.ours = None \/ EntryOK(h, e)
    BY <1>1, <1>2
  <1> QED  BY <1>2, <1>3, NewEntriesOK

LEMMA EditedIs ==
    ASSUME FileOK(harness, cfg), cfg \notin Damaged, NEW f \in Edited(cfg),
           NEW c, c = Parsed(cfg)
    PROVE  \/ \E e \in c.entries :
                /\ harness \notin {"cursor", "opencode"} \/ e.ours = None
                /\ f = [c EXCEPT !.entries = (c.entries \ {e}) \cup {[e EXCEPT !.mates = Mates]}]
           \/ \E e \in Ours(c) :
                f = [c EXCEPT !.entries = (c.entries \ {e}) \cup {[e EXCEPT !.mates = {}]}]
           \/ \E e \in Ours(c) :
                /\ harness # "opencode"
                /\ f = [c EXCEPT !.entries = (c.entries \ {e}) \cup {[e EXCEPT !.time = "own"]}]
           \/ \E e \in c.entries : f = [c EXCEPT !.entries = c.entries \ {e}]
           \/ \E E \in Leftovers(harness) : f = [c EXCEPT !.entries = c.entries \cup E]
           \/ f = [c EXCEPT !.entries = c.entries \cup {Own("stop")}]
           \/ \E K : f = [c EXCEPT !.keys = K] /\ K \subseteq Keys \cup {"version"}
           \/ harness = "codex" /\ f = [c EXCEPT !.notify = "tool"]
  <1> DEFINE Swap(e, d) == [c EXCEPT !.entries = (@ \ {e}) \cup {d}]
             A1 == {Swap(e, [e EXCEPT !.mates = Mates]) :
                      e \in {d \in c.entries : ~(harness \in {"cursor", "opencode"}) \/ ~isBirdyBeepEntry(d)}}
             A2 == {Swap(e, [e EXCEPT !.mates = {}]) : e \in Ours(c)}
             A3 == {Swap(e, [e EXCEPT !.time = "own"]) : e \in {d \in Ours(c) : harness # "opencode"}}
             A4 == {[c EXCEPT !.entries = @ \ {e}] : e \in c.entries}
             A5 == {[c EXCEPT !.entries = @ \cup {Own("stop")}], [c EXCEPT !.keys = @ \cup Keys],
                    [c EXCEPT !.keys = @ \ Keys]}
             A6 == IF harness = "codex" THEN {[c EXCEPT !.notify = "tool"]} ELSE {}
             A7 == {[c EXCEPT !.entries = @ \cup left] : left \in Leftovers(harness)}
  <1>1. c \in Content
    BY Forms DEF FileOK, Damaged
  <1>2. Edited(cfg) = A1 \cup A2 \cup A3 \cup A4 \cup A7 \cup A5 \cup A6
    BY DEF Edited
  <1>3. f \in A1 \/ f \in A2 \/ f \in A3 \/ f \in A4 \/ f \in A5 \/ f \in A6 \/ f \in A7
    <2> HIDE DEF A1, A2, A3, A4, A5, A6, A7
    <2> QED  BY <1>2
  <1>4. f \in A1 => \E e \in c.entries :
           /\ harness \notin {"cursor", "opencode"} \/ e.ours = None
           /\ f = [c EXCEPT !.entries = (c.entries \ {e}) \cup {[e EXCEPT !.mates = Mates]}]
    BY DEF isBirdyBeepEntry, isBirdyBeepHookCommand
  <1>5. f \in A2 => \E e \in Ours(c) :
           f = [c EXCEPT !.entries = (c.entries \ {e}) \cup {[e EXCEPT !.mates = {}]}]
    OBVIOUS
  <1>6. f \in A3 => \E e \in Ours(c) :
           /\ harness # "opencode"
           /\ f = [c EXCEPT !.entries = (c.entries \ {e}) \cup {[e EXCEPT !.time = "own"]}]
    OBVIOUS
  <1>7. f \in A4 => \E e \in c.entries : f = [c EXCEPT !.entries = c.entries \ {e}]
    OBVIOUS
  <1>8. f \in A5 => \/ f = [c EXCEPT !.entries = c.entries \cup {Own("stop")}]
                    \/ \E K : f = [c EXCEPT !.keys = K] /\ K \subseteq Keys \cup {"version"}
    <2>1. c.keys \cup Keys \subseteq Keys \cup {"version"} /\ c.keys \ Keys \subseteq Keys \cup {"version"}
      BY <1>1, Fields
    <2> QED  BY <2>1
  <1>9. f \in A6 => harness = "codex" /\ f = [c EXCEPT !.notify = "tool"]
    OBVIOUS
  <1>10. f \in A7 => \E E \in Leftovers(harness) : f = [c EXCEPT !.entries = c.entries \cup E]
    OBVIOUS
  <1> HIDE DEF A1, A2, A3, A4, A5, A6, A7
  <1> QED  BY <1>3, <1>4, <1>5, <1>6, <1>7, <1>8, <1>9, <1>10

LEMMA EntryFields ==
    ASSUME NEW e \in Entry
    PROVE  /\ e = [step |-> e.step, ours |-> e.ours, time |-> e.time, mates |-> e.mates]
           /\ \A M \in SUBSET Mates :
                /\ [e EXCEPT !.mates = M] \in Entry
                /\ [e EXCEPT !.mates = M].step = e.step /\ [e EXCEPT !.mates = M].ours = e.ours
                /\ [e EXCEPT !.mates = M].mates = M
                /\ M = e.mates => [e EXCEPT !.mates = M] = e
           /\ [e EXCEPT !.time = "own"] \in Entry
           /\ [e EXCEPT !.time = "own"].step = e.step /\ [e EXCEPT !.time = "own"].ours = e.ours
           /\ [e EXCEPT !.time = "own"].mates = e.mates
  BY DEF Entry, Timeouts

\* The commands that are left over are managed commands of a path.
LEMMA LeftoversOK ==
    ASSUME NEW h \in Harnesses, NEW E \in Leftovers(h)
    PROVE  \A e \in E : /\ e \in Entry /\ e.ours # None /\ e.mates = {}
                        /\ EntryOK(h, e) /\ h \notin {"copilot", "opencode"}
  <1>1. CASE E = {}
    BY <1>1
  <1>2. CASE E # {}
    <2>1. /\ h \notin {"copilot", "opencode"}
          /\ \E l \in Launchers \ {Bare} : E = {Managed(s, l) : s \in LeftSteps(h)}
      BY <1>2 DEF Leftovers
    <2>2. PICK l \in Launchers \ {Bare} : E = {Managed(s, l) : s \in LeftSteps(h)}
      BY <2>1
    <2>3. ASSUME NEW s \in {"start", "retired"}
          PROVE  /\ Managed(s, l) \in Entry /\ Managed(s, l).ours # None
                 /\ Managed(s, l).mates = {} /\ EntryOK(h, Managed(s, l))
      <3>1. /\ Managed(s, l) \in Entry /\ Managed(s, l).step = s /\ Managed(s, l).ours # None
            /\ Managed(s, l).mates = {}
        BY ManagedIs, ConfigAssumption DEF Steps
      <3>2. s \in Registered(h) \cup {"retired"}
        BY <2>1 DEF Registered
      <3> QED  BY <2>1, <3>1, <3>2 DEF EntryOK
    <2>4. LeftSteps(h) \subseteq {"start", "retired"}
      BY DEF LeftSteps
    <2> QED  BY <2>1, <2>2, <2>3, <2>4
  <1> QED  BY <1>1, <1>2

LEMMA EditedOK ==
    ASSUME harness \in Harnesses, FileOK(harness, cfg), cfg \notin Damaged, NEW f \in Edited(cfg)
    PROVE  f \in Content /\ FileOK(harness, f)
  <1>1. PICK c : c = Parsed(cfg)
    OBVIOUS
  <1>2. c \in Content /\ FileOK(harness, c)
    BY <1>1, OwnForm DEF FileOK, Damaged
  <1>3. \A e \in c.entries : e \in Entry /\ (e.ours = None \/ EntryOK(harness, e))
    BY <1>2, Forms, Fields DEF FileOK
  <1>4. ASSUME NEW e \in c.entries, harness \notin {"cursor", "opencode"} \/ e.ours = None,
               f = [c EXCEPT !.entries = (c.entries \ {e}) \cup {[e EXCEPT !.mates = Mates]}]
        PROVE  f \in Content /\ FileOK(harness, f)
    <2>1. PICK d : d = [e EXCEPT !.mates = Mates]
      OBVIOUS
    <2>2. d \in Entry /\ d.step = e.step /\ d.ours = e.ours
      BY <1>3, <2>1, EntryFields
    <2>3. d.ours = None \/ EntryOK(harness, d)
      BY <1>3, <1>4, <2>2 DEF EntryOK
    <2> QED  BY <1>2, <1>4, <2>1, <2>2, <2>3, SwapOK
  <1>5. ASSUME NEW e \in Ours(c),
               f = [c EXCEPT !.entries = (c.entries \ {e}) \cup {[e EXCEPT !.mates = {}]}]
        PROVE  f \in Content /\ FileOK(harness, f)
    <2>1. PICK d : d = [e EXCEPT !.mates = {}]
      OBVIOUS
    <2>2. e \in c.entries /\ e \in Entry /\ EntryOK(harness, e)
      BY <1>2, <1>3, Fields
    <2>3. d \in Entry /\ d.step = e.step /\ d.ours = e.ours /\ d.mates = {}
      BY <2>1, <2>2, EntryFields
    <2>4. harness = "opencode" => d = e
      <3>1. harness = "opencode" => e.mates = {}
        BY <2>2, ManagedIs, ConfigAssumption DEF EntryOK, Steps
      <3> QED  BY <2>1, <2>2, <3>1, EntryFields
    <2>5. EntryOK(harness, d)
      BY <2>2, <2>3, <2>4 DEF EntryOK
    <2> QED  BY <1>2, <1>5, <2>1, <2>3, <2>5, SwapOK
  <1>6. ASSUME NEW e \in Ours(c), harness # "opencode",
               f = [c EXCEPT !.entries = (c.entries \ {e}) \cup {[e EXCEPT !.time = "own"]}]
        PROVE  f \in Content /\ FileOK(harness, f)
    <2>1. PICK d : d = [e EXCEPT !.time = "own"]
      OBVIOUS
    <2>2. e \in c.entries /\ e \in Entry /\ EntryOK(harness, e)
      BY <1>2, <1>3, Fields
    <2>3. d \in Entry /\ d.step = e.step /\ d.ours = e.ours /\ d.mates = e.mates
      BY <2>1, <2>2, EntryFields
    <2>4. EntryOK(harness, d)
      BY <1>6, <2>2, <2>3 DEF EntryOK
    <2> QED  BY <1>2, <1>6, <2>1, <2>3, <2>4, SwapOK
  <1>7. ASSUME NEW e \in c.entries, f = [c EXCEPT !.entries = c.entries \ {e}]
        PROVE  f \in Content /\ FileOK(harness, f)
    <2>1. c.entries \ {e} \in SUBSET Entry
      BY <1>2, Fields
    <2> QED  BY <1>2, <1>3, <1>7, <2>1, NewEntriesOK
  <1>8. ASSUME f = [c EXCEPT !.entries = c.entries \cup {Own("stop")}]
        PROVE  f \in Content /\ FileOK(harness, f)
    <2>1. Own("stop") \in Entry /\ Own("stop").ours = None
      BY DEF Own, Entry, Steps, Timeouts
    <2>2. PICK E : E = c.entries \cup {Own("stop")}
      OBVIOUS
    <2>3. E \in SUBSET Entry /\ \A e \in E : e.ours = None \/ EntryOK(harness, e)
      BY <1>3, <2>1, <2>2
    <2> QED  BY <1>2, <1>8, <2>2, <2>3, NewEntriesOK
  <1>9. ASSUME NEW K, f = [c EXCEPT !.keys = K], K \subseteq Keys \cup {"version"}
        PROVE  f \in Content /\ FileOK(harness, f)
    <2>1. f \in Content /\ f.entries = c.entries /\ f.notify = c.notify
      BY <1>2, <1>9 DEF Content
    <2> QED  BY <1>2, <2>1, Forms DEF FileOK, Ours
  <1>10. ASSUME harness = "codex", f = [c EXCEPT !.notify = "tool"]
         PROVE  f \in Content /\ FileOK(harness, f)
    <2>1. f \in Content /\ f.entries = c.entries
      BY <1>2, <1>10 DEF Content
    <2> QED  BY <1>2, <1>10, <2>1, Forms DEF FileOK, Ours
  <1>11. ASSUME NEW E \in Leftovers(harness), f = [c EXCEPT !.entries = c.entries \cup E]
         PROVE  f \in Content /\ FileOK(harness, f)
    <2>1. PICK G : G = c.entries \cup E
      OBVIOUS
    <2>2. G \in SUBSET Entry /\ \A e \in G : e.ours = None \/ EntryOK(harness, e)
      BY <1>3, <2>1, LeftoversOK
    <2> QED  BY <1>2, <1>11, <2>1, <2>2, NewEntriesOK
  <1> QED  BY <1>1, <1>4, <1>5, <1>6, <1>7, <1>8, <1>9, <1>10, <1>11, EditedIs

-----------------------------------------------------------------------------
(* Every file, marker and operation keeps its form.                        *)

LEMMA StartsForm ==
    ASSUME FormInv, NEW o, GoodPlan(o), StartOp(o)
    PROVE  FormInv'
  <1>1. /\ op' = o /\ UNCHANGED <<files, world, mine>>
        /\ tainted' \subseteq tainted \cup {"blind"} /\ ("raced" \in tainted <=> "raced" \in tainted')
    BY DEF StartOp
  <1>2. OpOK(op)'
    BY <1>1 DEF GoodPlan, OpOK, Pending, FileOK, files, world
  <1> QED  BY <1>1, <1>2 DEF FormInv, files, world, Taints

LEMMA StepForm ==
    ASSUME FormInv, Step
    PROVE  FormInv'
  <1>1. OpOK(op) /\ FileOK(harness, op.draft)
    BY DEF FormInv, OpOK
  <1>2. FileOK(harness, Empty) /\ FileOK(harness, Absent)
    BY PlainFile
  <1>3. CASE CopyOriginal
    <2>1. Progress("backup") /\ UNCHANGED <<harness, tainted>> /\ backup' = cfg
      BY <1>3, Progresses DEF CopyOriginal, world
    <2> QED  BY <1>1, <1>3, <2>1, RemainsOK DEF FormInv, CopyOriginal, world
  <1>4. CASE CopyDated
    <2>1. Progress("date") /\ UNCHANGED <<harness, tainted, backup>>
      BY <1>4, Progresses DEF CopyDated, world
    <2>2. harness = "codex"
      BY <2>1 DEF Progress, Allowed
    <2> QED  BY <1>1, <1>4, <2>1, <2>2, RemainsOK DEF FormInv, CopyDated, world
  <1>5. CASE WriteConfig
    <2>1. PICK e \in {"truncate", "write", "remove"} : Effect(e)
      BY <1>5 DEF WriteConfig
    <2>2. Progress(e) /\ UNCHANGED <<harness, tainted, backup>>
      BY <1>5, <2>1, Progresses DEF WriteConfig, world
    <2>3. FileOK(harness, cfg')
      BY <1>1, <1>2, <1>5 DEF WriteConfig
    <2> QED  BY <1>1, <1>5, <2>2, <2>3, RemainsOK DEF FormInv, WriteConfig, world
  <1>6. CASE ConsumeBackup
    <2>1. Progress("dropBackup") /\ UNCHANGED <<harness, tainted>> /\ backup' = Absent
      BY <1>6, Progresses DEF ConsumeBackup, world
    <2> QED  BY <1>1, <1>2, <1>6, <2>1, RemainsOK DEF FormInv, ConsumeBackup, world
  <1>7. CASE clearSeen
    <2>1. Progress("clearSeen") /\ UNCHANGED <<harness, backup>> /\ tainted' = tainted \ {"doubt"}
      BY <1>7, Progresses DEF clearSeen, world
    <2> QED  BY <1>1, <1>7, <2>1, RemainsOK DEF FormInv, clearSeen, world
  <1>8. CASE MarkMigration
    <2>1. PICK e \in {"recordMigration", "clearMigration"} : Effect(e)
      BY <1>8 DEF MarkMigration
    <2>2. Progress(e) /\ UNCHANGED <<harness, tainted, backup>>
      BY <1>8, <2>1, Progresses DEF MarkMigration, world
    <2>3. harness = "codex"
      BY <2>1, <2>2 DEF Progress, Allowed
    <2> QED  BY <1>1, <1>8, <2>2, <2>3, RemainsOK DEF FormInv, MarkMigration, world
  <1>9. CASE RecordLauncher
    <2>1. PICK e \in {"setLauncher", "clearLauncher"} : Effect(e)
      BY <1>9 DEF RecordLauncher
    <2>2. Progress(e) /\ UNCHANGED <<harness, tainted, backup>>
      BY <1>9, <2>1, Progresses DEF RecordLauncher, world
    <2>3. harness = "opencode"
      BY <2>1, <2>2 DEF Progress, Allowed
    <2> QED  BY <1>1, <1>9, <2>2, <2>3, RemainsOK DEF FormInv, RecordLauncher, world
  <1> QED  BY <1>3, <1>4, <1>5, <1>6, <1>7, <1>8, <1>9 DEF Step

LEMMA HashOf ==
    ASSUME NEW f \in File
    PROVE  {Hash(e) : e \in OursIn(f)} \subseteq Hashes
  <1>1. OursIn(f) \subseteq {e \in Entry : e.ours # None}
    <2>1. CASE f = Garbled
      BY <2>1, Forms
    <2>2. CASE f # Garbled
      BY <2>2, Forms, Fields
    <2> QED  BY <2>1, <2>2
  <1>2. \A e \in Entry : e.ours # None => Hash(e) \in Hashes
    BY DEF Entry, Hash, Hashes
  <1> QED  BY <1>1, <1>2

\* What the user writes into a file that is read: the rest of an operation that is
\* running stays, and the race is recorded.
LEMMA WritesOK ==
    ASSUME FormInv, UserEdits
    PROVE  /\ cfg \notin Damaged /\ cfg' \notin Damaged /\ FileOK(harness, cfg')
           /\ cfg' # Absent => cfg' \in Edited(cfg) /\ cfg' \in Content
           /\ UserWrites(cfg')
           /\ Busy => op' = op /\ "raced" \in tainted'
           /\ ~Busy => op' = Rest("none")
  <1>1. PICK f \in Edited(cfg) \cup {Absent} : UserWrites(f)
    BY DEF UserEdits
  <1>2. cfg \notin Damaged /\ cfg' = f
    BY <1>1 DEF UserEdits, UserWrites
  <1>3. f # Absent => f \in Content /\ FileOK(harness, f)
    BY <1>1, <1>2, EditedOK DEF FormInv
  <1>4. f \notin Damaged /\ FileOK(harness, f)
    BY <1>3, PlainFile, Forms DEF Damaged
  <1> QED  BY <1>1, <1>2, <1>3, <1>4 DEF UserWrites

LEMMA OthersForm ==
    ASSUME FormInv, Crash \/ Fire \/ RunHook \/ Arm \/ MoveCli \/ UserEdits \/ RestoreBackup
    PROVE  FormInv'
  <1>1. /\ FileOK(harness, Empty) /\ FileOK(harness, Garbled) /\ FileOK(harness, op.draft)
        /\ OpOK(op)
    BY PlainFile DEF FormInv, OpOK
  <1>2. CASE Crash
    <2>1. harness' = harness /\ op' = Rest("none")
      BY <1>2 DEF Crash
    <2>2. OpOK(op)'
      BY <2>1, RestingOK
    <2>3. cfg' \in {cfg, Garbled} /\ backup' \in {backup, Empty} /\ tainted' \subseteq Taints
      BY <1>2 DEF Crash, FormInv, Taints
    <2> QED  BY <1>1, <1>2, <2>2, <2>3 DEF FormInv, Crash
  <1>3. CASE Fire
    <2>1. OpOK(op)'
      BY <1>1, <1>3 DEF Fire, OpOK, Pending, FileOK, files
    <2> QED  BY <1>3, <2>1 DEF FormInv, Fire, files, Marked
  <1>4. CASE RunHook
    <2>1. harness \in Marked
      BY <1>4 DEF RunHook, FormInv
    <2>2. tainted' \subseteq Taints /\ ("raced" \in tainted' <=> "raced" \in tainted) /\ seen' \in BOOLEAN
      BY <1>4 DEF RunHook, FormInv, Taints
    <2>3. OpOK(op)'
      BY <1>1, <1>4, <2>2 DEF RunHook, OpOK, Pending, FileOK
    <2> QED  BY <1>4, <2>1, <2>2, <2>3 DEF FormInv, RunHook
  <1>5. CASE Arm
    <2>1. armed' \subseteq Hashes
      BY <1>5, HashOf DEF Arm, FormInv, FileOK
    <2>2. OpOK(op)'
      BY <1>1, <1>5 DEF Arm, OpOK, Pending, FileOK, files
    <2> QED  BY <1>5, <2>1, <2>2 DEF FormInv, Arm, files
  <1>6. CASE MoveCli
    <2>1. OpOK(op)'
      BY <1>6, RestingOK DEF MoveCli
    <2> QED  BY <1>6, <2>1 DEF FormInv, MoveCli, files
  <1>7. CASE UserEdits
    <2>1. UserWrites(cfg') /\ FileOK(harness, cfg')
      BY <1>7, WritesOK
    <2>2. tainted' \subseteq Taints /\ UNCHANGED <<backup, harness>>
      BY <2>1 DEF FormInv, UserWrites, Taints
    <2>3. OpOK(op)'
      <3>1. CASE Busy
        BY <1>1, <1>7, <2>2, <3>1, WritesOK DEF OpOK, Pending, FileOK
      <3>2. CASE ~Busy
        BY <1>7, <2>2, <3>2, WritesOK, RestingOK
      <3> QED  BY <3>1, <3>2
    <2> QED  BY <1>7, <2>1, <2>2, <2>3 DEF FormInv, UserWrites, UserEdits, Upset
  <1>8. CASE RestoreBackup
    <2>1. harness' = harness /\ op' = Rest("none")
      BY <1>8 DEF RestoreBackup, world
    <2>2. OpOK(op)'
      BY <2>1, RestingOK
    <2> QED  BY <1>8, <2>2 DEF FormInv, RestoreBackup, world, Taints
  <1> QED  BY <1>2, <1>3, <1>4, <1>5, <1>6, <1>7, <1>8

-----------------------------------------------------------------------------
(* What the user put in stays.                                             *)

\* The notify program of a file.
LEMMA ToolOf ==
    ASSUME NEW f \in File, f # Garbled
    PROVE  /\ Tool \in Items(f) <=> Parsed(f).notify = "tool"
           /\ Displaced(f) = IF Parsed(f).notify = "birdybeep" THEN {Tool} ELSE {}
           /\ Displaced(f) # {} => Tool \notin Items(f)
  <1>1. Parsed(f) \in Content /\ Parsed(Parsed(f)) = Parsed(f)
    BY Forms
  <1>2. Items(f) = Items(Parsed(f))
    BY <1>1, Forms DEF Items
  <1> QED  BY <1>1, <1>2, ToolIsOne DEF Displaced

LEMMA EditedNotify ==
    ASSUME FormInv, cfg \notin Damaged, NEW f \in Edited(cfg)
    PROVE  f \in Content /\ (f.notify = Parsed(cfg).notify \/ f.notify = "tool")
  <1>1. PICK c : c = Parsed(cfg)
    OBVIOUS
  <1>2. c \in Content
    BY <1>1, Forms DEF FormInv, FileOK, Damaged
  <1>3. /\ \A E : [c EXCEPT !.entries = E].notify = c.notify
        /\ \A K : [c EXCEPT !.keys = K].notify = c.notify
        /\ [c EXCEPT !.notify = "tool"].notify = "tool"
    BY <1>2 DEF Content
  <1>4. \/ \E E : f = [c EXCEPT !.entries = E]
        \/ \E K : f = [c EXCEPT !.keys = K]
        \/ f = [c EXCEPT !.notify = "tool"]
    <2>1. FileOK(harness, cfg)
      BY DEF FormInv
    <2> QED  BY <1>1, <2>1, EditedIs
  <1>5. f.notify = c.notify \/ f.notify = "tool"
    BY <1>3, <1>4, Zenon
  <1> QED  BY <1>1, <1>5, EditedOK DEF FormInv

LEMMA StartsContent ==
    ASSUME ContentInv, NEW o, GoodPlan(o), StartOp(o)
    PROVE  ContentInv'
  <1> SUFFICES ASSUME harness # "copilot", {"raced", "blind"} \cap tainted' = {}
               PROVE  /\ cfg \notin Damaged => Items(cfg) = mine \ Displaced(cfg)
                      /\ cfg \notin Damaged /\ Displaced(cfg) # {} =>
                           (Tool \in mine <=> backup # Garbled /\ Parsed(backup).notify = "tool")
                      /\ ContentPlan(o)
    BY DEF StartOp, ContentInv, ContentPlan, Pending, files, world
  <1>1. {"raced", "blind"} \cap tainted = {} /\ ~(o.result = "installed" /\ cfg = Empty)
    BY DEF StartOp
  <1> QED  BY <1>1 DEF ContentInv, GoodPlan

LEMMA StepContent ==
    ASSUME FormInv, ContentInv, UninstallInv, Step
    PROVE  ContentInv'
  <1> SUFFICES ASSUME harness # "copilot", {"raced", "blind"} \cap tainted' = {}
               PROVE  /\ cfg' \notin Damaged => Items(cfg') = mine \ Displaced(cfg')
                      /\ cfg' \notin Damaged /\ Displaced(cfg') # {} =>
                           (Tool \in mine <=> backup' # Garbled /\ Parsed(backup').notify = "tool")
                      /\ ContentPlan(op')
    BY DEF Step, CopyOriginal, CopyDated, WriteConfig, ConsumeBackup, clearSeen, MarkMigration,
           RecordLauncher, ContentInv, ContentPlan, Pending, world
  <1>1. /\ cfg \notin Damaged => Items(cfg) = mine \ Displaced(cfg)
        /\ cfg \notin Damaged /\ Displaced(cfg) # {} =>
             (Tool \in mine <=> backup # Garbled /\ Parsed(backup).notify = "tool")
        /\ ContentPlan(op) /\ {"raced", "blind"} \cap tainted = {}
    BY DEF Step, CopyOriginal, CopyDated, WriteConfig, ConsumeBackup, clearSeen, MarkMigration,
           RecordLauncher, ContentInv
  <1>2. ASSUME NEW e, Progress(e) PROVE ContentPlan(op')
    BY <1>1, <1>2 DEF ContentPlan, Progress
  <1>3. CASE CopyOriginal
    <2>1. Progress("backup") /\ backup' = cfg /\ cfg' = cfg
      BY <1>3, Progresses DEF CopyOriginal
    <2>2. backup = Absent
      BY <2>1 DEF Progress, FormInv, OpOK
    <2>3. cfg \notin Damaged /\ Displaced(cfg) # {} =>
            Tool \notin mine /\ Parsed(cfg).notify # "tool"
      BY <1>1, <2>2, Forms DEF Displaced, Blankness
    <2> QED  BY <1>1, <1>2, <2>1, <2>3
  <1>4. CASE WriteConfig /\ Effect("truncate")
    <2>1. Progress("truncate") /\ cfg' = Empty
      BY <1>4, Progresses DEF WriteConfig, Effect
    <2> QED  BY <1>2, <2>1 DEF Damaged
  <1>5. CASE WriteConfig /\ Effect("write")
    <2>1. Progress("write") /\ cfg' = op.draft
      BY <1>5, Progresses DEF WriteConfig, Effect
    <2>2. cfg' # Garbled /\ Displaced(cfg') = {} /\ Items(cfg') = mine
      BY <1>1, <2>1 DEF Progress, ContentPlan
    <2> QED  BY <1>2, <2>1, <2>2
  <1>6. CASE WriteConfig /\ Effect("remove")
    <2>1. Progress("remove") /\ cfg' = Absent
      BY <1>6, Progresses DEF WriteConfig, Effect
    <2>2. mine = {} /\ Items(cfg') = {} /\ Displaced(cfg') = {}
      BY <1>1, <2>1, NoItems, Forms DEF Progress, ContentPlan, Displaced, Blankness
    <2> QED  BY <1>2, <2>1, <2>2
  <1>7. CASE ConsumeBackup
    <2>1. Progress("dropBackup") /\ backup' = Absent /\ cfg' = cfg
      BY <1>7, Progresses DEF ConsumeBackup
    <2>2. op.result \in {"removed", "unchanged"}
      BY <2>1 DEF Progress, Allowed
    <2>3. CASE op.result = "unchanged"
      <3>1. cfg = Absent
        BY <1>1, <2>1, <2>3 DEF Progress, FormInv, OpOK
      <3>2. Displaced(cfg) = {}
        BY <3>1, Forms DEF Displaced, Blankness
      <3> QED  BY <1>1, <1>2, <2>1, <3>2
    <2>4. CASE op.result = "removed"
      <3>1. "write" \notin Pending(op)
        BY <2>1, <2>4, WhatFollows DEF Progress
      <3>2. "remove" \notin Pending(op) => Clean(cfg)
        BY <1>1, <2>4, <3>1 DEF UninstallInv, RemovedPlan
      <3>3. Displaced(cfg) = {} \/ mine = {}
        BY <1>1, <3>2 DEF Clean, Displaced, ContentPlan
      <3>4. Parsed(backup').notify # "tool"
        BY <2>1, Forms DEF Blankness
      <3> QED  BY <1>1, <1>2, <2>1, <3>3, <3>4
    <2> QED  BY <2>2, <2>3, <2>4
  <1>8. CASE CopyDated \/ clearSeen \/ MarkMigration \/ RecordLauncher
    <2>1. UNCHANGED <<cfg, backup>> /\ \E e : Progress(e)
      BY <1>8, Progresses DEF CopyDated, clearSeen, MarkMigration, RecordLauncher
    <2> QED  BY <1>1, <1>2, <2>1
  <1> QED  BY <1>3, <1>4, <1>5, <1>6, <1>7, <1>8 DEF Step, WriteConfig

LEMMA EditsContent ==
    ASSUME FormInv, ContentInv, UserEdits
    PROVE  ContentInv'
  <1> SUFFICES ASSUME harness # "copilot", {"raced", "blind"} \cap tainted' = {}
               PROVE  /\ Items(cfg') = mine' \ Displaced(cfg')
                      /\ Displaced(cfg') # {} =>
                           (Tool \in mine' <=> backup # Garbled /\ Parsed(backup).notify = "tool")
                      /\ ContentPlan(op)'
    <2>1. harness' = harness /\ backup' = backup
      BY DEF UserEdits, UserWrites
    <2> QED  BY <2>1 DEF ContentInv, ContentPlan, Pending
  <1>1. /\ cfg \notin Damaged /\ cfg' \notin Damaged /\ UserWrites(cfg')
        /\ cfg' # Absent => cfg' \in Edited(cfg) /\ cfg' \in Content
        /\ ~Busy /\ op' = Rest("none")
        /\ FileOK(harness, cfg')
    BY WritesOK
  <1>2. {"raced", "blind"} \cap tainted = {}
    BY <1>1 DEF UserWrites
  <1>3. /\ Items(cfg) = mine \ Displaced(cfg)
        /\ Displaced(cfg) # {} =>
             (Tool \in mine <=> backup # Garbled /\ Parsed(backup).notify = "tool")
    BY <1>1, <1>2 DEF ContentInv
  <1>4. ContentPlan(op)'
    BY <1>1, PlanIs, NoEffect DEF ContentPlan, Pending
  <1>5. CASE cfg' = Absent
    <2>1. mine' = {}
      BY <1>1, <1>5 DEF UserWrites
    <2>2. Items(cfg') = {} /\ Displaced(cfg') = {}
      BY <1>5, NoItems, Forms DEF Displaced, Blankness
    <2> QED  BY <1>4, <2>1, <2>2
  <1>6. CASE cfg' # Absent
    <2>1. mine' = (mine \ (Items(cfg) \ Items(cfg'))) \cup (Items(cfg') \ Items(cfg))
      BY <1>1, <1>6 DEF UserWrites
    <2>2. Parsed(cfg') = cfg' /\ (cfg'.notify = Parsed(cfg).notify \/ cfg'.notify = "tool")
      BY <1>1, <1>6, EditedNotify, Forms
    <2>3. /\ Tool \in Items(cfg) <=> Parsed(cfg).notify = "tool"
          /\ Displaced(cfg) = IF Parsed(cfg).notify = "birdybeep" THEN {Tool} ELSE {}
          /\ Tool \in Items(cfg') <=> cfg'.notify = "tool"
          /\ Displaced(cfg') = IF cfg'.notify = "birdybeep" THEN {Tool} ELSE {}
      <3>1. cfg \in File /\ cfg # Garbled /\ cfg' \in File /\ cfg' # Garbled
        BY <1>1 DEF FormInv, FileOK, Damaged
      <3>2. PICK f : f = cfg'
        OBVIOUS
      <3>3. /\ Tool \in Items(f) <=> Parsed(f).notify = "tool"
            /\ Displaced(f) = IF Parsed(f).notify = "birdybeep" THEN {Tool} ELSE {}
        BY <3>1, <3>2, ToolOf
      <3> QED  BY <2>2, <3>1, <3>2, <3>3, ToolOf
    <2>4. CASE Displaced(cfg') # {}
      <3>1. /\ Displaced(cfg) = {Tool} /\ Displaced(cfg') = {Tool}
            /\ Tool \notin Items(cfg) /\ Tool \notin Items(cfg')
        BY <2>2, <2>3, <2>4
      <3> QED  BY <1>3, <1>4, <2>1, <3>1
    <2>5. CASE Displaced(cfg') = {}
      <3>1. Displaced(cfg) # {} => Displaced(cfg) = {Tool} /\ Tool \in Items(cfg')
        BY <2>2, <2>3, <2>5
      <3> QED  BY <1>3, <1>4, <2>1, <2>5, <3>1
    <2> QED  BY <2>4, <2>5
  <1> QED  BY <1>5, <1>6

LEMMA OthersContent ==
    ASSUME FormInv, ContentInv, Crash \/ Fire \/ RunHook \/ Arm \/ MoveCli \/ RestoreBackup
    PROVE  ContentInv'
  <1> SUFFICES ASSUME harness # "copilot", {"raced", "blind"} \cap tainted' = {}
               PROVE  /\ cfg' \notin Damaged => Items(cfg') = mine' \ Displaced(cfg')
                      /\ cfg' \notin Damaged /\ Displaced(cfg') # {} =>
                           (Tool \in mine' <=> backup' # Garbled /\ Parsed(backup').notify = "tool")
                      /\ ContentPlan(op)'
    <2>1. harness' = harness
      BY DEF Crash, Fire, RunHook, Arm, MoveCli, RestoreBackup, world
    <2> QED  BY <2>1 DEF ContentInv, ContentPlan, Pending
  <1>1. {"raced", "blind"} \cap tainted = {}
    BY DEF Crash, Fire, RunHook, Arm, MoveCli, RestoreBackup
  <1>2. /\ cfg \notin Damaged => Items(cfg) = mine \ Displaced(cfg)
        /\ cfg \notin Damaged /\ Displaced(cfg) # {} =>
             (Tool \in mine <=> backup # Garbled /\ Parsed(backup).notify = "tool")
        /\ ContentPlan(op)
    BY <1>1 DEF ContentInv
  <1>3. op' = Rest("none") \/ (op' = op /\ mine' = mine)
    BY DEF Crash, Fire, RunHook, Arm, MoveCli, RestoreBackup
  <1>4. ContentPlan(op)'
    BY <1>2, <1>3, PlanIs, NoEffect DEF ContentPlan, Pending
  <1>5. CASE Crash
    <2>1. mine' = mine /\ (cfg' = cfg \/ cfg' = Garbled)
      BY <1>5 DEF Crash
    <2>2. backup' # backup => backup = Absent /\ backup' = Empty
      <3>1. backup' # backup => Effect("backup") /\ backup' = Empty
        BY <1>5 DEF Crash
      <3>2. Effect("backup") => "backup" \in Pending(op)
        BY NextEffect DEF Effect, Busy, FormInv, OpOK, Pending
      <3> QED  BY <3>1, <3>2 DEF FormInv, OpOK
    <2>3. Parsed(backup') = Parsed(backup) /\ (backup' = Garbled <=> backup = Garbled)
      BY <2>2, Forms
    <2> QED  BY <1>2, <1>4, <2>1, <2>3 DEF Damaged
  <1>6. CASE Fire \/ RunHook \/ Arm \/ MoveCli
    BY <1>2, <1>4, <1>6 DEF Fire, RunHook, Arm, MoveCli, files
  <1>7. CASE RestoreBackup
    <2>1. cfg' = backup /\ mine' = Items(backup) /\ backup' = backup /\ backup \in File
      BY <1>7 DEF RestoreBackup, FormInv, FileOK
    <2>2. CASE backup # Garbled
      <3>1. /\ Tool \in Items(backup) <=> Parsed(backup).notify = "tool"
            /\ Displaced(backup) # {} => Parsed(backup).notify = "birdybeep" /\ Displaced(backup) = {Tool}
        BY <2>1, <2>2, ToolOf
      <3> QED  BY <1>4, <2>1, <3>1
    <2>3. CASE backup = Garbled
      BY <1>4, <2>1, <2>3 DEF Damaged
    <2> QED  BY <2>2, <2>3
  <1> QED  BY <1>5, <1>6, <1>7

-----------------------------------------------------------------------------
(* What was to be overwritten is in the file or in a copy.                 *)

Untorn == {"raced", "blind", "torn"} \cap tainted = {}

Kept(c, b, d, s) ==
    /\ harness # "codex" /\ b # Absent => s \subseteq Items(b)
    /\ harness = "copilot" /\ b = Absent => s \subseteq Items(c)
    /\ c \in Damaged => s \subseteq Items(b) \cup d

LEMMA CopyIs == CopyInv <=> (Untorn => Kept(cfg, backup, dated, saved) /\ CopyPlan(op, saved))
  BY DEF CopyInv, Untorn, Kept

\* An effect that touches neither file nor copy.
LEMMA StillKept ==
    ASSUME FormInv, CopyInv, Untorn, NEW e, Progress(e), e \notin Copies \cup {"write"},
           UNCHANGED <<harness, cfg, backup, dated, saved>>
    PROVE  Kept(cfg', backup', dated', saved') /\ CopyPlan(op, saved)'
  <1>1. Kept(cfg, backup, dated, saved) /\ CopyPlan(op, saved)
    BY CopyIs
  <1>2. /\ Pending(op)' \cap Copies = {} => Pending(op) \cap Copies = {}
        /\ "write" \in Pending(op)' <=> "write" \in Pending(op)
        /\ Pending(op)' \subseteq Pending(op) /\ op'.result = op.result /\ op'.draft = op.draft
    BY DEF Progress, Pending
  <1> QED  BY <1>1, <1>2 DEF CopyPlan

LEMMA StepCopies ==
    ASSUME FormInv, CopyInv, Step
    PROVE  CopyInv'
  <1>1. harness' = harness /\ saved' = saved
    BY DEF Step, CopyOriginal, CopyDated, WriteConfig, ConsumeBackup, clearSeen, MarkMigration,
           RecordLauncher, world
  <1> SUFFICES ASSUME Untorn'
               PROVE  Kept(cfg', backup', dated', saved) /\ CopyPlan(op, saved)'
    BY <1>1 DEF CopyInv, Untorn, Kept
  <1>2. Untorn
    BY DEF Step, CopyOriginal, CopyDated, WriteConfig, ConsumeBackup, clearSeen, MarkMigration,
           RecordLauncher, Untorn
  <1>3. Kept(cfg, backup, dated, saved) /\ CopyPlan(op, saved)
    BY <1>2, CopyIs
  <1>4. Items(Absent) = {} /\ Items(Empty) = {} /\ Items(Garbled) = {}
    BY NoItems
  <1>5. OpOK(op) /\ (harness # "codex" => dated = {}) /\ "raced" \notin tainted
    BY <1>2 DEF FormInv, Untorn
  <1>6. ASSUME NEW e, Progress(e)
        PROVE  /\ e \in Pending(op) /\ e \in Allowed(harness, op.result)
               /\ op'.result = op.result /\ op'.draft = op.draft
               /\ Pending(op)' \subseteq Pending(op)
               /\ Pending(op)' \subseteq Later(op.result, e)
               /\ Pending(op) = {e} \cup Pending(op)'
    BY <1>6 DEF Progress, Pending
  <1>7. CASE CopyOriginal
    <2>1. Progress("backup") /\ UNCHANGED <<cfg, dated>> /\ backup' = cfg
      BY <1>7, Progresses DEF CopyOriginal
    <2>2. saved \subseteq Items(cfg) /\ op.result = "installed"
      BY <1>3, <1>6, <2>1 DEF CopyPlan, Copies, Allowed
    <2>3. "dropBackup" \notin Pending(op)' /\ "remove" \notin Pending(op)'
      BY <1>6, <2>1, <2>2, WhatFollows
    <2> QED  BY <1>1, <2>1, <2>2, <2>3 DEF Kept, CopyPlan
  <1>8. CASE CopyDated
    <2>1. Progress("date") /\ UNCHANGED <<cfg, backup>> /\ dated' = dated \cup Items(cfg)
      BY <1>8, Progresses DEF CopyDated
    <2>2. saved \subseteq Items(cfg) /\ op.result = "installed"
      BY <1>3, <1>6, <2>1 DEF CopyPlan, Copies, Allowed
    <2>3. "dropBackup" \notin Pending(op)' /\ "remove" \notin Pending(op)'
      BY <1>6, <2>1, <2>2, WhatFollows
    <2> QED  BY <1>1, <1>3, <2>1, <2>2, <2>3 DEF Kept, CopyPlan
  <1>9. ASSUME NEW e \in {"truncate", "write"}, Progress(e)
        PROVE  /\ "write" \in Pending(op) /\ Pending(op) \cap Copies = {}
               /\ saved \subseteq Items(backup) \cup dated
    <2>1. "write" \in Pending(op)
      BY <1>5, <1>6, <1>9 DEF OpOK
    <2>2. Pending(op)' \cap Copies = {}
      <3>1. CASE op.result = "installed"
        BY <1>6, <1>9, <3>1, WhatFollows DEF Copies
      <3>2. CASE op.result # "installed"
        BY <1>6, <1>9, <3>2, WhatFollows DEF Copies
      <3> QED  BY <3>1, <3>2
    <2>3. Pending(op) \cap Copies = {}
      BY <1>6, <1>9, <2>2 DEF Copies
    <2> QED  BY <1>3, <2>1, <2>3 DEF CopyPlan
  <1>10. CASE WriteConfig /\ Effect("truncate")
    <2>1. Progress("truncate") /\ cfg' = Empty /\ UNCHANGED <<backup, dated>>
      BY <1>10, Progresses DEF WriteConfig, Effect
    <2>2. "write" \in Pending(op) /\ Pending(op) \cap Copies = {} /\ saved \subseteq Items(backup) \cup dated
      BY <1>9, <2>1
    <2>3. "write" \in Pending(op)'
      BY <1>6, <2>1, <2>2
    <2>4. Kept(cfg', backup', dated', saved)
      BY <1>3, <1>4, <1>5, <2>1, <2>2 DEF Kept
    <2>5. CopyPlan(op, saved)'
      BY <1>1, <1>3, <1>6, <2>1, <2>2, <2>3 DEF CopyPlan
    <2> QED  BY <2>4, <2>5
  <1>11. CASE WriteConfig /\ Effect("write")
    <2>1. Progress("write") /\ cfg' = op.draft /\ UNCHANGED <<backup, dated>>
      BY <1>11, Progresses DEF WriteConfig, Effect
    <2>2. "write" \in Pending(op) /\ Pending(op) \cap Copies = {} /\ saved \subseteq Items(backup) \cup dated
      BY <1>9, <2>1
    <2>3. "write" \notin Pending(op)'
      BY <1>6, <2>1, WhatFollows
    <2>4. Kept(cfg', backup', dated', saved)
      BY <1>3, <1>4, <1>5, <2>1, <2>2 DEF Kept
    <2>5. CopyPlan(op, saved)'
      BY <1>1, <1>3, <1>6, <2>1, <2>2, <2>3 DEF CopyPlan
    <2> QED  BY <2>4, <2>5
  <1>12. CASE WriteConfig /\ Effect("remove")
    <2>1. Progress("remove") /\ cfg' = Absent /\ UNCHANGED <<backup, dated>>
      BY <1>12, Progresses DEF WriteConfig, Effect
    <2>2. op.result = "removed"
      BY <1>6, <2>1 DEF Allowed
    <2>3. /\ "write" \notin Pending(op)' /\ "dropBackup" \notin Pending(op)'
          /\ "remove" \notin Pending(op)' /\ Pending(op)' \cap Copies = {}
      BY <1>6, <2>1, <2>2, WhatFollows DEF Copies
    <2>4. harness = "copilot" => saved = {}
      BY <1>3, <1>6, <2>1 DEF CopyPlan
    <2>5. Kept(cfg', backup', dated', saved)
      BY <1>3, <2>1, <2>4, ConfigAssumption DEF Kept, Damaged
    <2> QED  BY <2>3, <2>5 DEF CopyPlan
  <1>13. CASE ConsumeBackup
    <2>1. Progress("dropBackup") /\ backup' = Absent /\ UNCHANGED <<cfg, dated>>
      BY <1>13, Progresses DEF ConsumeBackup
    <2>2. /\ op.result \in {"removed", "unchanged"}
          /\ op.result = "unchanged" => harness # "copilot"
      BY <1>6, <2>1 DEF Allowed
    <2>3. /\ "write" \notin Pending(op)' /\ "dropBackup" \notin Pending(op)'
          /\ Pending(op)' \cap Copies = {}
      BY <1>6, <2>1, <2>2, WhatFollows DEF Copies
    <2>4. "write" \notin Pending(op)
      BY <1>6, <2>1, <2>3
    <2>5. harness = "copilot" => saved \subseteq Items(cfg)
      BY <1>3, <1>6, <2>1, <2>4 DEF CopyPlan
    <2>6. harness # "copilot" /\ op.result = "removed" => saved = {}
      BY <1>3, <1>6, <2>1 DEF CopyPlan
    <2>7. op.result = "unchanged" => cfg = Absent
      BY <1>5, <1>6, <2>1 DEF OpOK
    <2>8. cfg \in Damaged => saved = {}
      BY <1>4, <2>2, <2>5, <2>6, <2>7, ConfigAssumption DEF Damaged
    <2>9. Kept(cfg', backup', dated', saved)
      BY <2>1, <2>5, <2>8 DEF Kept
    <2>10. CopyPlan(op, saved)'
      BY <1>1, <1>3, <1>6, <2>1, <2>3 DEF CopyPlan
    <2> QED  BY <2>9, <2>10
  <1>14. CASE clearSeen \/ MarkMigration \/ RecordLauncher
    <2>1. PICK e : Progress(e) /\ e \notin Copies \cup {"write"}
      BY <1>14, Progresses DEF clearSeen, MarkMigration, RecordLauncher, Copies
    <2>2. UNCHANGED <<cfg, backup, dated>>
      BY <1>14 DEF clearSeen, MarkMigration, RecordLauncher
    <2> QED  BY <1>1, <1>2, <2>1, <2>2, StillKept
  <1> QED
    BY <1>7, <1>8, <1>10, <1>11, <1>12, <1>13, <1>14 DEF Step, WriteConfig

LEMMA OthersCopies ==
    ASSUME FormInv, CopyInv,
           Crash \/ Fire \/ RunHook \/ Arm \/ MoveCli \/ UserEdits \/ RestoreBackup
    PROVE  CopyInv'
  <1>1. harness' = harness
    BY DEF Crash, Fire, RunHook, Arm, MoveCli, UserEdits, UserWrites, RestoreBackup, world
  <1> SUFFICES ASSUME Untorn'
               PROVE  Kept(cfg', backup', dated', saved') /\ CopyPlan(op, saved)'
    BY <1>1 DEF CopyInv, Untorn, Kept
  <1>2. Untorn
    BY DEF Crash, Fire, RunHook, Arm, MoveCli, UserEdits, UserWrites, RestoreBackup, Untorn
  <1>3. Kept(cfg, backup, dated, saved) /\ CopyPlan(op, saved)
    BY <1>2, CopyIs
  <1>4. Items(Absent) = {} /\ Items(Empty) = {} /\ Items(Garbled) = {}
    BY NoItems
  <1>5. op' = Rest("none") => CopyPlan(op, saved)'
    BY PlanIs, NoEffect DEF CopyPlan, Pending
  <1>6. CASE Crash
    <2>1. op' = Rest("none") /\ backup' = backup /\ UNCHANGED <<dated, saved>>
      BY <1>6 DEF Crash, Untorn
    <2>2. CASE cfg' = cfg
      BY <1>3, <1>5, <2>1, <2>2
    <2>3. CASE cfg' # cfg
      <3>1. Effect("write") /\ cfg' = Garbled
        BY <1>6, <2>3 DEF Crash
      <3>2. op.todo # <<>> /\ Head(op.todo) = "write" /\ InOrder(op.result, op.todo)
        BY <3>1 DEF Effect, Busy, FormInv, OpOK
      <3>3. /\ "write" \in Pending(op)
            /\ \A e \in Pending(op) : e = "write" \/ e \in Later(op.result, "write")
        BY <3>2, NextEffect DEF Pending, Later
      <3>4. Pending(op) \cap Copies = {}
        <4>1. CASE op.result = "installed"
          BY <3>3, <4>1, WhatFollows DEF Copies
        <4>2. CASE op.result # "installed"
          BY <3>3, <4>2, WhatFollows DEF Copies
        <4> QED  BY <4>1, <4>2
      <3>5. saved \subseteq Items(backup) \cup dated
        BY <1>3, <3>3, <3>4 DEF CopyPlan
      <3>6. harness = "copilot" /\ backup = Absent => saved = {}
        BY <1>4, <3>5 DEF FormInv
      <3> QED  BY <1>3, <1>5, <2>1, <3>1, <3>5, <3>6 DEF Kept
    <2> QED  BY <2>2, <2>3
  <1>7. CASE Fire \/ RunHook \/ Arm
    BY <1>3, <1>7 DEF Fire, RunHook, Arm, files, CopyPlan, Pending
  <1>8. CASE MoveCli
    BY <1>3, <1>5, <1>8 DEF MoveCli, files
  <1>9. CASE UserEdits
    <2>1. ~Busy /\ op' = Rest("none") /\ cfg' \notin Damaged /\ UserWrites(cfg')
      BY <1>9, WritesOK DEF Untorn
    <2>2. saved' = saved \ (Items(cfg) \ Items(cfg')) /\ UNCHANGED <<backup, dated>>
      BY <2>1 DEF UserWrites
    <2> QED  BY <1>3, <1>5, <2>1, <2>2 DEF Kept
  <1>10. CASE RestoreBackup
    <2>1. /\ cfg = Garbled /\ backup # Absent /\ cfg' = backup /\ op' = Rest("none")
          /\ UNCHANGED <<backup, dated, saved>>
      BY <1>10 DEF RestoreBackup
    <2> QED  BY <1>3, <1>5, <2>1 DEF Kept, Damaged
  <1> QED  BY <1>6, <1>7, <1>8, <1>9, <1>10

-----------------------------------------------------------------------------
(* What an uninstall has done stays done.                                  *)

LEMMA CleanFiles ==
    ASSUME FormInv
    PROVE  /\ Clean(Absent)
           /\ harness \in Marked /\ Clean(cfg) => OursIn(cfg) = {}
  <1>1. /\ ~isManagedCopilotHooks(Absent) /\ Parsed(Absent) = Blankness /\ Absent # Garbled
        /\ Blankness.notify = "none" /\ Blankness.entries = {}
    BY Forms DEF isManagedCopilotHooks, isCopilotHooksWithTimeout, Blankness
  <1>2. Clean(Absent)
    BY <1>1 DEF Clean
  <1>3. harness \in Marked /\ Clean(cfg) => OursIn(cfg) = {}
    BY Forms, Fields DEF FormInv, FileOK, Marked, Clean
  <1> QED  BY <1>2, <1>3

LEMMA StepRemoved ==
    ASSUME FormInv, UninstallInv, Step
    PROVE  UninstallInv'
  <1>1. harness' = harness
    BY DEF Step, CopyOriginal, CopyDated, WriteConfig, ConsumeBackup, clearSeen, MarkMigration,
           RecordLauncher, world
  <1>2. \A f : Clean(f)' <=> Clean(f)
    BY <1>1 DEF Clean
  <1> SUFFICES ASSUME "raced" \notin tainted', op'.result = "removed" PROVE RemovedPlan(op)'
    BY DEF UninstallInv, RemovedPlan
  <1>3. PICK e : Effect(e) /\ Done
    BY DEF Step, CopyOriginal, CopyDated, WriteConfig, ConsumeBackup, clearSeen, MarkMigration,
           RecordLauncher
  <1>4. /\ e \in Pending(op) /\ e \in Allowed(harness, "removed")
        /\ op.result = "removed" /\ op'.draft = op.draft
        /\ Pending(op) = {e} \cup Pending(op)'
        /\ Pending(op)' \subseteq Later("removed", e)
    BY <1>3, Progresses DEF Progress, Pending
  <1>5. e \in {"truncate", "write", "dropBackup", "remove", "clearSeen", "clearMigration",
               "clearLauncher"}
    BY <1>4 DEF Allowed
  <1>6. RemovedPlan(op) /\ OpOK(op)
    BY DEF UninstallInv, FormInv, Step, CopyOriginal, CopyDated, WriteConfig, ConsumeBackup,
           clearSeen, MarkMigration, RecordLauncher
  <1>7. CASE e = "truncate"
    <2>1. UNCHANGED <<backup, migrated, launcher, seen, tainted>>
      BY <1>3, <1>7 DEF Step, CopyOriginal, CopyDated, WriteConfig, ConsumeBackup, clearSeen,
                        MarkMigration, RecordLauncher, Effect
    <2>2. "write" \in Pending(op)'
      BY <1>4, <1>6, <1>7 DEF OpOK
    <2> QED  BY <1>2, <1>4, <1>6, <1>7, <2>1, <2>2 DEF RemovedPlan
  <1>8. CASE e = "write"
    <2>1. UNCHANGED <<backup, migrated, launcher, seen, tainted>> /\ cfg' = op.draft
      BY <1>3, <1>8 DEF Step, CopyOriginal, CopyDated, WriteConfig, ConsumeBackup, clearSeen,
                        MarkMigration, RecordLauncher, Effect
    <2>2. Clean(op.draft)
      BY <1>4, <1>6, <1>8 DEF RemovedPlan
    <2> QED  BY <1>2, <1>4, <1>6, <1>8, <2>1, <2>2 DEF RemovedPlan
  <1>9. CASE e = "remove"
    <2>1. UNCHANGED <<backup, migrated, launcher, seen, tainted>> /\ cfg' = Absent
      BY <1>3, <1>9 DEF Step, CopyOriginal, CopyDated, WriteConfig, ConsumeBackup, clearSeen,
                        MarkMigration, RecordLauncher, Effect
    <2> QED  BY <1>2, <1>4, <1>6, <1>9, <2>1, CleanFiles DEF RemovedPlan
  <1>10. CASE e = "dropBackup"
    <2>1. UNCHANGED <<cfg, migrated, launcher, seen, tainted>> /\ backup' = Absent
      BY <1>3, <1>10 DEF Step, CopyOriginal, CopyDated, WriteConfig, ConsumeBackup, clearSeen,
                         MarkMigration, RecordLauncher, Effect
    <2> QED  BY <1>2, <1>4, <1>6, <1>10, <2>1 DEF RemovedPlan
  <1>11. CASE e = "clearSeen"
    <2>1. UNCHANGED <<cfg, backup, migrated, launcher>> /\ seen' = FALSE
      BY <1>3, <1>11 DEF Step, CopyOriginal, CopyDated, WriteConfig, ConsumeBackup, clearSeen,
                         MarkMigration, RecordLauncher, Effect
    <2> QED  BY <1>2, <1>4, <1>6, <1>11, <2>1 DEF RemovedPlan
  <1>12. CASE e = "clearMigration"
    <2>1. UNCHANGED <<cfg, backup, seen, tainted, launcher>> /\ migrated' = FALSE
      BY <1>3, <1>12 DEF Step, CopyOriginal, CopyDated, WriteConfig, ConsumeBackup, clearSeen,
                         MarkMigration, RecordLauncher, Effect
    <2> QED  BY <1>2, <1>4, <1>6, <1>12, <2>1 DEF RemovedPlan
  <1>13. CASE e = "clearLauncher"
    <2>1. UNCHANGED <<cfg, backup, seen, tainted, migrated>> /\ launcher' = None
      BY <1>3, <1>13 DEF Step, CopyOriginal, CopyDated, WriteConfig, ConsumeBackup, clearSeen,
                         MarkMigration, RecordLauncher, Effect
    <2> QED  BY <1>2, <1>4, <1>6, <1>13, <2>1 DEF RemovedPlan
  <1> QED  BY <1>5, <1>7, <1>8, <1>9, <1>10, <1>11, <1>12, <1>13

LEMMA StartsRemoved ==
    ASSUME NEW o, GoodPlan(o), StartOp(o)
    PROVE  UninstallInv'
  <1>1. /\ op' = o /\ UNCHANGED <<files, world>> /\ tainted \subseteq tainted'
        /\ RemovedPlan(o)
    BY DEF StartOp, GoodPlan
  <1> QED  BY <1>1 DEF UninstallInv, RemovedPlan, Pending, Clean, files, world

LEMMA OthersRemoved ==
    ASSUME FormInv, UninstallInv,
           Crash \/ Fire \/ RunHook \/ Arm \/ MoveCli \/ UserEdits \/ RestoreBackup
    PROVE  UninstallInv'
  <1> SUFFICES ASSUME "raced" \notin tainted', op'.result = "removed" PROVE RemovedPlan(op)'
    BY DEF UninstallInv, RemovedPlan
  <1>1. Rest("none").result = "none"
    BY PlanIs
  <1>2. RemovedPlan(op)
    BY DEF UninstallInv, Crash, Fire, RunHook, Arm, MoveCli, UserEdits, UserWrites, RestoreBackup
  <1>3. CASE Crash \/ MoveCli \/ UserEdits \/ RestoreBackup
    BY <1>1, <1>3, WritesOK DEF Crash, MoveCli, RestoreBackup
  <1>4. CASE Fire \/ Arm
    BY <1>2, <1>4 DEF Fire, Arm, files, RemovedPlan, Pending, Clean
  <1>5. CASE RunHook
    <2>1. /\ UNCHANGED <<cfg, backup, migrated, launcher, harness, op>> /\ harness \in Marked
          /\ op.result = "removed"
      BY <1>5 DEF RunHook, FormInv
    <2>2. "clearSeen" \notin Pending(op) => (seen' => "doubt" \in tainted')
      <3> SUFFICES ASSUME "clearSeen" \notin Pending(op), seen', "doubt" \notin tainted'
                   PROVE  FALSE
        OBVIOUS
      <3>1. ~seen
        BY <1>2, <1>5, <2>1 DEF RunHook, RemovedPlan
      <3>2. ~Busy /\ \A step \in Registered(harness) : \E e \in OursIn(cfg) : e.step = step
        BY <1>5, <3>1 DEF RunHook
      <3>3. Clean(cfg)
        BY <1>2, <2>1, <3>2, Resting DEF RemovedPlan
      <3> QED  BY <2>1, <3>2, <3>3, CleanFiles, StepsOf DEF Marked, Harnesses
    <2> QED  BY <1>2, <2>1, <2>2 DEF RemovedPlan, Pending, Clean
  <1> QED  BY <1>3, <1>4, <1>5

-----------------------------------------------------------------------------
(* What the marker vouches for.                                            *)

LEMMA StartsMarker ==
    ASSUME MarkerInv, ~Busy, NEW o, GoodPlan(o), StartOp(o)
    PROVE  MarkerInv'
  <1>1. /\ op' = o /\ UNCHANGED <<files, world>> /\ ("doubt" \in tainted <=> "doubt" \in tainted')
        /\ harness \in Marked => MarkerPlan(o)
    BY DEF StartOp, GoodPlan
  <1>2. harness \in Marked /\ seen /\ "doubt" \notin tainted => Vouched
    BY Resting DEF MarkerInv
  <1> QED  BY <1>1, <1>2 DEF MarkerInv, MarkerPlan, Vouched, Pending, files, world

LEMMA StepMarker ==
    ASSUME FormInv, MarkerInv, Step
    PROVE  MarkerInv'
  <1>1. harness' = harness /\ armed' = armed
    BY DEF Step, CopyOriginal, CopyDated, WriteConfig, ConsumeBackup, clearSeen, MarkMigration,
           RecordLauncher, world
  <1> SUFFICES ASSUME harness \in Marked
               PROVE  /\ seen' /\ "doubt" \notin tainted' =>
                           Vouched' \/ ("clearSeen" \in Pending(op)' /\ OursIn(cfg') = {})
                      /\ MarkerPlan(op)'
    BY <1>1 DEF MarkerInv
  <1>2. PICK e : Effect(e) /\ Done
    BY DEF Step, CopyOriginal, CopyDated, WriteConfig, ConsumeBackup, clearSeen, MarkMigration,
           RecordLauncher
  <1>3. /\ e \in Pending(op) /\ e \in Allowed(harness, op.result)
        /\ op'.result = op.result /\ op'.draft = op.draft
        /\ Pending(op) = {e} \cup Pending(op)'
        /\ Pending(op)' \subseteq Later(op.result, e)
    BY <1>2, Progresses DEF Progress, Pending
  <1>4. /\ seen /\ "doubt" \notin tainted =>
             Vouched \/ ("clearSeen" \in Pending(op) /\ OursIn(cfg) = {})
        /\ MarkerPlan(op) /\ OpOK(op)
    BY DEF MarkerInv, FormInv
  <1>5. CASE e = "clearSeen"
    <2>1. seen' = FALSE
      BY <1>2, <1>5 DEF Step, CopyOriginal, CopyDated, WriteConfig, ConsumeBackup, clearSeen,
                        MarkMigration, RecordLauncher, Effect
    <2> QED  BY <1>3, <1>4, <2>1 DEF MarkerPlan
  <1>6. CASE e # "clearSeen"
    <2>1. UNCHANGED <<seen, tainted>>
      BY <1>2, <1>6 DEF Step, CopyOriginal, CopyDated, WriteConfig, ConsumeBackup, clearSeen,
                        MarkMigration, RecordLauncher, Effect
    <2>2. "clearSeen" \in Pending(op)' <=> "clearSeen" \in Pending(op)
      BY <1>3, <1>6
    <2>3. MarkerPlan(op)'
      BY <1>3, <1>4, <2>1, <2>2 DEF MarkerPlan
    <2>4. CASE e \notin {"truncate", "write", "remove"}
      <3>1. cfg' = cfg
        BY <1>2, <2>4 DEF Step, CopyOriginal, CopyDated, WriteConfig, ConsumeBackup, clearSeen,
                          MarkMigration, RecordLauncher, Effect
      <3> QED  BY <1>1, <1>4, <2>1, <2>2, <2>3, <3>1 DEF Vouched
    <2>5. CASE e = "truncate"
      <3>1. cfg' = Empty
        BY <1>2, <2>5 DEF Step, CopyOriginal, CopyDated, WriteConfig, ConsumeBackup, clearSeen,
                          MarkMigration, RecordLauncher, Effect
      <3>2. "write" \in Pending(op)
        BY <1>3, <1>4, <2>5 DEF OpOK
      <3>3. OursIn(cfg') = {}
        BY <3>1, Forms
      <3>4. "clearSeen" \notin Pending(op) => (seen => "doubt" \in tainted)
        BY <1>4, <3>2 DEF MarkerPlan
      <3> QED  BY <2>1, <2>2, <2>3, <3>3, <3>4
    <2>6. CASE e = "write"
      <3>1. cfg' = op.draft
        BY <1>2, <2>6 DEF Step, CopyOriginal, CopyDated, WriteConfig, ConsumeBackup, clearSeen,
                          MarkMigration, RecordLauncher, Effect
      <3>2. "clearSeen" \notin Pending(op) => (seen => "doubt" \in tainted)
        BY <1>3, <1>4, <2>6 DEF MarkerPlan
      <3>3. "clearSeen" \in Pending(op) => op.result = "removed"
        <4>1. op.result = "installed" => "clearSeen" \notin Pending(op)'
          BY <1>3, <2>6, WhatFollows
        <4>2. op.result \in {"installed", "removed"}
          BY <1>3, <1>4, <2>6 DEF Allowed, OpOK, Results
        <4> QED  BY <2>2, <4>1, <4>2
      <3>4. "clearSeen" \in Pending(op) => OursIn(cfg') = {}
        BY <1>3, <1>4, <2>6, <3>1, <3>3 DEF MarkerPlan
      <3> QED  BY <2>1, <2>2, <2>3, <3>2, <3>4
    <2>7. CASE e = "remove"
      <3>1. cfg' = Absent
        BY <1>2, <2>7 DEF Step, CopyOriginal, CopyDated, WriteConfig, ConsumeBackup, clearSeen,
                          MarkMigration, RecordLauncher, Effect
      <3>2. op.result = "removed"
        BY <1>3, <1>4, <2>7 DEF Allowed, OpOK, Results
      <3>3. "clearSeen" \in Pending(op)
        BY <1>3, <1>4, <2>7, <3>2 DEF OpOK
      <3> QED  BY <2>2, <2>3, <3>1, <3>3, Forms
    <2> QED  BY <2>4, <2>5, <2>6, <2>7
  <1> QED  BY <1>5, <1>6

LEMMA OthersMarker ==
    ASSUME FormInv, MarkerInv,
           Crash \/ Fire \/ RunHook \/ Arm \/ MoveCli \/ UserEdits \/ RestoreBackup
    PROVE  MarkerInv'
  <1>1. harness' = harness
    BY DEF Crash, Fire, RunHook, Arm, MoveCli, UserEdits, UserWrites, RestoreBackup, world
  <1> SUFFICES ASSUME harness \in Marked
               PROVE  /\ seen' /\ "doubt" \notin tainted' =>
                           Vouched' \/ ("clearSeen" \in Pending(op)' /\ OursIn(cfg') = {})
                      /\ MarkerPlan(op)'
    BY <1>1 DEF MarkerInv
  <1>2. /\ seen /\ "doubt" \notin tainted =>
             Vouched \/ ("clearSeen" \in Pending(op) /\ OursIn(cfg) = {})
        /\ MarkerPlan(op) /\ OpOK(op)
    BY DEF MarkerInv, FormInv
  <1>3. op' = Rest("none") => MarkerPlan(op)'
    BY PlanIs, NoEffect DEF MarkerPlan, Pending
  <1>4. CASE Crash
    <2>1. op' = Rest("none") /\ UNCHANGED <<seen, armed>> /\ tainted \subseteq tainted'
      BY <1>4 DEF Crash
    <2>2. "clearSeen" \in Pending(op) => "doubt" \in tainted'
      <3>1. Pending(op) = {op.todo[i] : i \in 1..Len(op.todo)}
        BY <1>2, RangeEquality DEF Pending, OpOK, InOrder
      <3> QED  BY <1>4, <3>1 DEF Crash, Contains
    <2>3. cfg' = cfg \/ "write" \in Pending(op)
      <3>1. Effect("write") => "write" \in Pending(op)
        BY <1>2, NextEffect DEF Effect, Busy, OpOK, Pending
      <3> QED  BY <1>4, <3>1 DEF Crash
    <2>4. CASE seen /\ "doubt" \notin tainted'
      <3>1. Vouched /\ "write" \notin Pending(op)
        BY <1>2, <2>1, <2>2, <2>4 DEF MarkerPlan
      <3> QED  BY <1>1, <1>3, <2>1, <2>3, <3>1 DEF Vouched
    <2> QED  BY <1>3, <2>1, <2>4
  <1>5. CASE Fire
    BY <1>2, <1>5 DEF Fire, files, Vouched, MarkerPlan, Pending
  <1>6. CASE RunHook
    <2>1. UNCHANGED <<cfg, armed, op, harness>> /\ tainted \subseteq tainted'
      BY <1>6 DEF RunHook
    <2>2. CASE seen \/ ~seen'
      <3>1. seen' => seen
        BY <2>2 DEF FormInv
      <3> QED  BY <1>2, <2>1, <3>1 DEF Vouched, MarkerPlan, Pending
    <2>3. CASE ~seen /\ seen' /\ "doubt" \in tainted'
      BY <1>2, <2>1, <2>3 DEF MarkerPlan, Pending
    <2>4. CASE ~seen /\ seen' /\ "doubt" \notin tainted'
      <3>1. ~Busy /\ \A step \in Registered(harness) : Fires(step) /\ \E e \in OursIn(cfg) : e.step = step
        BY <1>6, <2>4 DEF RunHook
      <3>2. Pending(op) = {}
        BY <3>1, Resting
      <3>3. Registered(harness) # {}
        BY StepsOf DEF FormInv
      <3>4. Vouched
        <4>1. CASE harness = "opencode"
          BY <3>1, <4>1 DEF Vouched, Fires, Registered
        <4>2. CASE harness = "codex"
          <5>1. \A step \in Registered(harness) :
                  \E d \in OursIn(cfg) : d.step = step /\ Hash(d) \in armed
            BY <3>1, <4>2 DEF Fires
          <5> QED  BY <3>1, <3>3, <4>2, <5>1 DEF Vouched
        <4> QED  BY <4>1, <4>2 DEF Marked
      <3> QED  BY <1>2, <2>1, <3>2, <3>4 DEF Vouched, MarkerPlan, Pending
    <2> QED  BY <2>2, <2>3, <2>4
  <1>7. CASE Arm
    <2>1. UNCHANGED <<cfg, seen, tainted, op, harness>> /\ armed' = {Hash(e) : e \in OursIn(cfg)}
      BY <1>7 DEF Arm, files
    <2>2. OursIn(cfg) # {} => Vouched'
      <3>1. \A e \in OursIn(cfg) : Hash(e) \in armed'
        BY <2>1
      <3>2. harness = "opencode" => \A e \in OursIn(cfg) : Hash(e).step = "plugin"
        BY DEF FormInv, FileOK, EntryOK, Registered, Hash
      <3> QED  BY <2>1, <3>1, <3>2 DEF Vouched
    <2>3. MarkerPlan(op)'
      BY <1>2, <2>1 DEF MarkerPlan, Pending
    <2> QED  BY <1>2, <2>1, <2>2, <2>3 DEF Vouched, Pending
  <1>8. CASE MoveCli
    <2>1. Pending(op) = {} /\ UNCHANGED <<cfg, seen, tainted, armed, harness>> /\ op' = Rest("none")
      BY <1>8, Resting DEF MoveCli, files
    <2> QED  BY <1>2, <1>3, <2>1 DEF Vouched
  <1>9. CASE UserEdits
    <2>1. UserWrites(cfg') /\ (Busy => op' = op) /\ (~Busy => op' = Rest("none"))
      BY <1>9, WritesOK
    <2>2. /\ UNCHANGED <<seen, armed, harness>> /\ tainted \subseteq tainted'
          /\ "doubt" \notin tainted' => OursIn(cfg') = OursIn(cfg)
      BY <2>1 DEF UserWrites
    <2>3. MarkerPlan(op)'
      BY <1>2, <1>3, <2>1, <2>2 DEF MarkerPlan, Pending
    <2>4. "doubt" \notin tainted' /\ Vouched => Vouched'
      BY <2>2 DEF Vouched
    <2>5. "clearSeen" \in Pending(op) => "clearSeen" \in Pending(op)'
      BY <2>1, Resting DEF Pending
    <2> QED  BY <1>2, <2>2, <2>3, <2>4, <2>5
  <1>10. CASE RestoreBackup
    BY <1>3, <1>10 DEF RestoreBackup
  <1> QED  BY <1>4, <1>5, <1>6, <1>7, <1>8, <1>9, <1>10

-----------------------------------------------------------------------------
(* What an install leaves.                                                 *)

LEMMA StartsInstalled ==
    ASSUME NEW o, GoodPlan(o), StartOp(o)
    PROVE  InstallInv'
  <1>1. op' = o /\ UNCHANGED <<files, world>> /\ InstalledPlan(o)
    BY DEF StartOp, GoodPlan
  <1> QED  BY <1>1 DEF InstallInv, InstalledPlan, Pending, Healed, Recorded, files, world

LEMMA StepInstalled ==
    ASSUME FormInv, InstallInv, Step
    PROVE  InstallInv'
  <1>1. harness' = harness /\ cli' = cli
    BY DEF Step, CopyOriginal, CopyDated, WriteConfig, ConsumeBackup, clearSeen, MarkMigration,
           RecordLauncher, world
  <1>2. Recorded' = Recorded /\ \A f : Healed(f)' <=> Healed(f)
    BY <1>1 DEF Healed, Recorded
  <1> SUFFICES ASSUME "raced" \notin tainted', op'.result = "installed" PROVE InstalledPlan(op)'
    BY DEF InstallInv, InstalledPlan
  <1>3. PICK e : Effect(e) /\ Done
    BY DEF Step, CopyOriginal, CopyDated, WriteConfig, ConsumeBackup, clearSeen, MarkMigration,
           RecordLauncher
  <1>4. /\ e \in Pending(op) /\ e \in Allowed(harness, "installed")
        /\ op.result = "installed" /\ op'.draft = op.draft
        /\ Pending(op) = {e} \cup Pending(op)'
        /\ Pending(op)' \subseteq Later("installed", e)
    BY <1>3, Progresses DEF Progress, Pending
  <1>5. e \in {"recordMigration", "clearSeen", "setLauncher", "backup", "date", "truncate", "write"}
    BY <1>4 DEF Allowed
  <1>6. InstalledPlan(op) /\ OpOK(op)
    BY DEF InstallInv, FormInv, Step, CopyOriginal, CopyDated, WriteConfig, ConsumeBackup,
           clearSeen, MarkMigration, RecordLauncher
  <1>7. CASE e \in {"recordMigration", "clearSeen", "backup", "date"}
    <2>1. UNCHANGED <<cfg, launcher>>
      BY <1>3, <1>7 DEF Step, CopyOriginal, CopyDated, WriteConfig, ConsumeBackup, clearSeen,
                        MarkMigration, RecordLauncher, Effect
    <2> QED  BY <1>1, <1>2, <1>4, <1>6, <1>7, <2>1 DEF InstalledPlan
  <1>8. CASE e = "truncate"
    <2>1. UNCHANGED launcher
      BY <1>3, <1>8 DEF Step, CopyOriginal, CopyDated, WriteConfig, ConsumeBackup, clearSeen,
                        MarkMigration, RecordLauncher, Effect
    <2>2. "write" \in Pending(op)'
      BY <1>4, <1>6, <1>8 DEF OpOK
    <2> QED  BY <1>1, <1>2, <1>4, <1>6, <1>8, <2>1, <2>2 DEF InstalledPlan
  <1>9. CASE e = "write"
    <2>1. UNCHANGED launcher /\ cfg' = op.draft
      BY <1>3, <1>9 DEF Step, CopyOriginal, CopyDated, WriteConfig, ConsumeBackup, clearSeen,
                        MarkMigration, RecordLauncher, Effect
    <2>2. "write" \notin Pending(op)'
      BY <1>4, <1>9, WhatFollows
    <2> QED  BY <1>1, <1>2, <1>4, <1>6, <1>9, <2>1, <2>2 DEF InstalledPlan
  <1>10. CASE e = "setLauncher"
    <2>1. UNCHANGED cfg /\ launcher' = Recorded
      BY <1>3, <1>10 DEF Step, CopyOriginal, CopyDated, WriteConfig, ConsumeBackup, clearSeen,
                         MarkMigration, RecordLauncher, Effect, Recorded
    <2> QED  BY <1>1, <1>2, <1>4, <1>6, <1>10, <2>1 DEF InstalledPlan
  <1> QED  BY <1>5, <1>7, <1>8, <1>9, <1>10

LEMMA OthersInstalled ==
    ASSUME FormInv, InstallInv,
           Crash \/ Fire \/ RunHook \/ Arm \/ MoveCli \/ UserEdits \/ RestoreBackup
    PROVE  InstallInv'
  <1> SUFFICES ASSUME "raced" \notin tainted', op'.result = "installed" PROVE InstalledPlan(op)'
    BY DEF InstallInv, InstalledPlan
  <1>1. Rest("none").result = "none"
    BY PlanIs
  <1>2. InstalledPlan(op)
    BY DEF InstallInv, Crash, Fire, RunHook, Arm, MoveCli, UserEdits, UserWrites, RestoreBackup
  <1>3. CASE Crash \/ MoveCli \/ UserEdits \/ RestoreBackup
    BY <1>1, <1>3, WritesOK DEF Crash, MoveCli, RestoreBackup
  <1>4. CASE Fire \/ Arm \/ RunHook
    BY <1>2, <1>4 DEF Fire, Arm, RunHook, files, InstalledPlan, Pending, Healed, Recorded
  <1> QED  BY <1>3, <1>4

-----------------------------------------------------------------------------
(* The invariant.                                                          *)

LEMMA UserFilesOK ==
    ASSUME NEW h, NEW f \in UserFiles
    PROVE  FileOK(h, f) /\ f \notin Damaged /\ Parsed(f).notify # "birdybeep"
  <1>1. Blankness.notify = "none" /\ Blankness \in Content
    BY Forms DEF Blankness
  <1>2. CASE f = Absent
    BY <1>1, <1>2, PlainFile, Forms DEF Damaged
  <1>3. CASE f = [Blankness EXCEPT !.keys = Keys]
    <2>1. f \in Content /\ f.entries = {} /\ f.notify = "none"
      BY <1>3 DEF Blankness, Content
    <2> QED  BY <2>1, Forms DEF FileOK, Ours
  <1>4. CASE f = [Blankness EXCEPT !.entries = {Own("start")}]
    <2>1. Own("start") \in Entry /\ Own("start").ours = None
      BY DEF Own, Entry, Steps, Timeouts
    <2>2. f \in Content /\ f.entries = {Own("start")} /\ f.notify = "none"
      BY <1>1, <1>4, <2>1, NewEntries
    <2>3. Ours(f) = {}
      BY <2>1, <2>2, Fields
    <2> QED  BY <2>2, <2>3, Forms DEF FileOK
  <1> QED  BY <1>2, <1>3, <1>4 DEF UserFiles

LEMMA OldEntryIs ==
    ASSUME NEW s \in Steps, NEW M \in SUBSET Mates
    PROVE  /\ OldEntry(s, M) \in Entry /\ OldEntry(s, M).step = s /\ OldEntry(s, M).ours = Bare
           /\ OldEntry(s, M).mates = M
           /\ OldEntry(s, M).ours # None
  BY ConfigAssumption DEF OldEntry, Entry, Timeouts

LEMMA OldFilesOK ==
    ASSUME NEW h \in Harnesses, NEW left \in Leftovers(h), NEW f \in OldFiles(h, left)
    PROVE  /\ FileOK(h, f) /\ f \in Content
           /\ f.notify = IF h = "codex" THEN "birdybeep" ELSE "none"
           /\ Ours(f) # {}
  <1>1. Blankness.notify = "none" /\ Blankness \in Content
    BY Forms DEF Blankness
  <1>7. \A e \in left : e \in Entry /\ e.ours # None /\ EntryOK(h, e)
    BY LeftoversOK
  <1>2. CASE h = "claude"
    <2>1. PICK e : e = OldEntry("start", Mates)
      OBVIOUS
    <2>2. e \in Entry /\ e.step = "start" /\ e.ours # None
      BY <2>1, OldEntryIs DEF Steps
    <2>3. f = [Blankness EXCEPT !.entries = {e} \cup left]
      BY <1>2, <2>1 DEF OldFiles
    <2>4. f \in Content /\ f.entries = {e} \cup left /\ f.notify = "none"
      BY <1>1, <1>7, <2>2, <2>3, NewEntries
    <2>5. Ours(f) = {e} \cup left /\ OursIn(f) = {e} \cup left
      BY <1>7, <2>2, <2>4, Fields, Forms
    <2>6. EntryOK(h, e)
      BY <1>2, <2>2 DEF EntryOK, Registered
    <2> QED  BY <1>2, <1>7, <2>4, <2>5, <2>6, Forms DEF FileOK
  <1>3. CASE h = "cursor"
    <2>1. PICK e : e = OldEntry("start", {})
      OBVIOUS
    <2>2. PICK d : d = OldEntry("retired", {})
      OBVIOUS
    <2>3. PICK o : o = Own("retired")
      OBVIOUS
    <2>4. e \in Entry /\ e.step = "start" /\ e.ours # None /\ e.mates = {}
      BY <2>1, OldEntryIs DEF Steps
    <2>5. d \in Entry /\ d.step = "retired" /\ d.ours # None /\ d.mates = {}
      BY <2>2, OldEntryIs DEF Steps
    <2>6. o \in Entry /\ o.ours = None
      BY <2>3 DEF Own, Entry, Steps, Timeouts
    <2>7. f = [Blankness EXCEPT !.entries = {e, d, o} \cup left, !.keys = {"version"}]
      BY <1>3, <2>1, <2>2, <2>3 DEF OldFiles
    <2>8. f \in Content /\ f.entries = {e, d, o} \cup left /\ f.notify = "none"
      <3>1. {e, d, o} \cup left \in SUBSET Entry
        BY <1>7, <2>4, <2>5, <2>6
      <3> QED  BY <1>1, <2>7, <3>1 DEF Content
    <2>9. Ours(f) = {e, d} \cup left /\ OursIn(f) = {e, d} \cup left
      BY <1>7, <2>4, <2>5, <2>6, <2>8, Fields, Forms
    <2>10. EntryOK(h, e) /\ EntryOK(h, d)
      BY <1>3, <2>4, <2>5 DEF EntryOK, Registered
    <2> QED  BY <1>3, <1>7, <2>8, <2>9, <2>10, Forms DEF FileOK
  <1>4. CASE h = "codex"
    <2>1. PICK e : e = OldEntry("start", Mates)
      OBVIOUS
    <2>2. e \in Entry /\ e.step = "start" /\ e.ours # None
      BY <2>1, OldEntryIs DEF Steps
    <2>3. f = [Blankness EXCEPT !.entries = {e} \cup left, !.notify = "birdybeep"]
      BY <1>4, <2>1 DEF OldFiles
    <2>4. f \in Content /\ f.entries = {e} \cup left /\ f.notify = "birdybeep"
      <3>1. {e} \cup left \in SUBSET Entry
        BY <1>7, <2>2
      <3> QED  BY <1>1, <2>3, <3>1 DEF Content
    <2>5. Ours(f) = {e} \cup left /\ OursIn(f) = {e} \cup left
      BY <1>7, <2>2, <2>4, Fields, Forms
    <2>6. EntryOK(h, e)
      BY <1>4, <2>2 DEF EntryOK, Registered
    <2> QED  BY <1>4, <1>7, <2>4, <2>5, <2>6, Forms DEF FileOK
  <1>5. CASE h = "copilot"
    <2>1. PICK E : E = {OldEntry(s, {}) : s \in Registered("copilot")}
      OBVIOUS
    <2>2. \A s \in Registered("copilot") : s \in Steps /\ OldEntry(s, {}) \in E
      BY <2>1 DEF Registered, Steps
    <2>3. \A e \in E : \E s \in Registered("copilot") : e = OldEntry(s, {})
      BY <2>1
    <2>4. \A e \in E : e \in Entry /\ e.step \in Registered("copilot") /\ e.ours # None
      BY <2>2, <2>3, OldEntryIs
    <2>5. PICK g : g = generatedCopilotHooks(Bare)
      OBVIOUS
    <2>6. g \in Content /\ g.notify = "none"
      BY <2>5, Generated, ConfigAssumption
    <2>7. f = [g EXCEPT !.entries = E]
      BY <1>5, <2>1, <2>5 DEF OldFiles
    <2>8. f \in Content /\ f.entries = E /\ f.notify = "none"
      BY <2>4, <2>6, <2>7, NewEntries
    <2>9. Ours(f) = E /\ OursIn(f) = E
      <3>1. Ours(f) = {e \in f.entries : e.ours # None} /\ OursIn(f) = Ours(f)
        BY <2>8, Fields, Forms
      <3> QED  BY <2>4, <2>8, <3>1
    <2>10. E # {}
      BY <2>2 DEF Registered
    <2> QED  BY <1>5, <2>4, <2>8, <2>9, <2>10, Forms DEF FileOK, EntryOK
  <1>6. CASE h = "opencode"
    <2>1. PICK e : e = Managed("plugin", Bare)
      OBVIOUS
    <2>2. e \in Entry /\ e.step = "plugin" /\ e.ours # None
      BY <2>1, ManagedIs, ConfigAssumption DEF Steps
    <2>3. f = [Blankness EXCEPT !.entries = {e}]
      BY <1>6, <2>1 DEF OldFiles
    <2>4. f \in Content /\ f.entries = {e} /\ f.notify = "none"
      BY <1>1, <2>2, <2>3, NewEntries
    <2>5. Ours(f) = {e} /\ OursIn(f) = {e}
      BY <2>2, <2>4, Fields, Forms
    <2> QED  BY <1>6, <2>1, <2>2, <2>4, <2>5, Forms DEF FileOK, EntryOK, Registered
  <1> QED  BY <1>2, <1>3, <1>4, <1>5, <1>6 DEF Harnesses

LEMMA InitInv == Init => IInv
  <1> SUFFICES ASSUME Init PROVE IInv
    OBVIOUS
  <1>1. /\ harness \in Harnesses /\ cli \in Launchers /\ op = Rest("none") /\ shot = None
        /\ dated = {} /\ migrated = FALSE /\ launcher = None /\ saved = {} /\ tainted = {}
    BY DEF Init
  <1>2. OpOK(op) /\ Pending(op) = {} /\ op.result = "none"
    <2>1. GoodPlan(op)
      BY <1>1, RestIsGood
    <2> QED  BY <1>1, <2>1, PlanIs, NoEffect DEF GoodPlan, Pending
  <1>3. \/ cfg \in UserFiles /\ backup = Absent /\ seen = FALSE
        \/ /\ \E left \in Leftovers(harness) : cfg \in OldFiles(harness, left)
           /\ backup \in OldBackups(harness) /\ seen = (harness \in Marked)
    BY DEF Init, Marked
  <1>4. /\ FileOK(harness, cfg) /\ cfg \notin Damaged
        /\ Parsed(cfg).notify = "birdybeep" => harness = "codex"
    BY <1>1, <1>3, UserFilesOK, OldFilesOK, Forms
  <1>5. /\ FileOK(harness, backup) /\ Parsed(backup).notify # "birdybeep" /\ backup # Garbled
        /\ backup # Absent =>
             /\ harness = "codex" /\ Parsed(cfg).notify = "birdybeep"
             /\ Items(backup) = {Tool} /\ Parsed(backup).notify = "tool"
    <2>1. CASE backup = Absent
      BY <2>1, PlainFile, Forms DEF Blankness
    <2>2. CASE backup # Absent
      <3>1. harness = "codex" /\ backup = [Blankness EXCEPT !.notify = "tool"] /\ \E left \in Leftovers("codex") : cfg \in OldFiles("codex", left)
        BY <1>3, <2>2 DEF OldBackups
      <3>2. /\ backup \in Content /\ backup.notify = "tool" /\ backup.entries = {} /\ backup.keys = {}
        BY <3>1 DEF Blankness, Content
      <3>3. Ours(backup) = {} /\ OursIn(backup) = {} /\ Parsed(backup) = backup /\ backup # Garbled
        BY <3>2, Forms DEF Ours
      <3>4. FileOK("codex", backup)
        BY <3>2, <3>3, Forms DEF FileOK
      <3>5. \A x : x \in Items(backup) <=> x = Tool
        BY <3>2, ItemsOf
      <3>6. Parsed(cfg).notify = "birdybeep"
        BY <3>1, OldFilesOK, Forms DEF Harnesses
      <3> QED  BY <3>1, <3>2, <3>3, <3>4, <3>5, <3>6
    <2> QED  BY <2>1, <2>2
  <1>6. armed \subseteq Hashes
    <2>1. CASE seen
      <3>1. cfg \in Content
        BY <1>1, <1>3, <2>1, OldFilesOK
      <3>2. armed = {Hash(e) : e \in OursIn(cfg)} /\ cfg \in File
        BY <2>1, <3>1, Forms DEF Init
      <3> QED  BY <3>2, HashOf
    <2>2. CASE ~seen
      BY <2>2 DEF Init
    <2> QED  BY <2>1, <2>2
  <1>7. FormInv
    <2>1. seen \in BOOLEAN /\ (harness \notin Marked => ~seen)
      <3>1. CASE seen = FALSE
        BY <3>1
      <3>2. CASE seen = (harness \in Marked)
        <4>1. (harness \in Marked) \in BOOLEAN
          OBVIOUS
        <4>2. seen \in BOOLEAN
          BY <3>2, <4>1, Zenon
        <4>3. harness \notin Marked => ~seen
          BY <3>2, Zenon
        <4> QED  BY <4>2, <4>3
      <3> QED  BY <1>3, <3>1, <3>2
    <2> QED  BY <1>1, <1>2, <1>4, <1>5, <1>6, <2>1 DEF FormInv
  <1>8. ContentInv
    <2>1. mine = Items(cfg) \cup (IF backup = Absent THEN {} ELSE Items(backup))
      BY DEF Init
    <2>2. /\ Tool \in Items(cfg) <=> Parsed(cfg).notify = "tool"
          /\ Displaced(cfg) = IF Parsed(cfg).notify = "birdybeep" THEN {Tool} ELSE {}
      BY <1>4, ToolOf DEF FileOK, Damaged
    <2>3. backup = Absent => Parsed(backup).notify # "tool"
      BY Forms DEF Blankness
    <2>4. Items(cfg) = mine \ Displaced(cfg)
      BY <1>5, <2>1, <2>2
    <2>5. Displaced(cfg) # {} => (Tool \in mine <=> backup # Garbled /\ Parsed(backup).notify = "tool")
      BY <1>5, <2>1, <2>2, <2>3
    <2> QED  BY <1>2, <2>4, <2>5 DEF ContentInv, ContentPlan
  <1>9. CopyInv
    BY <1>1, <1>2 DEF CopyInv, CopyPlan
  <1>10. UninstallInv /\ InstallInv
    BY <1>2 DEF UninstallInv, RemovedPlan, InstallInv, InstalledPlan
  <1>11. MarkerInv
    <2>1. ASSUME seen, harness \in Marked PROVE Vouched
      <3>1. \E left \in Leftovers(harness) : cfg \in OldFiles(harness, left)
        BY <1>3, <2>1
      <3>2. cfg \in Content /\ Ours(cfg) # {}
        BY <1>1, <3>1, OldFilesOK
      <3>3. OursIn(cfg) = Ours(cfg) /\ armed = {Hash(e) : e \in Ours(cfg)}
        BY <2>1, <3>2, Forms DEF Init
      <3>4. \A e \in OursIn(cfg) : Hash(e) \in armed
        BY <3>3
      <3>5. harness = "opencode" => \A e \in OursIn(cfg) : Hash(e).step = "plugin"
        BY <1>4 DEF FileOK, EntryOK, Registered, Hash
      <3> QED  BY <3>2, <3>3, <3>4, <3>5 DEF Vouched
    <2> QED  BY <1>2, <2>1 DEF MarkerInv, MarkerPlan
  <1> QED  BY <1>7, <1>8, <1>9, <1>10, <1>11 DEF IInv

LEMMA StartsInv == ASSUME IInv, StartInstall \/ StartUninstall PROVE IInv'
  <1>1. PICK o : GoodPlan(o) /\ StartOp(o)
    <2>1. CASE StartInstall
      <3>0. PICK D \in Firsts(harness, cfg) :
              StartOp(CASE harness = "claude"   -> installClaudeCode(D)
                        [] harness = "cursor"   -> installCursor(D)
                        [] harness = "codex"    -> installCodex(D)
                        [] harness = "copilot"  -> installCopilot
                        [] harness = "opencode" -> installOpenCode)
        BY <2>1 DEF StartInstall
      <3>1. PICK o : o = CASE harness = "claude"   -> installClaudeCode(D)
                           [] harness = "cursor"   -> installCursor(D)
                           [] harness = "codex"    -> installCodex(D)
                           [] harness = "copilot"  -> installCopilot
                           [] harness = "opencode" -> installOpenCode
        OBVIOUS
      <3>2. StartOp(o) /\ ~Busy
        BY <3>0, <3>1 DEF StartOp
      <3>3. GoodPlan(o)
        BY <3>1, <3>2, InstallsClaude, InstallsCursor, InstallsCodex, InstallsCopilot,
           InstallsOpenCode DEF IInv, FormInv, Harnesses
      <3> QED  BY <3>2, <3>3
    <2>2. CASE StartUninstall
      <3>1. PICK o : o = CASE harness = "claude"   -> uninstallClaudeCode
                           [] harness = "cursor"   -> uninstallCursor
                           [] harness = "codex"    -> uninstallCodex
                           [] harness = "copilot"  -> uninstallCopilot
                           [] harness = "opencode" -> uninstallOpenCode
        OBVIOUS
      <3>2. StartOp(o) /\ ~Busy
        BY <2>2, <3>1 DEF StartUninstall, StartOp
      <3>3. GoodPlan(o)
        BY <3>1, <3>2, UninstallsClaude, UninstallsCursor, UninstallsCodex, UninstallsCopilot,
           UninstallsOpenCode DEF IInv, FormInv, Harnesses
      <3> QED  BY <3>2, <3>3
    <2> QED  BY <2>1, <2>2
  <1>2. ~Busy
    BY <1>1 DEF StartOp
  <1>3. FormInv'
    BY <1>1, StartsForm DEF IInv
  <1>4. ContentInv'
    BY <1>1, StartsContent DEF IInv
  <1>5. CopyInv'
    BY <1>1, <1>2, StartCopies DEF IInv
  <1>6. UninstallInv' /\ InstallInv'
    BY <1>1, StartsRemoved, StartsInstalled
  <1>7. MarkerInv'
    BY <1>1, <1>2, StartsMarker DEF IInv
  <1> QED  BY <1>3, <1>4, <1>5, <1>6, <1>7 DEF IInv

LEMMA NextInv == IInv /\ [Next]_vars => IInv'
  <1> SUFFICES ASSUME IInv, [Next]_vars PROVE IInv'
    OBVIOUS
  <1>1. CASE StartInstall \/ StartUninstall
    BY <1>1, StartsInv
  <1>2. CASE Step
    <2>1. FormInv' /\ ContentInv'
      BY <1>2, StepForm, StepContent DEF IInv
    <2>2. CopyInv' /\ UninstallInv'
      BY <1>2, StepCopies, StepRemoved DEF IInv
    <2>3. MarkerInv' /\ InstallInv'
      BY <1>2, StepMarker, StepInstalled DEF IInv
    <2> QED  BY <2>1, <2>2, <2>3 DEF IInv
  <1>3. CASE Crash \/ Fire \/ RunHook \/ Arm \/ MoveCli \/ UserEdits \/ RestoreBackup
    <2>1. FormInv' /\ ContentInv'
      BY <1>3, OthersForm, OthersContent, EditsContent DEF IInv
    <2>2. CopyInv' /\ UninstallInv'
      BY <1>3, OthersCopies, OthersRemoved DEF IInv
    <2>3. MarkerInv' /\ InstallInv'
      BY <1>3, OthersMarker, OthersInstalled DEF IInv
    <2> QED  BY <2>1, <2>2, <2>3 DEF IInv
  <1>4. CASE UNCHANGED vars
    <2>1. FormInv'
      BY <1>4 DEF IInv, FormInv, vars, OpOK, Pending, FileOK
    <2>2. ContentInv' /\ CopyInv'
      BY <1>4 DEF IInv, ContentInv, ContentPlan, CopyInv, CopyPlan, vars, Pending
    <2>3. UninstallInv' /\ InstallInv'
      BY <1>4 DEF IInv, UninstallInv, RemovedPlan, InstallInv, InstalledPlan, vars, Pending, Clean,
                  Healed, Recorded
    <2>4. MarkerInv'
      BY <1>4 DEF IInv, MarkerInv, MarkerPlan, Vouched, vars, Pending
    <2> QED  BY <2>1, <2>2, <2>3, <2>4 DEF IInv
  <1> QED  BY <1>1, <1>2, <1>3, <1>4 DEF Next

LEMMA Invariance == Spec => []IInv
  BY InitInv, NextInv, PTL DEF Spec

-----------------------------------------------------------------------------
(* The promises.                                                           *)

\* Whatever is run, edited, moved or broken off, every file, marker and record has one of
\* the forms the code writes.
THEOREM TypeCorrect == Spec => []TypeOK
  <1>1. IInv => TypeOK
    <2> SUFFICES ASSUME FormInv PROVE TypeOK
      BY DEF IInv
    <2>1. \A r : Allowed(harness, r) \subseteq Effects
      BY DEF Allowed, Effects
    <2>2. /\ op.draft \in File /\ op.result \in Results /\ Range(op.todo) \subseteq Effects
      BY <2>1 DEF FormInv, OpOK, FileOK, Pending
    <2> QED  BY <2>2 DEF TypeOK, FormInv, FileOK
  <1> QED  BY <1>1, Invariance, PTL

\* No sequence of installs and uninstalls takes from the file, or adds to it, anything of
\* the user's: commands beside ours, keys, or the notify program an older release displaced.
THEOREM ContentStays == Spec => []UserContentKept
  <1>1. IInv => UserContentKept
    BY DEF IInv, ContentInv, UserContentKept, Displaced, Tool
  <1> QED  BY <1>1, Invariance, PTL

\* Whenever a file is truncated or half written, the backup has what of the user's it held
\* when an install first overwrote it, and Codex's dated copies what it held at the later
\* overwrites.
THEOREM CopyStays == Spec => []LastCopyKept
  <1>1. IInv => LastCopyKept
    <2> SUFFICES ASSUME FormInv, CopyInv,
                        cfg \in Damaged \/ (harness = "copilot" /\ isManagedCopilotHooks(cfg)),
                        {"raced", "blind", "torn"} \cap tainted = {}
                 PROVE  saved \subseteq Items(backup) \cup dated
      BY DEF IInv, LastCopyKept
    <2>1. CASE cfg \in Damaged
      BY <2>1 DEF CopyInv
    <2>2. CASE harness = "copilot" /\ isManagedCopilotHooks(cfg)
      <3>1. Items(cfg) = {}
        BY <2>2, WhollyOurs DEF FormInv, FileOK
      <3> QED  BY <2>2, <3>1 DEF CopyInv
    <2> QED  BY <2>1, <2>2
  <1> QED  BY <1>1, Invariance, PTL

\* After an uninstall that reports a removal nothing of ours is left, in the file or
\* beside it, unless a hook in flight put its marker back.
THEOREM UninstallIsClean == Spec => []UninstallClean
  <1>1. IInv => UninstallClean
    <2> SUFFICES ASSUME FormInv, RemovedPlan(op), ~Busy, op.result = "removed"
                 PROVE  /\ Clean(cfg) /\ backup = Absent /\ ~migrated /\ launcher = None
                        /\ seen => "doubt" \in tainted
      BY DEF IInv, UninstallInv, UninstallClean, Clean
    <2>1. Pending(op) = {}
      BY Resting
    <2> QED  BY <2>1 DEF RemovedPlan
  <1> QED  BY <1>1, Invariance, PTL

\* What an inspection reads off a file.
LEMMA Inspected ==
    ASSUME FormInv
    PROVE  /\ Inspection.parseable <=> ~(cfg = Garbled \/ (cfg = Empty /\ harness # "codex"))
           /\ Inspection.parseable =>
                /\ Inspection.present = Registered(harness) \ Missing(harness, Parsed(cfg))
                /\ Inspection.legacyNotify = (Parsed(cfg).notify = "birdybeep")
                /\ Inspection.stale = {} <=> \A e \in OursIn(cfg) : Resolves(e.ours)
  <1>1. CASE cfg = Garbled \/ (cfg = Empty /\ harness # "codex")
    BY <1>1 DEF Inspection, inspectConfig
  <1>2. CASE ~(cfg = Garbled \/ (cfg = Empty /\ harness # "codex"))
    <2>1. PICK S : S = UNION {staleHookCommandPaths(cmd, cli) :
                                cmd \in installedBirdyBeepCommands(Parsed(cfg))}
      OBVIOUS
    <2>2. Inspection = [parseable |-> TRUE,
                        present |-> Registered(harness) \ Missing(harness, Parsed(cfg)),
                        stale |-> S, legacyNotify |-> Parsed(cfg).notify = "birdybeep"]
      BY <1>2, <2>1 DEF Inspection, inspectConfig
    <2>3. OursIn(cfg) = Ours(Parsed(cfg))
      BY <1>2, Forms DEF FormInv, FileOK
    <2>4. installedBirdyBeepCommands(Parsed(cfg)) = {e.ours : e \in OursIn(cfg)}
      BY <2>3 DEF installedBirdyBeepCommands
    <2>5. S = {} <=> \A e \in OursIn(cfg) : staleHookCommandPaths(e.ours, cli) = {}
      BY <2>1, <2>4
    <2> QED  BY <1>2, <2>2, <2>5 DEF Resolves
  <1> QED  BY <1>1, <1>2

\* Where doctor finds nothing wrong the harness is installed, and each hook that the
\* adapter registers starts a CLI that is there and that the harness trusts or has loaded.
THEOREM DoctorIsHonest == Spec => []DoctorHonest
  <1>1. IInv => DoctorHonest
    <2> SUFFICES ASSUME FormInv, MarkerInv, Doctor = {}, "doubt" \notin tainted
                 PROVE  /\ Status = "installed" /\ ~codexTurnCompleteIsDark
                        /\ \A step \in Registered(harness) : Fires(step)
      BY DEF IInv, DoctorHonest
    <2>1. PICK s : s = Inspection
      OBVIOUS
    <2>2. \A check, cond : Fails(check, cond) = {} => ~cond
      BY DEF Fails
    <2>3. s.parseable => s.present = Registered(harness) \ Missing(harness, Parsed(cfg))
      BY <2>1, Inspected
    \* The hooks that are registered are there, and the CLI they start.
    <2>4. ASSUME s.parseable, s.present = Registered(harness)
          PROVE  /\ \A step \in Registered(harness) : \E e \in OursIn(cfg) : e.step = step
                 /\ OursIn(cfg) # {}
      <3>1. OursIn(cfg) = Ours(Parsed(cfg))
        BY <2>1, <2>4, Inspected, Forms DEF FormInv, FileOK
      <3>2. Missing(harness, Parsed(cfg)) = {}
        BY <2>3, <2>4 DEF Missing
      <3>3. Registered(harness) # {}
        BY StepsOf DEF FormInv
      <3> QED  BY <3>1, <3>2, <3>3 DEF Missing
    <2>5. ASSUME s.parseable, s.stale = {} PROVE \A e \in OursIn(cfg) : Resolves(e.ours)
      BY <2>1, <2>5, Inspected
    <2>6. Registered(harness) # {}
      BY StepsOf DEF FormInv
    <2>7. CASE harness = "claude"
      <3>1. claudeCodeDoctor(s) = {}
        BY <2>1, <2>7 DEF Doctor
      <3>2. s.parseable /\ s.present = Registered("claude") /\ s.stale = {}
        BY <2>2, <2>6, <2>7, <3>1 DEF claudeCodeDoctor
      <3>3. Status = "installed"
        BY <2>1, <2>7, <3>2 DEF Status, claudeCodeStatus
      <3> QED  BY <2>4, <2>5, <2>7, <3>2, <3>3 DEF FormInv, Fires, codexTurnCompleteIsDark
    <2>8. CASE harness = "cursor"
      <3>1. cursorDoctor(s) = {}
        BY <2>1, <2>8 DEF Doctor
      <3>2. s.parseable /\ s.present = Registered("cursor") /\ s.stale = {}
        BY <2>2, <2>6, <2>8, <3>1 DEF cursorDoctor
      <3>3. Status = "installed"
        BY <2>1, <2>8, <3>2 DEF Status, cursorStatus
      <3> QED  BY <2>4, <2>5, <2>8, <3>2, <3>3 DEF FormInv, Fires, codexTurnCompleteIsDark
    <2>9. CASE harness = "copilot"
      <3>1. copilotDoctor(cfg, s) = {}
        BY <2>1, <2>9 DEF Doctor
      <3>2. /\ s.parseable /\ isCopilotHooksWithTimeout(cfg, "managed")
            /\ cfg # Absent => s.stale = {}
        BY <2>2, <3>1 DEF copilotDoctor
      <3>3. cfg \in Content /\ {e.step : e \in cfg.entries} = Registered("copilot")
            /\ \A e \in cfg.entries : e.ours # None
        BY <3>2 DEF isCopilotHooksWithTimeout, isBirdyBeepEntry, isBirdyBeepHookCommand, FormInv,
                    FileOK, File
      <3>4. OursIn(cfg) = cfg.entries /\ cfg # Absent
        BY <3>3, Fields, Forms, SMTT(30)
      <3>5. Status = "installed"
        BY <2>1, <2>9, <3>2 DEF Status, copilotStatus
      <3>6. \A step \in Registered("copilot") : \E e \in OursIn(cfg) : e.step = step
        BY <3>3, <3>4
      <3> QED  BY <2>5, <2>9, <3>2, <3>4, <3>5, <3>6 DEF FormInv, Fires, codexTurnCompleteIsDark
    <2>10. ASSUME harness \in Marked, seen, OursIn(cfg) # {} PROVE Vouched
      BY <2>10 DEF MarkerInv
    <2>11. CASE harness = "codex"
      <3>1. codexDoctor(s, seen) = {}
        BY <2>1, <2>11 DEF Doctor
      <3>2. s.parseable /\ s.present = Registered("codex") /\ s.stale = {} /\ seen
        BY <2>2, <2>6, <2>11, <3>1 DEF codexDoctor
      <3>3. Status = "installed"
        BY <2>1, <2>11, <3>2 DEF Status, codexStatus
      <3>4. Vouched
        BY <2>4, <2>10, <2>11, <3>2 DEF Marked
      <3>5. \A step \in Registered(harness) :
              \E d \in OursIn(cfg) : d.step = step /\ Hash(d) \in armed
        BY <2>4, <2>11, <3>2, <3>4 DEF Vouched
      <3> QED  BY <2>5, <2>11, <3>2, <3>3, <3>5 DEF Fires, codexTurnCompleteIsDark
    <2>12. CASE harness = "opencode"
      <3>1. opencodeDoctor(s, launcher, cli, seen) = {}
        BY <2>1, <2>12 DEF Doctor
      <3>2. s.parseable /\ s.present # {} /\ seen
        BY <2>2, <3>1 DEF opencodeDoctor
      <3>3. s.present = Registered("opencode")
        BY <2>3, <2>12, <3>2 DEF Registered
      <3>4. Status = "installed"
        BY <2>1, <2>12, <3>2, <3>3 DEF Status, opencodeStatus
      <3>5. Vouched
        BY <2>4, <2>10, <2>12, <3>2, <3>3 DEF Marked
      <3> QED
        BY <2>12, <3>2, <3>4, <3>5 DEF Vouched, Fires, codexTurnCompleteIsDark, Registered
    <2> QED  BY <2>7, <2>8, <2>9, <2>11, <2>12 DEF FormInv, Harnesses
  <1> QED  BY <1>1, Invariance, PTL

\* Whatever an install set out from, each hook the adapter registers then has a command
\* that starts the CLI that is there, and doctor asks at most for trust or a restart,
\* unless another command of ours stands beside those, or OpenCode's CLI cannot name its
\* path.
THEOREM InstallsHeal == Spec => []InstallHeals
  <1>1. IInv => InstallHeals
    <2> SUFFICES ASSUME FormInv, InstallInv, ~Busy, op.result = "installed", "raced" \notin tainted
                 PROVE  /\ Doctor \subseteq
                             {"trusted", "loaded"}
                             \cup (IF Crowded(cfg) \/ (harness = "opencode" /\ cli = Bare)
                                   THEN {"resolves"} ELSE {})
                        /\ harness # "opencode" =>
                             \A step \in Registered(harness) :
                                 \E e \in OursIn(cfg) : e.step = step /\ e.ours = cli
      BY DEF IInv, InstallHeals
    <2>1. Healed(cfg) /\ (harness = "opencode" => launcher = Recorded)
      BY Resting DEF InstallInv, InstalledPlan
    <2>2. PICK s : s = Inspection
      OBVIOUS
    <2>3. /\ cfg \in Content /\ Parsed(cfg) = cfg /\ Missing(harness, cfg) = {}
          /\ cfg.notify # "birdybeep" /\ OursIn(cfg) = Ours(cfg)
          /\ harness # "opencode" =>
               \A step \in Registered(harness) : \E e \in OursIn(cfg) : e.step = step /\ e.ours = cli
          /\ harness = "copilot" =>
               isCopilotHooksWithTimeout(cfg, "managed") /\ \A e \in OursIn(cfg) : e.ours = cli
      <3>1. CASE harness = "copilot"
        <4>1. /\ cfg \in Content /\ cfg.notify = "none" /\ isCopilotHooksWithTimeout(cfg, "managed")
              /\ Missing("copilot", cfg) = {} /\ \A e \in Ours(cfg) : e.ours = cli
          BY <2>1, <3>1, Generated DEF Healed, FormInv
        <4>2. OursIn(cfg) = Ours(cfg) /\ Parsed(cfg) = cfg
          BY <4>1, Forms
        <4>3. \A step \in Registered("copilot") : \E e \in Ours(cfg) : e.step = step
          BY <4>1 DEF Missing
        <4> QED  BY <3>1, <4>1, <4>2, <4>3
      <3>2. CASE harness # "copilot"
        BY <2>1, <3>2, Forms DEF Healed
      <3> QED  BY <3>1, <3>2
    \* Where no command of ours stands beside another, all are those of this install.
    <2>10. ASSUME harness # "opencode", ~Crowded(cfg) PROVE \A e \in OursIn(cfg) : e.ours = cli
      <3> SUFFICES ASSUME NEW e \in OursIn(cfg) PROVE e.ours = cli
        OBVIOUS
      <3>1. \A d, f \in OursIn(cfg) : d.step = f.step \/ f.step \notin Registered(harness) => d = f
        BY <2>10 DEF Crowded
      <3>2. PICK step : step \in Registered(harness)
        BY StepsOf DEF FormInv
      <3>3. e.step \in Registered(harness)
        BY <2>3, <2>10, <3>1, <3>2
      <3>4. PICK d \in OursIn(cfg) : d.step = e.step /\ d.ours = cli
        BY <2>3, <2>10, <3>3
      <3> QED  BY <3>1, <3>4
    <2>4. /\ s.parseable /\ s.present = Registered(harness) /\ s.legacyNotify = FALSE
          /\ harness # "opencode" /\ ~Crowded(cfg) => s.stale = {}
      <3>1. s.parseable /\ s.present = Registered(harness) /\ s.legacyNotify = FALSE
        BY <2>2, <2>3, Inspected, Forms DEF Damaged
      <3>2. Resolves(cli)
        BY DEF Resolves, staleHookCommandPaths
      <3> QED  BY <2>2, <2>10, <3>1, <3>2, Inspected
    <2>5. CASE harness = "claude"
      BY <2>2, <2>3, <2>4, <2>5 DEF Doctor, claudeCodeDoctor, Fails
    <2>6. CASE harness = "cursor"
      BY <2>2, <2>3, <2>4, <2>6 DEF Doctor, cursorDoctor, Fails
    <2>7. CASE harness = "codex"
      BY <2>2, <2>3, <2>4, <2>7 DEF Doctor, codexDoctor, Fails
    <2>8. CASE harness = "copilot"
      BY <2>2, <2>3, <2>4, <2>8 DEF Doctor, copilotDoctor, Fails
    <2>9. CASE harness = "opencode"
      <3>1. Doctor = opencodeDoctor(s, launcher, cli, seen)
        BY <2>2, <2>9 DEF Doctor
      <3>2. s.present # {}
        BY <2>4, <2>9 DEF Registered
      <3>3. launcher # None => staleHookCommandPaths(launcher, cli) = {}
        BY <2>1, <2>9 DEF Recorded, staleHookCommandPaths
      <3>4. launcher = None => cli = Bare
        BY <2>1, <2>9, ConfigAssumption DEF Recorded, FormInv
      <3> QED  BY <2>4, <2>9, <3>1, <3>2, <3>3, <3>4 DEF opencodeDoctor, Fails
    <2> QED  BY <2>5, <2>6, <2>7, <2>8, <2>9 DEF FormInv, Harnesses
  <1> QED  BY <1>1, Invariance, PTL

=============================================================================
