----------------------------- MODULE HookEvents -----------------------------
(* What a fire of `birdybeep hook` makes of its payload: which adapter takes *)
(* it, whether that adapter recognizes it, and the event it becomes. Titles, *)
(* bodies and metadata are texts; the body is kept as a tag, because two     *)
(* payloads of one moment may map to one type with different contents.       *)
EXTENDS FiniteSets

Harnesses == {"claude", "codex", "opencode", "cursor", "copilot"}

\* What the vendors put into every payload: the event's name under one of two
\* keys (Copilot passes it as an argument instead), and a mark of the vendor.
KeyOf(by) == CASE by = "opencode" -> "type" [] by = "copilot" -> "none"
               [] OTHER -> "hook_event_name"
HasCursorVersion(p) == p.by = "cursor"
HasSessionId(p) == p.by = "copilot"

HookNamed(p, names) == p.key = "hook_event_name" /\ p.name \in names
TypeNamed(p, names) == p.key = "type" /\ p.name \in names

CLAUDE_CODE_HOOK_EVENTS ==
    {"Notification", "PermissionRequest", "PostToolUse", "PreCompact", "PreToolUse",
     "SessionEnd", "SessionStart", "Stop", "StopFailure", "SubagentStop",
     "TaskCompleted", "TaskCreated", "UserPromptSubmit"}
CODEX_HOOK_EVENTS ==
    {"PermissionRequest", "PostCompact", "PostToolUse", "PreCompact", "PreToolUse",
     "SessionEnd", "SessionStart", "Stop", "SubagentStart", "SubagentStop",
     "UserPromptSubmit"}
CODEX_NOTIFY_TYPES == {"agent-turn-complete"}
CURSOR_HOOK_EVENTS ==
    {"afterAgentResponse", "afterAgentThought", "afterFileEdit", "afterMCPExecution",
     "afterShellExecution", "afterTabFileEdit", "beforeMCPExecution", "beforeReadFile",
     "beforeShellExecution", "beforeSubmitPrompt", "beforeTabFileRead", "postToolUse",
     "postToolUseFailure", "preCompact", "preToolUse", "sessionEnd", "sessionStart",
     "stop", "subagentStart", "subagentStop", "workspaceOpen"}
OPENCODE_EVENT_TYPES ==
    {"permission.asked", "permission.replied", "permission.updated", "session.created",
     "session.error", "session.idle", "session.status", "session.updated",
     "tool.execute.after", "tool.execute.before"}
COPILOT_HOOK_EVENTS ==
    {"sessionStart", "userPromptSubmitted", "preToolUse", "postToolUse", "agentStop",
     "subagentStop", "errorOccurred", "sessionEnd"}

isCursorHookPayload(p) == p.key = "hook_event_name" /\ HasCursorVersion(p)

\* Cursor loads Claude Code's hooks too and runs them with payloads of its own.
resolveHookHarness(cmd, p) ==
    IF cmd = "claude" /\ isCursorHookPayload(p) THEN "cursor" ELSE cmd

\* Mutated form: a payload without a name is taken to be Copilot's.
recognizesNamed(h, p) ==
    CASE h = "claude"   -> HookNamed(p, CLAUDE_CODE_HOOK_EVENTS)
      [] h = "cursor"   -> HookNamed(p, CURSOR_HOOK_EVENTS)
      [] h = "codex"    -> HookNamed(p, CODEX_HOOK_EVENTS) \/ TypeNamed(p, CODEX_NOTIFY_TYPES)
      [] h = "opencode" -> TypeNamed(p, OPENCODE_EVENT_TYPES)
      [] h = "copilot"  -> TRUE
recognizesPayload(h, p) ==
    CASE h = "claude"   -> HookNamed(p, CLAUDE_CODE_HOOK_EVENTS)
      [] h = "cursor"   -> HookNamed(p, CURSOR_HOOK_EVENTS)
      [] h = "codex"    -> HookNamed(p, CODEX_HOOK_EVENTS) \/ TypeNamed(p, CODEX_NOTIFY_TYPES)
      [] h = "opencode" -> TypeNamed(p, OPENCODE_EVENT_TYPES)
      [] h = "copilot"  -> HasSessionId(p)

(* The mappings. A name without an entry throws, which the pipeline takes as *)
(* a quiet skip; an entry is the event's type and the tag of its body.       *)
Unmapped == [type |-> "unmapped", body |-> ""]
Ev(type) == [type |-> type, body |-> type]

mapClaudeEvent(name, detail) ==
    CASE name = "SessionStart" -> Ev(IF detail = "resume" THEN "session_resumed" ELSE "session_started")
      [] name = "Notification" -> IF detail = "permission_prompt"
                                  THEN [type |-> "approval_required", body |-> "message"]
                                  ELSE Ev(IF detail = "idle_prompt" THEN "agent_idle" ELSE "needs_input")
      [] name = "PermissionRequest" -> Ev("approval_required")
      [] name = "Stop" -> Ev("agent_completed")
      [] name = "StopFailure" -> Ev("agent_failed")
      [] name = "SubagentStop" -> Ev("subagent_completed")
      [] name = "SessionEnd" -> Ev("session_ended")
      [] OTHER -> Unmapped

isCodexInternalResultPayload(name, detail) ==
    name \in {"Stop", "agent-turn-complete"} /\ detail = "internal"

mapCodexEvent(name, detail) ==
    IF isCodexInternalResultPayload(name, detail) THEN Unmapped ELSE
    CASE name = "SessionStart" -> Ev(IF detail = "resume" THEN "session_resumed" ELSE "session_started")
      [] name = "PermissionRequest" -> Ev("approval_required")
      [] name = "PostToolUse" -> Ev("tool_finished")
      [] name = "SubagentStart" -> Ev("subagent_started")
      [] name = "SubagentStop" -> Ev("subagent_completed")
      [] name \in {"Stop", "agent-turn-complete"} -> Ev("agent_completed")
      [] OTHER -> Unmapped

mapCursorEvent(name, detail) ==
    CASE name = "sessionStart" -> Ev("session_started")
      [] name = "sessionEnd" -> IF detail = "completed"
                                THEN [type |-> "agent_completed", body |-> "session"]
                                ELSE Ev("session_ended")
      [] name = "stop" -> Ev("agent_completed")
      [] name = "beforeShellExecution" -> Ev("approval_required")
      [] name = "beforeMCPExecution" -> [type |-> "approval_required", body |-> "mcp"]
      [] name = "preToolUse" -> Ev("tool_started")
      [] name = "postToolUse" -> Ev("tool_finished")
      [] name = "postToolUseFailure" /\ detail # "interrupt" -> Ev("agent_failed")
      [] name = "subagentStart" -> Ev("subagent_started")
      [] name = "subagentStop" -> Ev("subagent_completed")
      [] OTHER -> Unmapped

mapOpenCodeEvent(name, detail) ==
    CASE name = "session.created" -> Ev("session_started")
      [] name = "session.updated" -> Ev("session_active")
      [] name = "session.status" -> IF detail = "idle" THEN [type |-> "agent_idle", body |-> ""]
                                    ELSE [type |-> "session_active", body |-> detail]
      [] name = "session.idle" -> Ev("agent_idle")
      [] name = "session.error" -> Ev("agent_failed")
      [] name = "permission.asked" -> Ev("approval_required")
      [] name = "tool.execute.before" -> Ev("tool_started")
      [] name = "tool.execute.after" -> Ev("tool_finished")
      [] OTHER -> Unmapped

\* Copilot's event is the argument of the command, whatever the payload says.
mapCopilotEvent(name) ==
    CASE name = "sessionStart" -> Ev("session_started")
      [] name = "userPromptSubmitted" -> Ev("session_active")
      [] name = "preToolUse" -> Ev("tool_started")
      [] name = "postToolUse" -> Ev("tool_finished")
      [] name = "agentStop" -> Ev("agent_completed")
      [] name = "subagentStop" -> Ev("subagent_completed")
      [] name = "errorOccurred" -> Ev("agent_failed")
      [] name = "sessionEnd" -> Ev("session_ended")
      [] OTHER -> Unmapped

mapEvent(h, arg, p) ==
    CASE h = "claude"   -> mapClaudeEvent(p.name, p.detail)
      [] h = "codex"    -> mapCodexEvent(p.name, p.detail)
      [] h = "cursor"   -> mapCursorEvent(p.name, p.detail)
      [] h = "opencode" -> mapOpenCodeEvent(p.name, p.detail)
      [] h = "copilot"  -> mapCopilotEvent(arg)

LocalOnly == {"tool_started", "tool_finished"}
Notified == {"needs_input", "approval_required", "agent_idle", "agent_completed",
             "agent_failed", "test_failed", "test"}
\* Types the table does not list are sent.
shouldSendEventType(type) == type \notin LocalOnly
isNotifiableEventType(type) == type \in Notified

(* The moments of a harness and the commands its configuration runs for each. *)
(* A fire names the command, its argument and the payload it is handed.       *)
Fire(cmd, arg, by, name, detail) ==
    [cmd |-> cmd, arg |-> arg,
     payload |-> [by |-> by, key |-> KeyOf(by), name |-> name, detail |-> detail]]
Own(h, name) == Fire(h, "", h, name, "")
Told(h, name, detail) == Fire(h, "", h, name, detail)
Copilot(name) == Fire("copilot", name, "copilot", "", "")
\* The notify program, or a chain of tools that forwards to it: the payload is
\* an argument, keyed by type.
CodexNotify(name, detail) ==
    [cmd |-> "codex", arg |-> "notify",
     payload |-> [by |-> "codex", key |-> "type", name |-> name, detail |-> detail]]
Bridged(name, detail) == Fire("claude", "", "cursor", name, detail)
\* With both configurations installed Cursor runs both commands.
CursorBoth(name, detail) == {Told("cursor", name, detail), Bridged(name, detail)}
\* Mutated form: permissions are not forwarded.
ForwardedWithoutAsks ==
    {"session.created", "session.updated", "session.status", "session.idle", "session.error"}
FORWARDED_BUS_EVENTS ==
    {"session.created", "session.updated", "session.status", "session.idle",
     "session.error", "permission.asked"}
Forwarded(name, detail) ==
    {f \in {Told("opencode", name, detail)} :
        name \in FORWARDED_BUS_EVENTS \cup {"tool.execute.before", "tool.execute.after"}}

Moment(by, kind, fires) == [by |-> by, kind |-> kind, fires |-> fires]
Plain(by, kind, name, detail) == Moment(by, kind, {Told(by, name, detail)})

ClaudeMoments ==
    {Plain("claude", "start", "SessionStart", ""),
     Plain("claude", "start", "SessionStart", "resume"),
     Moment("claude", "approval", {Own("claude", "PermissionRequest"),
                                   Told("claude", "Notification", "permission_prompt")}),
     Plain("claude", "waits", "Notification", "idle_prompt"),
     Plain("claude", "waits", "Notification", "question"),
     Plain("claude", "turnEnd", "Stop", ""),
     Plain("claude", "failure", "StopFailure", ""),
     Plain("claude", "other", "SubagentStop", ""),
     Plain("claude", "end", "SessionEnd", "")}
CodexMoments ==
    {Plain("codex", "start", "SessionStart", ""),
     Plain("codex", "start", "SessionStart", "resume"),
     Plain("codex", "approval", "PermissionRequest", ""),
     Plain("codex", "tool", "PostToolUse", ""),
     Plain("codex", "other", "SubagentStart", ""),
     Plain("codex", "other", "SubagentStop", ""),
     Plain("codex", "turnEnd", "Stop", ""),
     Moment("codex", "turnEnd", {Own("codex", "Stop"), CodexNotify("agent-turn-complete", "")}),
     Moment("codex", "hidden", {Told("codex", "Stop", "internal"),
                                CodexNotify("agent-turn-complete", "internal")}),
     Moment("codex", "foreign", {CodexNotify("another-tool", "")})}
CursorMoments ==
    {Moment("cursor", "start", CursorBoth("sessionStart", "")),
     Moment("cursor", "turnEnd", CursorBoth("stop", "")),
     Moment("cursor", "turnEnd", CursorBoth("sessionEnd", "completed")),
     Moment("cursor", "end", CursorBoth("sessionEnd", "aborted")),
     Moment("cursor", "tool", {Own("cursor", "preToolUse"), Own("cursor", "postToolUse")}),
     Moment("cursor", "approval", {Own("cursor", "preToolUse"), Own("cursor", "beforeShellExecution")}),
     Plain("cursor", "approval", "beforeMCPExecution", ""),
     Plain("cursor", "failure", "postToolUseFailure", ""),
     Plain("cursor", "hidden", "postToolUseFailure", "interrupt"),
     Plain("cursor", "other", "subagentStart", ""),
     Moment("cursor", "other", CursorBoth("subagentStop", "")),
     Plain("cursor", "hidden", "beforeSubmitPrompt", "")}
OpenCodeMoments ==
    {Moment("opencode", "start", Forwarded("session.created", "")),
     Moment("opencode", "other", Forwarded("session.updated", "")),
     Moment("opencode", "other", Forwarded("session.status", "busy")),
     Moment("opencode", "waits", Forwarded("session.status", "idle") \cup Forwarded("session.idle", "")),
     Moment("opencode", "failure", Forwarded("session.error", "")),
     Moment("opencode", "approval", Forwarded("permission.asked", "")),
     Moment("opencode", "tool", Forwarded("tool.execute.before", "")
                                \cup Forwarded("tool.execute.after", "")),
     Moment("opencode", "hidden", Forwarded("message.part.updated", "")),
     Moment("opencode", "hidden", {Own("opencode", "permission.replied")})}
CopilotMoments ==
    {Moment("copilot", "start", {Copilot("sessionStart")}),
     Moment("copilot", "other", {Copilot("userPromptSubmitted")}),
     Moment("copilot", "tool", {Copilot("preToolUse"), Copilot("postToolUse")}),
     Moment("copilot", "turnEnd", {Copilot("agentStop")}),
     Moment("copilot", "other", {Copilot("subagentStop")}),
     Moment("copilot", "failure", {Copilot("errorOccurred")}),
     Moment("copilot", "end", {Copilot("sessionEnd")})}
\* Commands run with another tool's payload, by a configuration that is shared.
Foreign(fire) == Moment(fire.payload.by, "foreign", {fire})
ForeignMoments ==
    {Foreign(Fire(h, IF h = "copilot" THEN "agentStop" ELSE "", "cursor", "stop", "")) :
        h \in Harnesses \ {"claude", "cursor"}}
    \cup {Foreign(Fire("claude", "", "codex", "SubagentStart", "")),
          Foreign(Fire("copilot", "bogus", "copilot", "", ""))}

Moments == ClaudeMoments \cup CodexMoments \cup CursorMoments
           \cup OpenCodeMoments \cup CopilotMoments \cup ForeignMoments

\* The moments that want the user: the reason the program exists.
WantsUser(m) == m.kind \in {"approval", "waits", "turnEnd", "failure"}
=============================================================================
