# Specifications of chatgpt-web-oauth-mcp

TLA+ modules, TLC configurations and TLAPS proofs for the parts of the MCP
server whose correctness depends on the order of events or on many small steps
fitting together: background jobs that outlive the server, the OAuth grants kept
in one file, the exchange of servers behind one socket, the Codex runtimes that
share one App Server process, edits of several files at once, commands with a
deadline and a token budget, and the pages in which every reading tool answers.
`PROJECT.json` maps every definition to the source lines it stands for.

Paths below are relative to `src/chatgpt_web_oauth_mcp/` of the repository.

## 1. The system

The server is one Python process behind a rolling-reload supervisor. Tool calls
run in threads; requests of the OAuth endpoints run on the event loop. State
that survives a call lives in files under the state directory, in child
processes, and in a few locked in-memory registries.

| Component | State | Operations | Interacts with | Hard part |
|---|---|---|---|---|
| Durable jobs (`shell.py` `JobRegistry`, `job_supervisor.py`) | `metadata.json` and its flock per job; bootstrap, supervisor and command processes | `start_job`, `job_status`, `job_kill`, `_reconcile_metadata`, `supervise_job` | the kernel (signals, process groups), every later tool call | four kinds of processes share one record; any may die; process ids are reused |
| Job output (`shell.py`) | log files, cursors | `output_job`, `tail_job`, `list_jobs` | the record's status | end of file against a job that still writes; characters cut at the end |
| Commands (`shell.py`) | pipes, reader threads, captures of a call | `run_command`, `run_commands` | process groups, worker threads | timeout against completion; descendants that keep a pipe open; token budgets |
| OAuth (`oauth.py`) | `oauth.json`: clients, codes, tokens, refresh tokens | `register_client`, `authorize`, `exchange_code`, `refresh_access_token`, `verify_access_token` | the HTTP layer; the other server process of a reload | whole-file replacement without a lock; rotation, grace and revocation |
| App server adapter (`codex_runtime/app_server.py`) | process, pending requests, claimed and abandoned threads, elicitation pool | `start`, `thread_start`, `release_thread`, `cleanup_abandoned_threads`, `_wait_pending`, `_read_stdout` | reader threads, the Codex process | answers that race timeouts, process generations |
| Runtime manager (`codex_runtime/manager.py`) | bindings, live and pending-release threads, slots | open, acquire, resume, close, exec, mcp_call, collection, eviction | adapter, binding store | capacity, compensation, stale bindings |
| Binding store (`codex_runtime/bindings.py`) | one JSON file and its lock | `load`, `save` | manager, restarts | save that fails |
| Rolling reload (`supervisor.py`) | current child, reload and stop flags | `_reload_server`, `run` | server processes, signals | two servers at once; a child that dies during a reload |
| Replacement and patches (`replacing.py`, `patching.py`, `files.py`) | locks, files | `replace_files`, `apply_patch`, `write_file` | the file system, other server processes | one of several writes failing; writers that take no lock |
| Reading and search (`files.py`, `search.py`, `gitops.py`, `content_io.py`, `tools_files.py`) | none between calls; offsets the reader brings back | `list_files`, `read_text`, `grep_files`, `git_diff`, `git_show`, hexadecimal reads, `code_map`, and batches of them | ripgrep, git, the response budget | joining pages; context of matches; items larger than a page |
| tmux (`tmux_ops.py`) | none; the tmux server | start, send, read, kill | panes that vanish | target replaced between look-up and use |
| Git (`gitops.py`) | none; the repository | worktree create, remove | git | one of several commands failing |
| Budgets (`response_budget.py`, `shell.py`) | none | allocation, pagination | tool results | rounding, zero and boundary cases |
| Sessions (`session.py`) | a locked dictionary | get and set of a directory | tools | - |
| HTTP, tools, guidance, configuration, scripts | none that operations share | wrappers and pure functions | all of the above | - |

What makes the components correct:

- **Jobs**: a delivered kill is what the job is reported to have ended by; a kill
  that returns success leaves nothing of the group; no stranger is signalled; a
  verdict is true and final; every job is decided in the end.
- **OAuth**: a code is spent once; a revoked grant stays dead; the grace period
  for retries counts from the first use; no write loses another grant; the file
  is whole after a crash.
- **Output**: reading with cursors returns every unit once and in order, and
  reports the end only of a finished job.
- **Codex**: every thread of the running app server is bound, live, waiting for
  release or abandoned, and is released once; a request never runs on a thread
  that was released or belongs to another process generation; the number of
  runtimes stays below the limit.
- **Edits**: all of a batch or none of it; two batches never deadlock and never
  lose each other's replacements; a refused patch has changed nothing.
- **Reload**: the endpoint is served throughout; no request to reload is
  forgotten; no server is left running unknown; a stop ends.
- **Commands**: nothing of the group outlives a timeout; the output is that of the
  command and of everything it started; the budget is kept and divided fairly.
- **Pages**: the pages of a reading join to the whole, their end means the end,
  and every page that is not the last gets further or says why it cannot.

The hazards, each at its line and with the properties that watch it, are in
`PROJECT.json`.

## 2. Modules

| Module | Contents |
|---|---|
| `DurableJob` | one durable job: start, bootstrap, supervisor, command group, status and kill calls, faults; properties and mutants |
| `JobContract` | what a job promises to its clients; `DurableJob` implements it |
| `MCDurableJob` | symmetry of callers for TLC |
| `DurableJobProofs` | theorems about `DurableJob`: types, what a kill puts on record and what it leaves, verdicts, whom signals reach, and that it implements `JobContract` |
| `OAuthStore` | `oauth.json`, its requests and the steps of its replacement, by one or several server processes; properties and mutants |
| `OAuthStoreProofs` | theorems about `OAuthStore` |
| `RollingReload` | the supervisor: signals, readiness, exchange of servers; properties and mutants |
| `RollingReloadProofs` | theorems about `RollingReload` |
| `ReloadedStore` | composition: the servers of `RollingReload` answer the requests of `OAuthStore` |
| `ReloadedStoreProofs` | EXTENDS `OAuthStoreProofs`, instantiates `RollingReloadProofs`: the composition keeps what its parts promise |
| `CodexRuntime` | the runtime manager with its bindings file, the ownership of threads in the adapter, the App Server process; properties and mutants |
| `MCCodexRuntime` | tools and their symmetry for TLC |
| `CodexRuntimeProofs` | theorems about `CodexRuntime` |
| `FileEdits` | batches of replacements, patches and whole-file writes by several server processes; reference definitions, properties and mutants |
| `MCFileEdits` | the calls that are made and the files there are |
| `FileEditsProofs` | theorems about `FileEdits`: types, answers, late changes, the order of batches, and patches as sequences of operations |
| `TokenBudget` | capture of a stream, division of a token budget, the text that is shown |
| `Commands` | EXTENDS `TokenBudget`: the processes, threads and calls of `run_command` and `run_commands`; properties and mutants |
| `MCCommands` | the calls that are made |
| `CommandsProofs` | theorems about `TokenBudget` and `Commands` |
| `PageRules` | how each tool fills one page: items, lines, jobs, batches of files, diffs, logs |
| `GrepStream` | EXTENDS `PageRules`: ripgrep's events, the collectors of a search, and what a search should find |
| `Paging` | EXTENDS `GrepStream`: a reader who goes on from page to page, and a log that grows meanwhile; properties and mutants |
| `MCPaging` | what is read |
| `PagingProofs` | theorems about `PageRules` and `Paging`: every reader but that of a search in the contents of files |

### DurableJob and the code

The record `meta` keeps what the protocol reads of `metadata.json`: the status,
whether a `pid` and a `supervisor_pid` are on it, and `kill_signal`. Every update
goes through `mutate_job_metadata` under `.metadata.lock`. A holder that reads,
decides and writes without an interaction in between is one step taken while
`lock = Nobody`. `job_kill` signals the group while it holds the lock, so the
lock is held over two steps there (`KillSignal`, `KillPublish`).

| Actions | Code |
|---|---|
| `Starter...` | `JobRegistry.start_job` step by step, with the failure path `_job_start_failure` and `_cleanup_startup_attempt` |
| `Boot...` | `_detach_and_supervise`, `_wait_for_detached_supervisor`, `_terminate_and_reap_detached_child` |
| `Sup...` | `supervise_job`: publication of itself, fork and publication of the command, wait, SIGTERM handler, escalation, verdict |
| `Call`, `Recheck`, `RecheckFails`, `Kill...`, `Wait...`, `Return` | `job_status` and `job_kill`, with the reconciliation every call begins with |
| `CommandExits`, `KidForked`, `KidExits`, `PidReused`, `SupKilled`, `SupTermed`, `ServerCrash` | the operating system, external |

Forking and binding are separate steps (`SupFork`/`SupBind`, `BootFork`/`BootBind`)
because a signal handler may run after `fork(2)` and before `Popen` returns.
Each kind of failure is switched on by the constant `Faults`, so that a run
tells which failures a property survives.

Simplifications: an exit code is zero or not; capturing a process identity
succeeds (it reads `/proc`); a check of the identity and the signal after it
are one step, as the reuse of a process id within microseconds is not
considered; the supervisor's id is not reused; members of a group do not leave
it; a member whose handler outlasts SIGTERM counts as `stubborn`; the observation
a status call makes before it takes the lock is merged with the call, which is
sound because `_interrupt_stale_record` checks again under the lock.

### OAuthStore and the code

`file` and `tmp` are `oauth.json` and `oauth.json.tmp`. A request is one action
from `_read_store` to the call of `_write_store`: no handler awaits in between, so
requests of one process do not overlap. The replacement is four steps: `Truncate`
opens the temporary file, `Fill` writes it, `Replace` renames it, and `Answer`
hands the reply to the client. `Crash` ends a request at any of them: the server
is killed, or the connection breaks. `handle` follows the inode that a process
has open: a rename by the other process turns an open temporary file into
`oauth.json` itself. `reply` carries what the client learns with the answer, so
`held` and `revoked` are what clients know and not what a lost reply said.

Secrets are drawn from one counter, `issued`; they are fresh in the code because
they are random. Checks of PKCE, redirect URI, resource and scope decide only
whether a request is refused (`ExchangeRefused`); a refusal that writes nothing
changes nothing and is no action.

### CodexRuntime and the code

`bind` is `_bindings`, with the thread, the status and whether the runtime is the
acquired name; `older` and `idle` stand for `last_used_at` (the pairs of runtimes
of which the first was used before the second; those not used for
`idle_ttl_seconds`); `disk` is the file. `live`, `pendrel`, `obs`,
`active` and `slots` are the manager's other fields, `claimed` and `aband` the
adapter's sets for the present process, and `late` and `stuck` its abandoned
requests. `loaded` is what the App Server process (external) has in memory, and
`gen` is `connection_generation`.

A section under `_lock` is one step: it maps the record `World` of what it reads to
the set of worlds it may leave, each with whether it raised (`Ok`, `Raised`), and
sections are composed as the methods call each other (`Collected`, `Evicted`,
`Capacity`, `CollectedAll`). `_allocation_lock` spans several steps (`alloc`). A tool
that needs it waits at the place `lock`, and the steps that begin with the lock are those of a
tool to which it is `Given`. What the tool was asked is chosen there, since nothing is
read before.

| Actions | Code |
|---|---|
| `Wait` | entering `with self._allocation_lock` |
| `Open`, `Acquire`, `Resume`, `EnsureCapacity`, `SyncBefore`, `Lookup`, `TakeSlot`, `NoSlot`, `StartThread`, `ResumeThread`, `SyncAfter`, `Commit`, `Undo`, `Replaced` | `_open_runtime`, `_acquire_runtime`, `_resume_runtime` with `_compensate_allocation` |
| `MismatchedThread`, `ThreadError`, `ThreadTimeout` | the ways `thread/start`, `thread/resume` and the start of the App Server (`StartFails`) fail |
| `Close`, `Status`, `List`, `Refused` | `close_runtime`, `runtime_status`, `_collect_expired_idle` from the list and `server_info`; the refusals under the lock |
| `Collect` | `_collect_expired_idle` from the collector thread, whose own wait for the lock is its being enabled |
| `Use`, `UseSlot`, `UseRefused`, `Send`, `UseAnswered`, `UseFails`, `UseTimesOut`, `TouchAfter` | `exec_command`, `mcp_inventory`, `mcp_call` with `_request_slot` and both calls of `_touch` |
| `Claim`, `LateAnswer`, `LateError`, `StuckAnswer` | `_resolve_response` in the reader thread |
| `Dies`, `Restart`, `Ages` | the App Server process ends; the MCP server restarts; time passes |

The reader thread announces an answer and claims its thread in two steps
(`StartThread` or `ResumeThread`, then `Claim`), as the code does. Threads of
`Harness` never ran a turn and cannot be resumed when they are not loaded: the start that
follows the refused resume is part of the same step, and a timeout is of either request. A
thread with another directory comes of a start, of a resume or of such a start.

Simplifications: all acquired names are one name and opened runtimes have none;
working directories and sandboxes matter only where they do not match
(`MismatchedThread`); the release of several threads in one section is one step, as
`_lock` and `_lifecycle_lock` are held throughout; two unanswered calls of one tool
to one thread are told apart from none only; the elicitation bridge and the
limit of 128 pending requests are left to a later module.

### RollingReload, ReloadedStore and the code

The handlers only set `reload` and `stop`; the loop of `run` is `Look`, `Poll` and
the phases in between. A phase is a place where the supervisor may wait: for the
readiness pipe (`await`: `SpawnReady`, `SpawnExits`, `SpawnTimeout`), for a server
given up (`reject`), for the old server (`drain`), for the last one (`finalwait`).
`server` is the state of each process; `strays` are servers that outlived the five
seconds after SIGTERM. `WritePid` and `InstallHandlers` are separate, as a signal may
fall between them. `ReloadedStore` lets a server begin requests from its start on
(it listens before the supervisor reads its readiness), a leaving one complete those it has
begun, and turns the end of a process into `Crash` of the
request it was in.

### FileEdits and the code

A text is a sequence of lines, one of which (`Bad`) stands for bytes that are not
UTF-8. `replace_files` is a loop of steps for each of its phases: `LockPath`,
`PlanPath`, `RecheckPath`, `WritePath` or `SkipPath`, `VerifyPath`, and on failure
`RestorePath` and `ConfirmRestored`, backwards over the attempted files. Its
`_atomic_write` is one step, failing before or after the rename (`WriteFails`).
The files are locked in one order whatever the order of the request
(`OrderedPaths`), and a request that is conflicting or cannot be used is refused
before anything is locked (`Unusable`).
`apply_patch` plans every operation from the disk (`PlanOperation`) and then applies
them: `write_text` truncates (`OpenForWriting`) and writes (`FillFile`), to a file that a
rename may have `orphaned` meanwhile. `Dies` releases the locks, as the kernel does.
The variables under "history" record what the properties compare with and are read by no
guard. Simplifications: regular expressions match a line or do not; newline
styles and encodings decide only whether a file decodes; `validate_only` is the
dry run; returned diffs are left out.

### Commands, TokenBudget and the code

`run` has one record per command. `leader` and `kid` are the shell and a descendant
which may hold pipes, have left the process group, or ignore SIGTERM (`MCCommands`
lists the combinations). `Read` is one `read` of `_drain_pipe`, which blocks for a
full chunk. The calling thread is `pc`: `waiting`, `joining`, `term`, `grace`, `collect`,
`closing`, `render` follow `run_command` and `_terminate_process_tree` line by line.
`Render` maps the captured texts, whose token counts are any up to `MaxNeed`, to the
views that `_render_captured_output` may produce; `Rendered` is its loop of
re-measurements, whose last cut is not measured again. `AnswerBatch` divides half of the budget among the texts of all
commands. Simplifications: the tokens of a text cut to `a` are any number up to `a`;
two texts put together measure at most `SeamMax` tokens more or less than alone (the
theorems hold for every such bound, the run has one);
whether the envelope of a batch fits in full, compacted or summarised is left open;
a batch is two commands at most.

### PageRules, GrepStream, Paging and the code

What the tools do to fill one page are operators of `PageRules`, one for each
manner: `Collected` (entries, symbols, lines of `read`, hexadecimal, searches in a batch, with
the second cut when the wrapper has added its fields), `Lines`, `Jobs`, `Files`,
`Diff`, `LogPage`. `GrepStream` defines the collectors over ripgrep's events, next to
what a search finds by definition (`Found`). `Paging` is the reader: `Ask`,
`AskBatch`, `AskRest` are calls that answer at once; a search is a loop of
`ReadEvent` (`AskGrep`, `ReadMalformed`, `AnswerGrep`); `job_output` is
`ReadStatus`, `ReadSize`, `ReadBytes`, `Answer`, between which the job writes and
ends. The reader takes each `next_offset` as it is told. Items are numbers, sizes
are tokens, and a character has one or two bytes; the order of files is the one
that the tool has sorted them in. An event that ripgrep should never send (a field
that is missing or not UTF-8, `search.py:240-247`, or a first event that cannot be read) ends
the search with `backend_error` and no page; the reader is where it was, so it is no
action. What is listed does not change between pages:
offsets count into a fresh listing every time, and the code promises nothing
else.

## 3. Runs

| Run | Instance | Shows |
|---|---|---|
| `job_contract` | two callers, one kid; server crash, reuse of the group's number | `TypeOK`, `KillAttributed`, `KillLeavesNothing`, `StrangersSpared`, and that the job implements `JobContract` (`KeepsContract`) |
| `job_faults` | one caller, one kid; slow and unresponsive starts, SIGTERM to the supervisor, failing writes | `VerdictTrue` (success means exit zero, interruption that both recorded processes are gone) and `VerdictStands` (what is decided stays) |
| `job_settles` | one caller, one kid; death of the supervisor and of the server; fairness | `EventuallySettled` |
| `oauth_grants` | one server that may be killed anywhere, five secrets, four instants | `StoreSound` (types, and the file is whole), `CodeSpentOnce`, `RevokedStaysDead`, `GraceFromFirstUse`, `WriteKeepsGrants` |
| `oauth_reload` | two servers, no crash | violates `NeverReauthorizes` (the finding) |
| `reload` | two servers, two clients, limit one, two signals; failing and late starts, crashes, early signals, death of the supervisor | `ServedThroughout`, `RequestsKept`, `ServersKnown`, `SupervisorStops`, and `ClientsBounded` of the store the servers share |
| `codex_deaths` | two tools, two runtimes, two slots; the App Server may end once, or not start; mismatched threads; one thread without a rollout | `BindingsSound` (types, one binding each), `RequestKeepsThread`, `AnswerIsOfBinding` |
| `codex_faults` | two tools, one runtime, one slot; timeouts, errors, failing saves and releases, server restarts; one thread without a rollout | `CapacityHolds`, `FileAgrees`, `CallKeepsThread` |
| `codex_ends` | two tools, one slot; timeouts; fairness | `AbandonedIsReleased`, and `RequestsEnd` of waits for the lock, for a slot and for answers |
| `edits` | two callers, three paths, twelve calls, one failing write or death | `TypeOK`, `AnswersTrue`, `ChangesSeen`, `PatchIsSequential`, `CallsEnd` |
| `commands` | single commands of four kinds, a batch in turn, a batch in parallel, a refused one | `TypeOK`, `TimeoutKillsGroup`, `OutputExact`, `BudgetKept`, `RunsEnd` |
| `pages` | everything within `MCPaging`'s bounds, for every limit and every `max_bytes` | `PagesJoin`, `ContextsExact`, `EndMeansAll`, `PagesAdvance` |

**Bounds.** Two callers are enough for every race of two kills or of a kill and a
reconciliation: the lock admits one caller at a time, and a third caller meets
the same record as the second. One kid distinguishes a group that outlives its
leader from one that does not. The faults are spread over runs that each
combine those which interact. Five secrets allow a code, its pair and three uses
of one refresh token, which a grace period that moves with every use needs to
show; four instants allow a use within the grace period, one after it and the
end of the retention. In `reload` one secret is enough, since its subject on the
store's side is the limit on clients and the state of the files, a rename that
finds the temporary file gone included; two servers and two
signals make a reload and a request that arrives during it, which stays
pending when no server is left to start. In the Codex runs two
tools make every pair of concurrent operations, the collector being a third
process; `ThreadBound`, `RuntimeBound` and `GenBound` bound the threads started,
the runtime ids drawn and the connections, and are taken into account before an
operation begins, so that none stops in the middle. Two threads and two ids
allow a thread to be replaced, and a binding to be collected and its thread
bound again; the App Server ends once, which separates two generations. What is
asked of a runtime differs in two ways, whether it names the thread and whether it is
remembered when it times out: `codex_deaths`, where nothing times out, has `list` and `exec` for
`Kinds`, and the other two runs `call` and `exec`. With
one runtime no run evicts several victims at once: the section that drops some of them
and fails at another is covered by `CapacityKept` and `FileIsTrue` only.
`edits` makes one call per process: batches over the same two files named in
opposite orders, with and without an expected text, beyond the limit, dry and
conflicting; patches that update, move, add, delete, miss their context, or are
malformed; a write of bytes. One fault (`MaxFaults`) is enough for a rollback and for a
rollback that fails after the write of the other caller. In `commands` the capture
holds six bytes and chunks have two (`ReadChunk`), so that a line break falls on a
chunk and on the boundary of head and tail; texts of up to four tokens
(`MaxNeed`) exceed a budget of three, while a batch of two divides one token, so that
what is handed on from round to round of the division is left to `AllocationIsFair`; `Rounds` is two where the code makes eight,
because two re-measurements of two streams reach every view of this size. In
`pages` a response has room for six tokens, and sizes go from what fits several
times to what never fits; one more match than `MaxPending` may wait; a log has up to
four bytes, which puts a split character at every place of a page. Deadlock is
checked in the job and Codex runs. The other runs come to an end by their nature
or their bounds (`CHECK_DEADLOCK FALSE`): a reader has read everything, a call is
answered once, secrets, signals and servers are used up.

**Fairness.** `FairSpec` of `DurableJob` assumes that each process takes the next step it can
take (the scheduler), that commands end, that the 5 second deadlines pass, and
that some client asks for the job's status again and again: nothing in the
server decides a job whose supervisor has died until a call reconciles it.
Strong fairness is not needed: a waiting caller stays enabled until the
lock is free, and the lock is held over one step only. The `FairSpec` of
`CodexRuntime` assumes that the steps of a request are taken (waits for slots and
answers have deadlines), that the App Server answers late and abandoned
requests in the end, and, strongly, that the collector thread and each tool that
waits for the allocation lock get it when it is free again and again: `threading.RLock`
promises no order, and others may hold it whenever one looks. Whether it becomes free
is for `RequestsEnd` to show, as its holder waits for slots and answers; a lock
that is never given back shows as a deadlock besides. Nothing is assumed of clients. `FileEdits` assumes that a process goes on with its
call; a batch that waits for a lock has no timeout in the code, and `CallsEnd`
holds because the locks are taken in one order. The supervisor of `ReloadedStore`
is fair since each of its waits has a timeout; nothing is assumed of servers, of
clients or of signals. `Commands` assumes that the calling thread, the reader threads and the
clock go on, and nothing of the commands: a command need never end, write or heed
a signal. `Paging` assumes nothing: `PagesAdvance` says that each page gets
further, and offsets are bounded.

**Mutants.** For each property of a passing run `PROJECT.json` names a change of
one definition, of the kind a bug would make, under which TLC finds the
property violated.

## 4. Findings

During a rolling reload the old and the new server replace `oauth.json` without a
lock, through the same temporary name (`oauth.py:441`). A refresh token that a client
has just received can be overwritten, although README.md promises that a
connection that keeps refreshing never needs reauthorization (`oauth_reload`).

The models also show the following. No run is about them. Where a property
would deny one, it is defined beside the others with a comment saying so, and
the properties that are checked are stated so that they hold.

Jobs:

- `_interrupt_stale_record` (`shell.py:1068`) marks a job interrupted, with the
  reason `supervisor_and_command_gone_without_terminal_record`, when no process id
  is on record after 5 seconds. A bootstrap that is merely slow looks the same:
  it then starts the command and turns the record back to running
  (`job_supervisor.py:375`). `InterruptedMeansGone` would deny it.
- After a start that timed out, the cleanup (`shell.py:1487`) gives the
  supervisor 0.25s between SIGTERM and SIGKILL. A command the supervisor has
  forked and not yet published survives when it ignores SIGTERM or when the
  signal falls between fork and the return of `Popen`, though
  `tests/test_job_tools.py` expects the process to be gone.
  `FailedStartLeavesNothing` would deny it.

OAuth and reload:

- Reuse of a rotated refresh token removes the refresh tokens of its family only
  (`oauth.py:257`). An access token does not name its grant and is accepted until
  it expires, though README.md:158 says that the whole grant is revoked.
- A SIGHUP between the writing of the pid file and the installation of the handlers
  ends the supervisor and leaves the pid file.
- A start that is not ready in time and does not end within five seconds of SIGTERM
  (`supervisor.py:127`) is left to itself when `wait` raises: the supervisor does not
  wait for it any more, at its own end neither.

Codex:

- A finished request touches its binding twice, the second time after it was
  unregistered (`manager.py:562`, 639, 680). A close in between is undone: the
  runtime is ready again, though `codex_runtime_close` is said to mark it detached.
  `ClosedStaysDetached` would deny it.
- `_resume_runtime` compares the connection generation before it looks for the
  thread among the live ones (`manager.py:396-404`). When the App Server ends in
  between and another tool starts the next process, the resume reports
  `reattached` for a thread that is not loaded.
- A thread is claimed after its answer is announced (`app_server.py:642-653`). A
  resume that is refused for capacity may compensate in between
  (`manager.py:738-766`): nothing is released, `resources_released` is reported, and
  the thread stays loaded.
- The clean-up of abandoned threads asks for pending requests only
  (`app_server.py:255`), not for requests that are registered and not sent, though
  `guidance.py:201` says that active requests prevent release. `RequestKeepsThread`
  therefore holds in `codex_deaths`, where nothing times out, and would not with
  time-outs; with them `CallKeepsThread`, about calls that were sent, holds
  (`codex_faults`), and so does `UsedStays` of `CodexRuntimeProofs`: the binding
  itself is not dropped.
- A ready binding may name a thread that the present process has not loaded,
  after another tool has restarted the App Server: calls on it are answered with
  an error until the runtime is resumed.
- A thread whose directory does not match is neither bound nor released
  (`manager.py:175`).

Edits:

- The operations of a patch are all planned from the disk. Two updates of one file
  in one patch are both reported as applied and the second overwrites the first
  (`patching.py:467`). `EveryOperationArrives` would deny it; `PatchIsSequential` is
  about patches that name each file once.
- A patch is applied in place and file by file: a failing write leaves the earlier
  files changed and may leave its own file empty.
- A patch decodes with replacement characters and writes the whole file back, so
  bytes that are not UTF-8 are changed even far from the hunk.
- Locks bind batches only. Between the recheck and the write of a batch
  (`replacing.py:288`) the change of a patch or of a command is overwritten; this is
  the `late` of `ChangesSeen`.

Commands:

- `close()` of a pipe waits for the read that is blocked in it (`shell.py:2082`). A
  descendant that has left the group and keeps a pipe open delays the answer as
  long as it lives, beyond every timeout. `AlwaysAnswers` would deny it; `RunsEnd`
  excepts it.

Pages:

- A search that meets a malformed or oversized event gives up the file it is counting
  and may end before matches that were parsed, though the comment at `search.py:894`
  promises to keep what was parsed. `ParsedIsKept` would deny it (with
  `Sources <- CutSearches`).
- In a summary a search that was cut is reported as complete (`search.py:1016-1029`).
  `EndMeansAll` therefore has summaries of streams that are whole (`GrepSources`).
- Matches over several lines that touch are one event of ripgrep, and lines of the
  one are missing from the context of the other, though `search.py:472` says that
  a later matching line is still context. `ContextsExact` therefore has multiline
  searches with separate matches only (`JoinedSearches` are the others).
- A first item that is larger than a page gives an empty page with `next_offset` where
  it was, and nothing in the answer says why; likewise a search of a batch that
  exceeds its envelope, a parse error of `code_map_symbols` beyond the budget, and more
  than a thousand matches that wait for their context. `Readily` excepts them in
  `PagesAdvance`.
- A `max_bytes` of `git_diff` or `git_show` that is smaller than the next character gives
  `next_offset` where it was without `continuation_blocked`.
- Members of a job's group that go on writing after the job has ended add to a log
  whose end has been reported. `EndMeansAll` speaks of what was there at that moment.
- When a log grows between the read and the second look at its size, `job_output`
  answers an empty page with `has_more`.

## 5. Proofs

The theorems hold for every value of the constants that the named assumptions of
the modules admit, and under every set of faults unless a hypothesis says
otherwise. Each inductive invariant was first checked by TLC on the instances of
section 3. A proof that a step keeps it has one lemma or step for each action.

**DurableJob** (from: `Nobody` is no caller, the leader is no kid, `Faults` are
known faults).

- `JobTyped`: `Spec => []TypeOK`. `TypeOK` is inductive; `IdleParts` covers what an
  action leaves alone.
- `KillIsAttributed`: `Spec => []KillAttributed`. The property does not say why the
  supervisor cannot book the exit between the signal and the write of
  `kill_signal`. `KillProtocol` adds that the lock is held exactly in that interval
  and the record is undecided then (`LockedKill`), that a kill which was sent is on
  record afterwards (`KillRecorded`), and that a recorded kill decides the verdict
  (`KillDecides`). Starter, bootstrap, supervisor and environment preserve it as
  `Bystander`s.
- `NoStrangerIsHit`, `VerdictsAreTrue`, `VerdictIsFinal` (`StrangersSpared`,
  `VerdictTrue`, `VerdictStands`): from `VInv`, which adds the order in which the
  processes come into being (`Order`), that a group's number is given away only when
  nothing of the group is left (`Reuse`), and that the supervisor ends with a decided
  record (`Ended`). TLC checks each property with the faults of one run, the theorems
  hold with all of them together.
- `KilledGroupIsGone`: `Spec => []KillLeavesNothing`, from `KillsLeft`: for each
  place of a kill call, what of the signalled group may still be there.
- `ContractKept`: `Spec => KeepsContract`, the refinement of `JobContract`, where
  nothing fails but the server and the numbers of ended groups are reused
  (`CalmFaults`). It needs `Calm`: the starter never comes to clean up, the
  supervisor goes its way with the record, and only a job whose server died before it
  spawned anything grows stale. `JobGoesWell` is that invariant; each step then maps
  to a step of the contract or to a stutter. With slow starts or killed supervisors
  the job reports things the contract does not have (section 4), so the
  hypothesis cannot be dropped.

**RollingReload and OAuthStore** (for every number of servers, clients and signals,
and every lifetime and limit).

- `Supervised`: `RSpec => []RInv`. The properties need to know which servers each
  phase is about (`Roles`), where the pid file and the handlers are (`PidFile`), and
  who may be alive (`AllKnown`). `PhasesFit`, `EndpointStays`, `HangupHeard` and
  `AllServersKnown` follow.
- `LimitHolds`: `Spec => []ClientsBounded` for any number of servers, although they
  count and write without a lock: each writes the table it has counted.
- `StoreStaysSound`, `CodeIsSpent`, `RevocationIsFinal`, `GraceIsOnce`,
  `GrantsSurviveWrites`: for one server (`OneServer`), since two of them do lose each
  other's writes (the finding of section 4). `GrantInv` says who owns the temporary
  file (`Alone`), that what clients hold is accounted for in the file and in the
  store about to replace it (`Grants`), and the same of the reply that is under
  way (`Pending`), so that a crash at any of the four steps of a write keeps it.
- `StoreImplemented`: `CSpec => Spec`. The composition `ReloadedStore` implements
  `OAuthStore`: the end of a server is one of its crashes. `SupervisorKept` carries
  `RInv` over to the composition (the lemma `SameSupervisor` identifies the
  instances); `EndpointServedThroughout`, `HangupsKept`, `AllServersAccounted` and
  `ClientsStayBounded` follow.
- `OverlapBounded`: outside of a reload only the current server, or one left over from
  a failed start, is in a request. This bounds the overlap that the finding is about.

**FileEdits** (for every set of paths, server processes and requests; from
`TextsAreOfLines`: files and replacements are sequences of lines, and
`CallsAreRequests`: a batch names finitely many files and a patch is a sequence of
operations on paths, which the tools' schemas see to).

- `EditsTyped`, `AnswersAreTrue`, `OverwritesAreLate` (`TypeOK`, `AnswersTrue`,
  `OverwritesOnlyLateChanges`): from `EInv`. It says of every place of a call which
  files are locked, planned, written, verified and restored, that a lock has one
  holder and the holder is in a batch, and which changes of others the call has seen.
  The lemmas about finite sets of numbers (`LeastNatural`, `LeastComesFirst`) show that the
  files of a batch can be put in order.
- `BatchesInOrder`: `Spec => []ChangesSeen`. Its other half, that two batches which
  change a file in common are serial, needs `BInv`: the holder of a lock has seen all that
  other batches have done to the file, since whoever wrote it before held the lock.
- `PatchesSequential`: `Spec => []PatchIsSequential`. `PInv` follows the plan: what has
  been planned of a file is what the operations so far make of the text that was
  read, and what has been written is what is planned. The property compares with a
  fold over the operations; the fold is shown to be a chain of states, one for each
  operation, by the least number for which no such chain exists.

**Commands and TokenBudget** (for every set of calls, every size of chunks, of the
capture and of the budget, every bound on seams, and every number of `Rounds` but none; from `CallsAssumption`: a call is
made of requests and has at least one worker).

- `OutputIsExact`: `Spec => []OutputExact`. `AddIsCapture` says that adding a chunk to
  the capture of a text gives the capture of the text and the chunk, whichever of head
  and tail the boundary falls into and even where it cuts CR from LF; the counts are
  shown by sets of places (`BreaksOfBoth`). The invariant says that the capture of each
  stream is that of what was read of it (`Capturing`) and that a pipe at its end has no
  holder and nothing left in it (`Reading`), so nothing is lost between the exit of the
  shell and the answer.
- `GroupKilled`: `Spec => []TimeoutKillsGroup`. `Course` says which processes may live at
  each place of the call: the property alone does not exclude a fork by a shell that
  was already killed.
- `BudgetIsKept`: `Spec => []BudgetKept`. `AllocationIsFair` is the theorem on
  `_allocate_stream_token_budgets` for all needs and every budget: the shares add up to
  the budget or to all that is needed, none exceeds its need, and two that are cut differ
  by one at most. It rests on `FeedingGoesOn` (feeding those who need no more than an equal
  share never lowers that share), on `SumSplits` (a term may be taken out of
  a sum) and on `DealingAddsUp` (the remainder is dealt out one by one). `RenderedWell` shows
  the same of the text that is shown: each round of the tightening keeps what is
  shown within its shares and marked, and the last resort makes it fit.
- `CommandsTyped`: `Spec => []TypeOK`, the bound on the commands under way included.

The recursive functions of these modules (`Unsatisfied`, `Rendered`, sums and folds) are
reasoned about without an induction theorem: that a function with the defining
equation exists, and what it yields, is shown for the least number or the smallest
set for which it would fail.

**CodexRuntime** (for every number of tools, runtimes, slots, threads and
connections, every set of kinds of requests and of threads without a rollout).

- The lemmas on worlds: every operator that stands for a section under `_lock`
  leads to a world that `Follows` the one before. It is `Sound` (types, the file
  agrees, `older` orders the bindings), has no more bindings and the same threads
  in them, loads no thread, unloads none with unanswered requests, drops no binding of
  a registered request, and unloads no thread of one unless threads are abandoned.
- `CodexInvariant`: `Spec => []CInv`. Besides `Sound` and the types: runtime and thread
  ids are drawn before they are used (`Drawn`), whoever allocates holds
  `_allocation_lock` (`LockHeld`), the slots taken and the requests registered are
  those of the tools in between (`Counted`), and what an allocation has looked up stays
  so until its binding is entered (`Reserved`, `Alone`). `BindingsAreSound`,
  `CapacityKept` and `FileIsTrue` follow.
- `CallsKeepThread`, `UsedBindingStays`, `RequestsKeepThread`: no step unloads a thread
  under an unanswered call, drops the binding of a registered request, or, where
  nothing times out, unloads its thread. The last hypothesis is the condition under
  which the property holds at all (section 4).
- `AnswersAreOfBinding`: `Spec => AnswerIsOfBinding`. A binding may get another
  thread while a request of it is registered, when its thread never ran a turn and was
  unloaded. `FInv` says that the thread is `Gone` then: it is neither loaded nor can it
  be, since a thread whose start is still unanswered is known to no binding
  (`HiddenOnes`). So the request cannot be answered.

**PageRules and Paging** (for everything that may be read, every `Room`, `MaxBytes`,
limit and `max_bytes`, and every log; from `PageAssumption`, `PendingAssumption` and
`ReadingAssumption`: there is room for a token and a byte, the schemas admit no
negative limit, and items, lines and characters are not empty). `NoSearch` holds of
every reader but that of a search in the contents of files; what is read never
becomes something else, so the hypothesis is about the initial state.

- `PagesAreJoined`: `Spec => [](NoSearch => PagesJoin)`. `PagesJoin` is not inductive. For
  lists, `IInv` says that what the reader has is `Span(0, cursor)`; for diffs, that the
  cursor is where a character ends (`DiffInv`), however a page was cut or
  halved; for logs, that what has been read, followed by what the bytes from the
  cursor on are decoded to, is what the whole log is decoded to, *whatever bytes
  are still written* (`Expands`). So a character whose second byte is yet to come is
  neither decoded twice nor lost. `Decodes` is the lemma under it: the
  first units of a part of the log are the first ones of the log, as long as the
  part was not taken for the end. `CallInv` says what a call of `job_output` knows between its
  reads of status, size and bytes, while the job goes on. For batches of
  files, `BatchInv` and `LineInv` say which lines of each file are there: all that the
  place in the batch, or the page of the file itself, stands for (`UptoIn`); a file
  goes on in one place only (`Lone`).
- `TheEndIsReached`: `Spec /\ []NoSearch => EndMeansAll`. For a log it needs the order of the
  reads in `CallInv`: with a status that was read as over, and nobody left
  behind to write, the size read after it is final.
- `ReadersAdvance`: `Spec /\ []NoSearch => PagesAdvance`, from what each page rule promises
  where an item fits (`CollectedList`, `LinesList`, `JobsList`, `DiffTold`, `LogTold`,
  `BatchTold`).

`Size`, `Halved`, `UnitsOf` and `FlattenSeq` are recursive functions; what they yield is again
shown for the least number for which it would fail. A log is decoded from its last
byte to its first, so `ReadsExist` goes down.

**Only model-checked.**

- Liveness is out of the prover's reach: `EventuallySettled`, `AbandonedIsReleased`,
  `RequestsEnd`, `CallsEnd`, `SupervisorStops`, `RunsEnd`.
- Searches in the contents of files: `ContextsExact`, and the part of `PagesJoin`,
  `EndMeansAll` and `PagesAdvance` that is about them. The events that ripgrep sends are
  sorted and flattened sets of lines, what a search should find is
  selected from them (`SelectSeq`, of which the prover knows nothing), and an invariant
  would have to relate both through the buffer of matches that wait.

## 6. Plan

In this order:

1. The collectors of a search: an invariant that relates the matches that wait, and
   the lines remembered, to the events consumed so far, and from it `ContextsExact`.
2. `CodexAdapter`: the pending table with its limit, the handshake, the elicitation
   pool, and the reader thread's use of the lifecycle lock during a release.
3. `TmuxPane` and `Worktree`.

**Not modelled.** tmux sessions, and git worktrees and commits: they are
sequences of commands of another program, whose state would have to be modelled
with them; planned last. The HTTP layer beyond the store, the working directory of
a session, argument checks, wording and registration of the tools, configuration, environment
snapshots, and the installation scripts keep no state over which
operations could race. `job_tail` is one read without a continuation. PDF and image
reads, the decoding of text, and the parsing of symbols and imports for the code map
are functions of one file's contents. `replace_in_file` of `files.py` is not reached
by a tool.
