# A TLA+ model of HostBraid

HostBraid (`hb`) is a command-line tool that keeps *provider profiles* (a
reference `provider:name`, the provider company it belongs to and where its API
token is), lists the sites and environments of a hosting provider (Kinsta), and
runs remote commands over OpenSSH on one or many environments.  This directory
models the parts of it whose correctness depends on an order of events, on what
other programs do meanwhile, or on two parts of the code agreeing: commands of
several processes over two stores, files replaced under crashes, a pool of
threads driving child processes, a paged server that changes under the client,
and what an invocation says and leaves behind when its writes fail.

## 1. The system

Paths are under `src/crates/hostbraid-cli/src/` unless another crate is named.

| Part | State it keeps | Operations | Hard behaviour |
|---|---|---|---|
| Profile service (`profiles/service.rs`, `profiles/model.rs`, the profile commands of `commands/provider.rs`) | local variables of one update: what was staged, the previous token | `add`, `remove`, `set_default`, `set_credential`, `select`, `show` | two stores without a transaction; check, prompt, authenticate, then lock; rollback and cleanup after the lock is dropped |
| Profile file store (`profiles/store.rs`) | `profiles.json`, its lock file, temporary and (Windows) backup files | `load`, `update`, interrupted-replacement recovery | crash between any two file operations; readers beside a writer; failing sync |
| Profile file access (`profiles/store.rs`) | descriptors of the directory and the files | open, check owner, mode, links and type, bounded read, validate, limit of a write | another program puts something else in the way at any moment |
| Credentials (`profiles/credential.rs`) | the OS keyring, the process environment | collect from stdin, variable or prompt; get, set, delete; resolve at use time | the token is read later than it was accepted, and later than the profile |
| SSH batch executor (`ssh/mod.rs` `run_batch`) | next index, stop flag, cancellation flag, result slots | claim, execute, record, report | threads between a check and its use; fail-fast; cancellation by a signal |
| SSH child (`ssh/mod.rs` `execute_captured`, `run_inherited`) | child process group, two capture threads, a deadline | spawn, poll, kill and reap, drain, judge | exit, timeout, cancellation and capture failure racing at one poll; a descendant that holds the pipes |
| Captured output (`ssh/mod.rs`) | bytes per stream, the limit of the batch | share the budget, read, encode, report | arithmetic at the limits; a cut inside a character |
| SSH session (`ssh/mod.rs` arguments, `KinstaProvider::ssh_target`) | the argument array | check a target, build arguments, pool connections | a connection left by an earlier session; arguments read as options |
| Control directory (`ssh/mod.rs` `secure_control_path`) | a private directory, probe files | probe, create, check, take | several processes at once, killed at any step |
| SSH run (`commands/provider.rs` `run_remote_command`) | prepared targets and failures, merged report | confirm, load coordinates, fail fast, run, merge, exit status | results matched by position; answers out of order |
| Catalog and selection (`commands/catalog.rs`, `map_catalog`) | none | normalise, order, resolve, select by id, site, kind, label | a duplicate or a missing selector; the order of the response |
| Kinsta inventory (`hostbraid-provider-kinsta/src/lib.rs`) | pages seen, totals, item limits | page, refetch the catalog, join | the server changes between two pages |
| Kinsta transport (same file) | one request | check the token, send, read the body in chunks, map the status, validate a key | a slow, cut or endless answer |
| Doctor (`commands/doctor.rs`) | a probed child and its reader threads | spawn, wait with a bound, read, join, report | a reader that never ends |
| Entry and output (`lib.rs`, `context.rs`, `output.rs`) | none | run one command, write what it did or its error, exit status | a write that fails, wholly or after a part |
| Refused command lines (`cli.rs`) | none | find the format and the command of a line clap refused | two readers of one language |

The commands call the profile service; the service calls the store (one locked
update per command) and the keyring, inside and outside that update.  Every
provider command opens a *session*: it selects a profile under the lock, then
resolves the token without it, then talks to the provider.  `ssh run` selects
environments from a catalog snapshot, loads their coordinates, and hands them to
the batch executor, whose threads each drive one captured child at a time; the
report holds what was kept of their output.  Processes share only the two stores,
`profiles.json` and the keyring, and the control directory with the connections
in it.

What makes each part correct:

* profile service: profiles and keyring entries agree; no update is lost; the
  default exists; a profile never changes company; a token that outlives its
  profile was reported; a session gets a token of its profile's company.
* store: after a crash the file is the old or the new configuration, whole; a
  committed configuration is never replaced by an older one.
* file access: only private files of the user are used; what is saved loads.
* credentials: a token is taken whole or not at all, and what was accepted is
  accepted again; a locked store is not a missing credential.
* batch: one result per target, in order; each target is started at most once;
  at most `--jobs` at once; nothing starts after a worker saw the stop; every
  child is reaped before the report.
* child: the outcome matches what happened first; success means every byte was
  read; nothing is left running; the call returns.
* captured output: shares stay within the budget; the report says the limit that
  was applied; what was kept can be had back.
* session: the command runs where the API said, also over a shared connection,
  and as it was typed, unless it begins with a dash (section 4).
* control directory: private, the same for all, nothing else left behind.
* ssh run: each result is reported for its own environment; nothing runs
  unconfirmed, elsewhere, or behind a failure with `--fail-fast`; status 0 is
  success everywhere.
* selection: exact; independent of the order of the response.
* inventory: ends; whole or an error; an honest server is not refused.
* transport: ends; a part or an outage is never taken for an answer.
* doctor: a tool that hangs is never healthy; no tool is kept from ending.
* entry and output: status, output and effect tell one story.

## 2. Modules

| Module | What it is |
|---|---|
| `ProfileRegistry` | Abstract specification of `profiles.json`: register, unregister, rotate, use, each one atomic step. |
| `ProfileService` | The commands of any number of processes over `profiles.json`, the keyring and the file lock, step by step. |
| `ProfileServiceInvariant`, `ProfileServiceProofs` | Its inductive invariants and the theorems about it. |
| `AtomicStore` | Abstract specification of the file store: updates that take effect at once or not at all, loads, power loss. |
| `ProfileStore` | `load` and `update`, one file operation at a time, on Unix and Windows. |
| `ConfigFiles` | What the directory and the files may be, how each is opened and checked, on Unix. |
| `StoreParts`, `ProfileStoreProofs` | Both modules about the files side by side, and the theorems about them. |
| `Credential` | Where a token comes from and how later commands have it back. |
| `SshBatchContract` | Abstract specification of a batch, with no threads: targets that are queued, run, get an outcome, and are reported. |
| `SshBatch` | `run_batch`: the threads, their claims, the stop and cancellation flags, the slots, and the calling thread. |
| `SshBatchProofs` | Its inductive invariant, how few targets start late, and the theorem that it implements `SshBatchContract`. |
| `ChildContract` | Abstract specification of one child: at most one process, and an outcome for which there is a reason. |
| `CapturedChild` | `execute_captured` and `run_inherited`: the client, a descendant, the readers and the polls. |
| `CapturedChildProofs` | Its inductive invariant, and the theorem that it implements `ChildContract`. |
| `CaptureBudget` | The share of a stream and the limit in the report. |
| `CaptureEncoding` | The bytes of a stream as text or base64, and a reader that decodes them. |
| `Selection` | The catalog made of the provider's lists; the commands that name sites and environments in it. |
| `SshRun` | `hb ssh run` from the selected environments to the exit status, over `SshBatchContract`. |
| `RunParts`, `SshRunProofs` | `Selection` and `SshRun` side by side, and the theorems about them. |
| `SshSession` | From the answer of `ssh/config` to where the OpenSSH client gets by its arguments. |
| `ControlDirectory` | The search for a private directory for shared connections. |
| `SessionParts`, `SshSessionProofs` | Both side by side, and the theorems about them. |
| `InventoryContract` | Abstract specification of an inventory: all of one version that was current during the call, or an error. |
| `InventoryPaging` | The pages, the limits, the deadline, the refetch of the catalog and the join. |
| `ProviderRequest` | One bounded and timed request, and the validation of a credential on it. |
| `ProviderParts`, `ProviderProofs` | `InventoryPaging`, `ProviderRequest` and `Credential` side by side, and the theorems about them. |
| `ToolProbe` | The doctor over tools that print, hang, and leave descendants. |
| `CommandResult` | One invocation: what it writes, changes and exits with, every write failing. |
| `OutputParts` | `CaptureBudget`, `CaptureEncoding`, `ToolProbe` and `CommandResult` side by side. |
| `ArgumentScan`, `CommandPath` | The format and the command found in a line that clap refused, beside the grammar clap is given. |
| `CapturedOutputProofs` | The theorems about `OutputParts`, and the one about `CommandPath`. |
| `MC...` | Constants of the TLC instances, and which parts are checked in one run. |

### ProfileService and the code

| State | Code |
|---|---|
| `config` | the contents of `profiles.json` (`ProfileConfig`), a set of profiles and a default |
| `keyring` | the OS credential store, one entry per reference |
| `lock` | who holds the exclusive lock of `store.update`; a `load` waits for it to be free |
| `cmd[p]` | the command process `p` runs: its arguments, its step, and the local variables of the service (`working` the configuration being edited, `previous` = `previous_token`, `staged` = `keyring_written`, `wasKeyring` = `previous_was_keyring`) |
| `abandoned` | history only: references whose entry a crash or a reported failure may have left |

`Check` is the command's first look at `profiles.json` (then prompts and remote
authentication); `Acquire`, `Closure`, `ReadPrevious`, `Stage`, `Commit` or
`WriteFails` are `store.update` with the closure of the operation;
`Rollback` and `Cleanup` are what the service does after `update` has returned
and its lock is gone; `Report` is the second `load` of `credential set`;
`Select`, `Resolve`, `Close` are a session.  Every fallible call also has its
failure: the update's errors (`Release`), a failing keyring read, write, restore
or delete, a failing file write, and everything before (`GiveUp`).  `Crash` may
come between any two steps.

`Isolated` says whether users let two keyring commands (login, logout,
credential set) on the *same* reference overlap.  Nothing in the code prevents
it.  With `Isolated = FALSE` the registry stays correct but the keyring does not
(section 4); with `Isolated = TRUE` both do.  Commands on different references,
`use`, and sessions overlap freely in both cases.

Abstractions: a token is a value with the company it authenticates as; the
environment variable of an environment credential, the expiry text and the name
syntax have no part in a property; `profiles.json` is replaced in one step (the
file-level steps are `ProfileStore`, which implements an atomic store); shared read locks are a read in
one step while nobody holds the exclusive lock.

### ProfileStore and the code

| State | Code |
|---|---|
| `windows` | the system: the rename replaces, or fails on a file that is there; it never changes |
| `names` | the directory: `profiles.json` and, on Windows, its backup |
| `past` | what the disk may hold of `names`: every value since the last directory sync |
| `temp[p]` | the temporary file of process `p`: how far it is written, and whether it is synced |
| `working[p]` | the configuration `update` is about to write |
| `exclusive`, `shared` | who holds the lock file |
| `outcome`, `loaded` | what `update` and `load` returned |
| `durable`, `left` | history only: what a directory sync has covered; processes that died or could not unlink |

A configuration is the set of the updates it shows: a lost update, a rolled back
or a resurrected one shows as a wrong set.  Each file call is an action with its
failure; `Crash` kills one process between any two, `PowerLoss` all of them:
unsynced data is torn, and the names go back to some value of `past`.
`Replace` is the rename; `Discard`, `Aside`, `SecondReplace`, `Restore`, `Tidy`
are the fallback of `replace_file`, and `Recover` what the next command does on
Windows.  `Effective` is the refinement mapping: the configuration that command
will work on.

Assumed of the disk: a rename is atomic, synced data stays, and the names of one
directory reach the disk in the order they changed (a journaling file system).
A temporary name that a power loss brings back is left out: it is the same litter
as one that was not unlinked.

### SshBatch and the code

| State | Code |
|---|---|
| `targets` | the argument of `run_batch` |
| `next`, `stop`, `slots` | `next`, `stop_scheduling`, `result_slots` (indices start at 1) |
| `cancelled` | the `CancellationToken` the signal handlers set |
| `worker[w]` | a scoped thread: where it stands, its `index`, its `result` |
| `child[i]` | the `ssh` child of target `i`: not started, alive, or reaped |
| `main`, `reason` | where the calling thread stands, and what its last look at the cancellation makes an empty slot |
| `late` | history only: how many children were started with the stop flag set |

`Check`, `Claim`, `Recheck` are the three steps before a target is started, each
one look at shared memory.  `Execute` spawns the child or fails to; `Exit`,
`Kill`, `Expire` end it; `Notice` sets the stop flag; `Store` fills the slot;
`Join` and `Collect` are the calling thread; `Signal` is SIGINT or SIGTERM, and
the second one ends the process without a report
(`register_conditional_shutdown`).  A thread that leaves at `Recheck` drops its
claim; nobody takes it over, and `Collect` gives its target a reason.

`status`, the refinement mapping, gives a target its outcome as soon as its
thread has it, before the slot does.

Abstractions: an environment is a value; arguments, output and durations are left
out; how a poll of `wait_for_child` orders exit, cancellation, time limit and
capture failure, and how a failed read of the output turns an exit into a
failure, are one choice of outcome here and are `CapturedChild`.  The atomics of
the code are ordered by acquire and release and each is read on its own, so
interleaving them is what the code does.

### The other modules and the code

`CapturedChild`.  `pc` is where the worker is in `execute_captured`; one poll of
`wait_for_child` is four steps (`PollExited` or `PollRunning`,
`TestCancellation`, `TestTime`, `TestCapture`), because anything may happen
between two of its tests.  `Reader(s)` is `read_bounded` in its thread, `Write`
and `SshExits` are the client, `Fork` and `HeirSteps` a descendant, which
inherits both pipes, may close them, and may leave the process group.  `Drain` is
`finish_capture` with the one deadline both streams share; `Release` and `GiveUp`
are the end with and without the kill of the group.  Its contract is an abstract
child with a reason for each outcome.  The outcomes, and their reasons, are
those `SshBatch` chooses from.

`CaptureBudget` (`effective_stream_capture_limit`, `read_bounded`, the limit in
the merged report), `CaptureEncoding` (`CapturedStream`: `from_utf8`, else
base64, computed by sextets).  The decoder that checks it is written from RFC
4648, not from the code.

`SshRun`.  `loading` is one load per environment, two requests long, at most
`--jobs` at once and answered in any order (`ssh_targets`); an answer may be for
another environment (`IsFor` is the check of `ssh_target`).  `Split`,
`ApplyFailFast`, `Merge` work by position as the code does.  Its batch is the one
`SshBatchContract` promises, and `SshBatch` is shown to implement that: the two
compose.  Selections are sequences of distinct environments: a
provider that lists an environment twice is `Selection`'s matter.  130 stands for the status of any signal.

`Selection`.  Identifiers, names and labels are numbers in the
order of their strings.  `Fetch` answers in any order, with any duplicates;
`Resolve` is the command; then the command is run once more against another
order.  A stable sort is stated by counting: the member of a finite set at place
*k* is the one that *k - 1* others come before (`InOrder`), by keys compared part
after part with the place in the list as the last part (`Less`, `ByKey`,
`SortedBy`); the targets are the places that match, in their order (`Matching`,
`InPlace`, `Targets`).

`SshSession`.  `Build` assembles the argument array of the three modes;
`ReadAlone`, `ReadValued` and what follows are an external model of how OpenSSH
reads it, and `sockets` of the connections that `ControlMaster=auto` leaves
behind, by expanded `ControlPath`.  OpenSSH reads options on both sides of the
destination, so a remote command whose name begins with a dash, which nothing
refuses, is one to it (`LedByDash`).  The model has `-T` and `-v` without a value,
`-o`, `-p` and `-l` with one, `--`, and `-Z` for what ssh does not have, at which
it ends (`Refuse`); the first port and the first user count, and `HostName` is a
setting that leads `Elsewhere`.

`ControlDirectory`.  Each file-system call of `secure_control_path` is a step of
a process, each may fail, a process may be killed at any of them, and process
numbers, which are in the names of the probes, come back.  Other programs do
nothing meanwhile, but what they left may be anything at the start.

`ConfigFiles`.  Whatever may stand in place of the directory, the lock file and
`profiles.json` (a link, a directory, another user's file, one with other links,
a file system that ignores permissions), and another program that puts something
else there between any two steps.  Each open is followed by its checks
(`secure_open_directory`, `secure_open_regular_file`); a configuration is its
length and whether it is valid.  Unix only.  Named pipes, and changes of mode or
links of a file between two calls on its descriptor, are left out.

`Credential`.  A text is its bytes, told apart as the code does: part of a token,
line end, other control character, not UTF-8.  `FromStdin`, `FromVariable`,
`Prompt` collect, `Resolve` reads the store or the variable again; in between the
store may be locked, emptied or edited.

`InventoryPaging`.  `version` and `catalogVersion` move on between any two
requests.  An honest server answers a page from the current version with as many
items as it likes; the other one answers anything of `Forged`.  Time is one
deadline that may pass at any request.

`ProviderRequest`.  The server sends any status, any length, announced or not,
stops in the middle or goes on for ever; `Expire` is the timeout of the request.

`ToolProbe`.  As `CapturedChild`, but the readers are joined without a deadline
(`doctor.rs:305`); the descendant may hold the pipes.

`CommandResult`.  A command prompts, acts, writes its document, or an error; a
write puts out all, a part or nothing, and each next one may succeed again.
`WriteError` and `Emergency` are `write_error` and what `main_entry` does when
that fails; `LastAttempt` is the panic of a failing `eprintln!` (status 101).

`ArgumentScan` and `CommandPath`.  A behaviour types a command line, argument by
argument; `MachineOutputRequested` and `SafeCommandPath` read it as the code
does, each loop of theirs by `Ends`: a step for every place the loop may be at,
and the places it stops at.  `SshRunLine` and `CommandLine` say which lines are of
the form clap is configured to read, declaratively, by where the names and options
stand.

## 3. Runs

| Run | Instance | What it shows |
|---|---|---|
| `profiles_isolated` | 2 processes, 2 references, 2 companies with a token each, `Isolated` | `CredentialMatchesProfile`: a keyring profile always has a token of its own company.  `NoSilentOrphan`: a token without a profile was left by a crash or a reported failure.  `SessionTokenIsTheProfiles`. |
| `profiles_racing` | 2 processes, 1 reference, 2 companies, overlapping, fairness | `RegistrySpec`: every commit is one legal step of `ProfileRegistry` on the registry as it is then, so nobody registers twice, changes a company or loses an update.  `UpdateEnds`: a command that took the lock finishes, `Report` included. |
| `profiles_late_cleanup`, `profiles_credential_company` | 2 processes, 1 reference, overlapping | `LogoutRemovesItsOwnEntry`, `CredentialCompany`: violated, section 4. |
| `store` | `ProfileStore`: 4 commands on Unix, 3 on Windows.  `ConfigFiles`: any number of commands, one change by another program, configurations below, at and above the limit | `StoreSpec`: an update takes effect whole and once, is reported as failed only if it never will have, and no load sees anything else.  `DiskIsSound`: at every crash point what is on the disk is whole, has what a directory sync covered, and no backup passes for newer.  `OnlyOwnFiles`, `SavedLoads`. |
| `batch` | 2 threads, 1 to 4 targets, with fail-fast and a time limit or with neither, fairness | `ContractSpec`: no target starts twice or unnoticed, never more than `--jobs` at once, the report comes when nothing runs, one result per target in order, and a target is left out only by a cancellation or because a target did fail.  `CollectsAll`: without fail-fast, only by a cancellation.  `FewLateStarts`: after the stop flag only what other threads had already decided to start still starts.  `BatchEnds`: it ends when cancelled, and with a time limit. |
| `child` | a call with two streams and every failure, one that may hang, one that ends, one with inherited streams; a pipe of 2, a limit of 1, output of 1 to 4 | `ContractSpec`: an outcome has its reason and comes after the reap.  `SuccessIsWhole`.  `NoneLeftBehind`.  `EndedIsReported`: a client that had ended when a poll began is not called timed out or cancelled.  `CallReturns`: with a time limit, when the command ends, when cancelled, when a stream cannot be read. |
| `provider` | pages of 2, inventories of 3, three versions; bodies of up to 5 bytes and a limit of 3; tokens of up to 3 bytes and a limit of 2 | `InventoryWhole` and `ContractSpec`: an inventory is one version, whole, or an error, and an honest server is not refused.  `AnswersAreWhole`, `CredentialHeld`, `EveryCallEnds`. |
| `ssh_run` | 1 to 3 environments, `--jobs` 2, all settings; every command line over accounts of two sites in every order, and over confused ones | `OneResultEach`, `StartedOnlyWhereItMay`, `ZeroIsSuccess`; `SelectionIsExact`. |
| `session` | three sessions in any mode over targets that share hosts or users, with plain commands and commands led by a dash; two processes, each started twice, over every state of both candidates | `ReachesTheTarget`, `ClientAsMeant`; `SharedAmongOwn`. |
| `session_dashed_command` | one session, the command `-v` | `CommandIsRemote`: violated, section 4. |
| `captured_output` | shares of 3, 2 and 1 for one, two and three targets; streams of up to 5 bytes of 8 kinds; two tools of 5 behaviours; every kind of command with every write failing; lines of 4 options or names, and of 4 options after `ssh run` | `SharesAreKept`, `BytesReadBack`, `ChecksAreEarned`, `NoToolStalls`; `ResultsAgree`, `ReadersAgree`. |

Several runs check parts that share no state.  Where theorems are proved about
them too, a `...Parts` module puts the parts side by side, each with variables of
its own, so that a run and a theorem speak of one definition.  The MC module is a
union: an initial state is an initial state of one part, the others have finished
or rest, and a step is a step of that part.  The state space is the sum of the parts', not
the product, and every property speaks of one part.  What used to be a constant
that two instances differ in is a variable that never changes (`windows`,
`limited`, `call`, `vocabulary`), so one run checks both.  A property such as
`ResultsAgree` or `CallReturns` is a conjunction of named parts, the type
invariant of its module among them where that has no name of its own in the run.

Bounds of the profile runs.  The state space is finite without a counter: the
instances bound only the sets.  A keyring race needs two commands on one
reference, an interference of references needs two references, and a wrong
company two companies.  A third process adds longer orders of the same pairwise
conflicts, since every commit is serialised by the lock; the theorems do not need
the bound at all.  Symmetry (references, processes) is used in safety runs only.
`RegistrySpec` on two references is shown by the theorem alone.

Bounds of the store run.  Each process runs one command, so four give an update
cut off, one that follows it, one beside it and a load.  The fallback of Windows
has many more steps; three commands are an update cut off, its recovery and one
beside it.  Nothing needs a counter: a dead or finished process stays so, and
`past` shrinks at a power loss.  `MaxMeddling` is one: a second replacement of a
file that is already open changes nothing the checks look at again.

Bounds of the batch run.  Two threads and four targets let a thread go round
twice while the other drops, keeps or finishes its claim, and one target leaves a
thread without work.  The counter ends by itself: each thread claims past the
end at most once.  The theorems need no bound.

Bounds of the other runs.  `child`: a pipe smaller than what is written makes the
client block on a reader that stopped, and a limit of one unit is passed by
either stream.  `provider`: pages of two and three items give a first, a short
and a last page with a change between them; a body of five bytes is below, at and
above a limit of three.  `session`: the third session finds what two others left.
`captured_output`: five bytes hold a four-byte character behind a cut, and every
remainder of base64, and four arguments an option, its value and what follows it,
twice.  `MaxStarts`, `MaxMore`, `MaxSessions`, `MaxWritten`, `MaxTargets`,
`MaxSize` and `MaxChunk` are bounds of the model; the other `Max...` are limits
of the code, made small.

`CHECK_DEADLOCK FALSE` stands in every run in which the program may stop: a
batch, a child, a call and an invocation come to an end, and so do commands that
each process runs once.

Fairness.  `ProfileService`: a process that runs keeps executing its steps (`WF`
of `Advance`): no step waits for a user once the lock is taken.  `SF` of
`Report`: the second `load` waits for a lock other processes may take again and
again, and an OS file lock is granted in time to a waiter.  Nothing makes a user
start a command, and no fairness is assumed for failures, crashes or `GiveUp`.
`SshBatch`: threads run (`WF` of each thread's `Step` and of the calling thread).
`Kill` and `Expire` are in `Step` because `wait_for_child` polls every few
milliseconds; `Exit` is not, because nothing makes a remote command end; nor does
anything make a user send a signal.  `CapturedChild`: the worker, the readers and
the two clocks; writes and the exit of the client only in calls whose command is
one that ends; nothing for descendants and failures.  `InventoryPaging`: the
client, because the timeout of 30 seconds turns a request nobody answers into a
failure.  `ProviderRequest`: the client and its clock, never the server.
`ToolProbe`: threads and tools that end by themselves; that its clock runs is a
premise of `DoctorEnds` only, so that `NeverStalled` does not lean on it.

## 4. Disagreements found

With a run:

* `remove` deletes the keyring entry after `store.update` has dropped the lock
  (`profiles/service.rs:148`).  A login of the same reference between the two
  stages its token and commits; the late delete then removes it.  Both commands
  report success and the new profile has no token, against "`logout` removes
  HostBraid's local profile metadata and, when applicable, its HostBraid-managed
  keyring entry" (`src/README.md:123`).  `profiles_late_cleanup` finds it in 18
  steps: a login, a logout up to its cleanup, a second login to its end, the
  cleanup.
* A failed `set_credential` puts the previous token back, also after the lock is
  gone (`profiles/service.rs:202`).  If the profile was removed and registered
  for another company in between, the new profile ends with a token of the old
  company, against "a replacement credential must resolve to the same provider
  company" (`src/docs/guides/security.md:8-9`).
* `build_arguments` refuses only an empty command name (`ssh/mod.rs:522`) and puts
  the command behind the destination (`ssh/mod.rs:564`), and `cli.rs:466` lets it
  begin with a dash.  `hb ssh run ... -- -v` so gets a shell, and
  `-- -o HostName=y cmd` reaches another host, against "Command and arguments
  interpreted by the remote SSH shell" (`cli.rs:465`).  `session_dashed_command`
  finds the first.  `ReachesTheTarget` and `ClientAsMeant` except such a command
  where it is the client that reads it, and nothing else: a captured client is
  still told not to ask, and the connection such a command leaves in the pool
  never leads a later session elsewhere.

Noted, without a run of their own; the models do what the code does:

* A login whose write fails takes its staged token out after the lock is gone
  (`profiles/service.rs:117`), and with it that of a login of the same reference
  that has committed meanwhile.  One of the two reports a failure.  It is the
  shortest counterexample to `CredentialPresent` without `Isolated`, of 13 steps.
* A signal that arrives after the batch, while its report is merged and written,
  sets a flag nobody reads: the handlers stay when the guard is dropped
  (`ssh/mod.rs:138`, against the comment at 82-83).
* When a JSON document cannot be written whole, a second one with the error
  follows on the same stdout if that write succeeds (`lib.rs:128`), against one
  object per invocation (`docs/design/0002-cli-contract.md:12`).
  `OneObjectForTheStatus` holds while no write to stdout fails.
* When stderr cannot be written either, `eprintln!` panics and the status is 101
  (`lib.rs:138`), not the one of the error (comment at 136-137).

Two things a reader of the code may not expect, and the models show: a target
that timed out or was cancelled is reported as failed to be captured when a
descendant outside its group holds a pipe open; and the doctor waits without a
bound for a descendant that holds a tool's output.

## 5. Theorems

For every set of processes, references, companies and tokens
(`ConstantsAssumption`: each token has a company; the `No...` values are not
members of their sets):

| Theorem | Statement |
|---|---|
| `Invariance` | `Spec => []Inv` |
| `TypeCorrect` | `Spec => []TypeOK` |
| `ConfigurationsValid` | `Spec => []ConfigurationsStayValid` |
| `ImplementsRegistry` | `Spec => RegistrySpec` |
| `CredentialsMatch` | if `Isolated`, `Spec => []CredentialMatchesProfile` |
| `NoTokenLeftSilently` | if `Isolated`, `Spec => []NoSilentOrphan` |
| `SessionTokens` | if `Isolated`, `Spec => SessionTokenIsTheProfiles` |

`Inv` adds to the types what a step of a command knows: the lock is held exactly
between `Acquire` and the end of the update (`LockOwnership`), and therefore the
working copy still is `config`, or its edit, and the closure's decision still
holds, at every step under the lock (`WorkingCopy`).  From it every commit writes
`Edited(config, cmd)` with `~Refused(config, cmd)`, which is one action of
`ProfileRegistry` (`CommitRefines`); every other step leaves `config` alone.

`IsolatedInv` is needed because a credential can be right in every state and yet
be about to be broken.  `Pending` says what a command with keyring work left
knows: an `add` in flight has no profile yet; a rotation's previous token fits
the profile it would be restored for; a staged token is in the entry; a cleanup
has no keyring profile to hurt.  `Settled` says which command or failure answers
for a token without a profile.  Each action is one lemma (`StageIsolated`,
`CommitIsolated`, `RollbackIsolated`, ...); `Isolation` gives the frame: another
command's reference is another one.

### The profile files

For every set of processes, on Unix and on Windows, any calls failing, any
crashes and power losses (`StoreAssumption`: nobody is not a process, no file is
not a file); for any limit of a file, any set of directories and any number of
changes by other programs (`FilesAssumption`):

| Theorem (`ProfileStoreProofs`) | Statement |
|---|---|
| `BothKeepTypes` | `Spec /\ Files!Spec => []TypesOK` |
| `DiskStaysSound` | `Spec => []DiskIsSound` |
| `FilesKeepPromise` | `Spec => StoreSpec`: every step is a step of `AtomicStore` or none |
| `FilesAreOwn` | `Files!Spec => []OnlyOwnFiles` |
| `WhatIsSavedLoads` | `Files!Spec => []SavedLoads` |

`DiskIsSound` speaks of every state the disk may come back in, so `IInv` does
too.  `NamedAreSynced`: a file has a name only once its data is synced, in every
member of `past`.  `DurableSurvives`: what a directory sync covered is in each of
them.  `BackupIsStale`: a backup beside a configuration is older.
`CommandFits` says what each command knows where it stands: that it alone may
change the names (`Exclusion`), what the names and its temporary file look like
there (`NamesFit`, `DraftFits`, `TempFits`), and whether its update has taken
effect (`EffectFits`), which is what it will report (`ReturnFits`).  The three
kinds of steps that change the names are lemmas of their own (`Installs`,
`ForgetsStale`, `PutsBack`).  In the refinement an update takes effect at the
rename that gives the name to its file (`InstallApplies`); putting the backup
back and forgetting a stale one leave `Effective` alone; a power loss goes back to
a member of `past`, which maps to an abstract loss.

`OpenedFits` is the argument about `ConfigFiles`: a descriptor that passed its
checks is of a private file of the user, whatever the name stands for by now.
For `SavedLoads` the limit of a write is that of a read, and a configuration that
somebody changed is no longer counted as saved.

### The batch

For every set of batches, any number of threads, with and without fail-fast and
a time limit (`BatchAssumption`: no batch is empty, `--jobs` is not zero, both
refused at the top of `run_batch`; no result is not an outcome):

| Theorem (`SshBatchProofs`) | Statement |
|---|---|
| `Invariance` | `Spec => []Inv` |
| `TypeCorrect` | `Spec => []TypeOK` |
| `ClaimsAreExclusive` | `Spec => []OneThreadPerTarget` |
| `LateStartsAreFew` | `Spec => []FewLateStarts` |
| `ImplementsContract` | `Spec => ContractSpec` |

`Inv` is what makes an empty slot explicable.  `ClaimOK`: a held index is below
the counter, its slot empty, its child as far as the thread.  `TargetOK`: every
child has a thread that drives it, and an index below the counter with an empty
slot is held, or its claim was dropped because of a cancellation or a stop.
`LeftOK`: a thread that is done had a reason.  `StopOK`: the stop flag is never
set without a failure that is known.  `MainOK` then says, at the join, why a
slot is empty.  In the refinement a target has one outcome (`OneOutcome`), each
step changes the status of at most one target (`OneStatus`), and the children
that run when a thread starts another map onto the other threads
(`RoomForOne`), hence fewer than `--jobs`.  `LateOK` counts: once the flag is set,
the late starts and the threads that have passed their last look at it are
together fewer than the threads, because the one that set the flag is neither
(`FlagIsSetApart`), and nobody passes that look any more (`NobodyDecidesLate`).

### A captured child

For every call, any streams, pipes and limit (`CaptureAssumption`: a pipe holds
something, a captured call has a stream):

| Theorem (`CapturedChildProofs`) | Statement |
|---|---|
| `CallTypes` | `Spec => []TypeOK` |
| `NobodyIsLeft` | `Spec => []NoneLeftBehind` |
| `SuccessesAreWhole` | `Spec => []SuccessIsWhole` |
| `CallKeepsContract` | `Spec => ContractSpec` |

`CInv`: `StageFits` says which of the child, the verdict and the outcome there are
at each step; `GroupFits` when the group has been killed, so that whoever is left
has left the group; `VerdictFits` that each verdict happened; `StreamFits` that
what was written is what is in the pipe, kept or lost, and that a stream that was
read to its end holds nothing and has no writer any more.  `NobodyIsLeft` needs
only the first two, `SuccessesAreWhole` the last.  The outcomes whose reasons the
contract asks for are those `SshBatch` takes for granted of each target.

### The provider

For any sequence of versions, any catalogs, page size, limits and whatever a
forging server answers (`LimitsAssumption`, `VersionsAssumption`: one version has
no component twice, and one stamp stands for one version; `NoReportAssumption`: no
report is not an inventory); any texts and any limit of a token
(`CredentialAssumption`); any statuses and lengths (`RequestAssumption`):

| Theorem (`ProviderProofs`) | Statement |
|---|---|
| `InventoriesAreWhole` | `Spec => []InventoryWhole` |
| `InventoryKeepsContract` | `Spec => ContractSpec` |
| `AnswersStayWhole` | `Request!Spec => []AnswersAreWhole` |
| `CredentialsAreHeld` | `Credentials!Spec => []CredentialHeld` |

`PInv`: from an honest server the items so far are the beginning of a version
that was current during the call (`HonestFits`), as many as the offset says, and
the total is that version's (`StageFits`); an answer of another version has
another stamp and is refused.  So at the end the beginning is the whole, and
the catalog that fits is one the server had (`CatalogFits`).  `JoinIsWhole` is
about the join itself: no item is lost or doubled.  `HonestIsAccepted` is the
converse, that an honest server at rest fails no check.  `RequestFits` is what
one request knows at each step: what it has received is what was sent, and
below the limit.  `TextsFit` says of each source that what it yields is the token
(`StdinTaken`: but for one line end, `VariableTaken`, `StoreTaken`), and that what
was usable when it was collected is usable when it is had back.

### A run over several environments

For any selections, any number of jobs and any settings (`RunAssumption`: a
selection is not empty and names an environment once, which `Selection` ensures;
`NoneAssumption`):

| Theorem (`SshRunProofs`) | Statement |
|---|---|
| `ReportsAreTrue` | `Spec => []OneResultEach` |
| `RunsOnlyWhereItMay` | `Spec => []StartedOnlyWhereItMay` |
| `ZeroMeansSuccess` | `Spec => []ZeroIsSuccess` |

The code takes the targets that loaded out of their slots, runs them, and puts the
results back by counting.  The proof therefore is about a count: the n-th good
slot holds the n-th prepared target (`SplitSorts`, `Ranks`, `RanWellAtRank`), with
lemmas about elements of a finite set in order (`LeastOf`, `HasOrder`,
`RankCounts`).  `RInv` has a part per stage: `LoadsFit` and `SlotsFit` while
coordinates come in, in any order; `NoneBehind` after `ApplyFailFast`; `MayRun`,
what consent and failures allow; `BatchFits`, that the contract's batch is over
these targets; `ExecutedFits` that what ran where is what the batch says.

### What is selected

For any lists of sites that the provider may answer with and any command lines
that clap lets through (`RequestAssumption`):

| Theorem (`SshRunProofs`) | Statement |
|---|---|
| `SelectionsAreExact` | `Selecting!Spec => []SelectionIsExact` |

Three arguments meet in it.  Sorting: how many come before tells the members of a
finite set apart in a strict order, and there is a member for every count, so
`InOrder` lists the set (`OrderIs`) and a sorted list has the same members, each at
one place (`SortedIs`).  If the keys are all different, the order the list was
given in does not matter (`SortedSame`): the keys end in identifiers, so the
catalog of two responses of the same content is one (`SameSite`, `SameCatalog`)
where no identifier is listed twice.  Places: each place of the catalog stands
for one of the response and the reverse (`Matches`, `CatalogMatches`), so what the
catalog has once the response has once (`OnceListed`), and the targets are
the places that are admitted, one for each (`TargetsAre`, `AdmittedSelected`).
Answers: a result is one of the resolutions of the catalog (`SelectionInv`), of
which there is only one where nothing is ambiguous (`OneAnswer`), though the
identifiers of a category are validated in the order of a hash set.

### A session, and the directory it shares connections in

For any answers of the API, any commands and any number of sessions
(`SessionAssumption`: commands are sequences of texts); for any processes, any
number of starts, and any state of the candidates (`DirectoryAssumption`):

| Theorem (`SshSessionProofs`) | Statement |
|---|---|
| `GetsWhereItShould` | `Spec => []ReachesTheTarget` |
| `ClientDoesWhatWasMeant` | `Spec => []ClientAsMeant` |
| `ConnectionsStayPrivate` | `Sharing!Spec => []SharedAmongOwn` |

The arguments are a layout: which text stands at which place (`Laid`), at which
places a reader of options stops (`Stops`), and what it knows when it is there
(`OwnRead`): an option's value is never taken for an option, nor the reverse.  A
client that goes on into a command led by a dash may stop anywhere behind the
destination, but has read all of the layout, and what it has is kept (`LedRead`).
`SocketsFit` says that a connection left behind leads where its name says,
whatever command left it, and the name holds host, port and user.  At its end a
client without such a command has exactly the target and the command
(`AtTheEnd`).

In `ControlDirectory` what a process has found out of its candidate stays true
whatever the others do (`Knows`, `FineRests`), since others only create what it
would have created.  `Smooth` is a search without trouble: in it all processes
decide alike, for the first candidate that is fine (`FirstFine`), because
whether a candidate is fine does not change.  A probe file has an owner that
will remove it (`Owns`).

### What is written and kept of output

For any limits, any number of targets and any output (`BudgetAssumption`), any
bytes (`EncodingAssumption`), any probes and tools (`ProbeAssumption`), any
commands and statuses (`ResultAssumption`: no status is not a status):

| Theorem (`CapturedOutputProofs`) | Statement |
|---|---|
| `CaptureSharesKept` | `Sharing!Spec => []SharesAreKept` |
| `ReportsReadBack` | `Encoding!Spec => []BytesReadBack` |
| `HealthStaysEarned` | `Doctor!Spec => []ChecksAreEarned` |
| `StoriesAgree` | `Result!Spec => []ResultsAgree` |

`Budget` says what a stream holds at any moment, the shorter of what was written
and the limit, and that the limit is that of the batch, or nothing before it
starts.  The rest is division: `QuotientFits` (a quotient taken so often is
within the dividend) bounds the sum of the shares, `RoomFits` (what fits so often
is within the quotient) gives an ordinary batch its full limit.

What is kept is the beginning of what was written.  That base64 gives it back is
arithmetic on places: `SextetsCarry` (three bytes are what four sextets carry, for
every number of bytes there are in the last group), `FilledIs` (how many
characters there are before the padding, hence how many bytes it stands for),
`DecodeReadsBack`.

For the doctor `CountsFit` accounts for every byte of a tool; `Earned` says of
each check that a tool did what it is credited with, and `ProbeFits` what is known
of the tool that is being probed.

For an invocation `Told` says what has been written by each step and what has
not, `Consent` when something may have been removed, `Agreed` that the exit
status, the last document and the change fit.

### How a refused line is read

For any line of arguments, of any length (`ScanAssumption`):

| Theorem (`CapturedOutputProofs`) | Statement |
|---|---|
| `LinesAreRead` | `Spec => []ReadersAgree` |

The code reads a line by loops, the grammar says where names and options stand,
and the proof goes from one to the other without an induction over the line.  Each
step of a loop gets further (`Advances`), so there is a function that says where
it ends (`EndsAre`: the least level from which on there is one cannot be above the
first).  What holds at the start and goes over from place to place holds where it
ends (`EndsWithin`: of the places from which it would not, the furthest is one
step from another).  Both take the least of a set of numbers (`LeastOf`).  In a line of
the form clap reads, a loop is always at the head of an option or behind all of
them (`Heads`, `GlobalWidths`, `RunWidths`), so it stops at `ssh`, at `run`, and
where the remote command begins (`NextNameIs`, `RunBoundaryIs`, `BoundaryIs`).
The format carried along is the one the last head passed has asked for
(`DeclaredNext`, `OutputIs`).  The path carried along is the names passed, and what
follows is no further name (`Leads`, `UpToName`, `PathIs`), so the path is the one
and only that the line names.

### What stays with TLC

* Liveness, which is outside this prover, as is `ENABLED`: `UpdateEnds`,
  `BatchEnds`, `CallReturns`, `EndedIsReported`, `EveryCallEnds`, `NoToolStalls`.
* `CollectsAll`, the step property of a batch without fail-fast: it is the instance
  `FailFast = FALSE` of `ImplementsContract`, checked beside the other one.
* The three violated properties, and every assumption on the constants, which a
  run evaluates.

Every invariant of a passing run is a theorem.

## 6. Not modelled, and the plan

Not modelled for good: the guide, the search in it, the welcome text and the
completion scripts (static text, no state, one write that `CommandResult`'s
reading command stands for); the core data types and their serialisation; clap's
own parsing, beyond the lines it refuses; colours, the spinner and wording; the
translation of HTTP bodies field by field; the path checks of Windows; wiping
tokens from memory and the names of keyring entries.

Next: the invariants of the passing runs and the refinements are proved, so what
remains is breadth.  The least covered files are the provider client
(`hostbraid-provider-kinsta`) and `ssh/mod.rs`; a part modelled there gets its
place beside the others in the `...Parts` module of its component, its run and its
theorem.
