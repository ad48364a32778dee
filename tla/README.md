# Endpoint AIops: verification project

TLA+ models, TLC configurations and TLAPS proofs for the governance core of
Endpoint AIops (`src/endpoint_aiops`): the command line and MCP server that
operators and agents use to read and change a fleet of managed endpoints.

The product promises that every change is *governed*: announced in an audit
trail before it is made, reported truthfully afterwards, reversible through an
undo token, and stopped when an agent runs away. Those promises are about
several processes, a SQLite file that is rotated under them, a server that may
not answer, and threads that interleave; that is what is modelled here.

## The system

| part | source | state it keeps | operations |
|---|---|---|---|
| audit store | `governance/audit.py` | `audit.db` (main file and WAL), its archives, a cross-process rotation guard, `_ok` and `_write_blocked` per process | `log`, `begin_write`, `finish_write`, `reconcile_pending`, rotation, archive cleanup |
| governance wrapper | `governance/decorators.py`, `governance/outcome.py` | `_CallState` of one call | pre-check, begin write, run the tool, annotate, finalize |
| remediation tools | `mcp_server/tools/remediation.py`, `ops/remediation.py`, `mcp_server/_shared.py` | none; the management server's | assign a profile, reboot, preview, flatten errors |
| undo tokens | `governance/undo.py`, `mcp_server/tools/undo.py` | `undo.db`: one row per token | record, get, mark; `undo_apply` |
| budget guard | `governance/budget.py` | totals and a window of clock readings per fingerprint, per process | `check_and_record`, `add_duration` |
| remediation patterns | `governance/patterns.py` | loaded patterns, file mtimes, counters per pattern and target | reload, `match`, `report_outcome` |
| policy | `governance/policy.py` | none | label a call with a risk tier |
| connection, authentication | `connection.py`, `auth.py`, `mcp_server/_shared.py` | the lazy manager, its connections and their login sessions, per process | connect, log in, request |
| dialects, configuration | `dialect.py`, `config.py` | none; `config.yaml` | resolve an entry: scheme, paths, transport |
| doctor | `doctor.py`, `cli/doctor.py` | the problems counted so far | keys, reachability, login, authenticated read |
| secret store | `secretstore.py`, `cli/secret.py`, `cli/init.py`, `config.py` | `secrets.enc`, a cached copy per process | unlock, set, delete, rotate, migrate |
| fleet analyses | `ops/sessions.py`, `ops/drift.py`, `ops/inventory.py` | none | login storms, drift, patch compliance, health score |
| CLI, MCP registration | `cli/`, `mcp_server/` | none of their own | commands over the parts above |

Who meets whom. The MCP server runs synchronous tools on worker threads, so
several calls of one process are inside the wrapper at once; the CLI runs one
call per process, on the main thread. All of them share `audit.db`, `undo.db`,
`secrets.enc` and the pattern files in one home directory, and the management
server. Locks exist inside a process for the budget, the patterns, the audit
engine and the undo store -- none for the connections and their
sessions; across processes only the audit rotation has one
(`_rotation_guard`, an `flock`), and `docs/VERIFICATION.md` says that it covers
threads only on Windows. `AuditEngine` calls itself thread-safe "for concurrent
writes from multiple skill processes"; the models take that at its word.

What makes each part correct, in a sentence:

- **audit store**: a caller's answer and the trail never disagree, no request
  leaves without a row, rotation neither loses nor mislabels a row;
- **wrapper**: the verdict on record is what became of the write, and the undo
  token reverses exactly that write;
- **undo**: a spent token's inverse ran, once unless applies overlap or break off,
  and on the server the write went to if the write named it;
- **budget**: no runaway loop gets more than its limit through, and, while readings
  arrive in order, a loop that is stopped had reached the limit;
- **patterns**: rate caps and the circuit breaker hold between threads, and a
  rule applied is the one in the file as it was last read;
- **secret store**: it survives a crash at any step, keeps each completed
  change of commands that do not overlap, and a key it holds is the key used;
- **connection**: a request goes to the server its call meant and never without
  the credential of its scheme, whatever the threads do to the shared caches;
- **doctor**: a clean report is earned by presenting credentials;
- **analyses**: they compute what their definitions say, agree with each other,
  and say when a list is cut.

## Modules

| module | models | composes |
|---|---|---|
| `AuditLedger` | abstract: each call has one entry, opened before a write's request and settled with what the caller is told | |
| `AuditLog` | `audit.py` at the grain of its commits: guard, insert, update, checkpoint, rename, schema, cleanup, deaths and starts of processes | implements `AuditLedger` |
| `AuditLogProofs` | theorems about `AuditLog` | extends `AuditLog`, TLAPS |
| `GovernedCall` | one call through `_CallState`, pre-check, intent, tool, flattening, annotate, finalize, the CLI's exit status; a server that applies a POST early, late or never | the audit store as `AuditLedger` promises it, budget and patterns as their answers |
| `GovernedCallProofs` | theorems about `GovernedCall` | extends `GovernedCall`, TLAPS |
| `Dialect` | pure: presets, what an entry overrides, schemes, resources, transport | |
| `Connection` | `_get_connection`, `connect`, `_ensure_session`, the login and the request on worker threads without a lock; `run_doctor` and `_check_target`; credentials that change in the store or on the server | extends `Dialect` |
| `ConnectionProofs` | theorems about `Connection` | extends `Connection`, TLAPS |
| `UndoApply` | `undo_apply` on shared tokens by processes that each keep the configuration they read, while the file changes; cut-off applies, failures of the store, several servers | |
| `UndoApplyProofs` | theorems about `UndoApply` | extends `UndoApply`, TLAPS |
| `Budget` | `check_and_record`, `add_duration`, and the start and end of a call that they measure | |
| `BudgetProofs` | theorems about `Budget` | extends `Budget`, TLAPS |
| `Patterns` | reload against an editor and against files that cannot be read, match, caps, breaker | |
| `PatternsProofs` | theorems about `Patterns` | extends `Patterns`, TLAPS |
| `SecretStore` | the commands on `secrets.enc`, its temporary file, `.env`, and the server's lookup | |
| `SecretStoreProofs` | theorems about `SecretStore` | extends `SecretStore`, TLAPS |
| `Selection` | pure: Python's comprehensions with a condition, by positions | used by `Patterns`, `Listing` and what extends it |
| `Listing`, `LoginStorm`, `FleetDrift` | pure: ranking and truncation; storm episodes and peaks; drift, patch, health | `LoginStorm` and `FleetDrift` use `Listing` |
| `FleetProofs` | theorems about the analyses | extends `MCFleet`, TLAPS |
| `MC...` | instances for TLC | |

`PROJECT.json` maps every definition to the lines it stands for. Conventions:
one action per handler step between two points where another actor may act;
variables carry the source's names; a comment that begins with "history" marks
a variable the code does not have, which only properties read; operators marked
as mutants, or named after what they leave out (`...FailOpen`, `...Swallowing`,
`...IgnoringOutcome`, `...AsAsked`), are wrong versions of the definition that follows them,
used to show that each property can fail. They are used nowhere else.

### AuditLog

Rows live in the live file or an archive; `main` is the part of the live file a rename
without a checkpoint would keep, the rest is in the WAL. `Crash` takes a process with
all its threads, locks and in-memory flags; `StartEngine` runs `_init_db`; `Reconcile`
is the operator's `reconcile_pending`. A call's abstract entry (`ImplementsLedger`) is
its unique row wherever rotation put it. The refinement is what makes "one entry per
call, settled once" a statement about files, ids that restart and archives.

### GovernedCall

Tools and arguments are chosen when the call begins. `ServerApply` and
`ServerRefuse` are the server's own, so a POST may land after the client gave
up, was interrupted or died. `Transport` and `Flatten` model the conversions of
exceptions by what they do to the *type*: `_send` wraps a timeout as
`EndpointApiError`, after which `tool_errors` no longer finds it among
`_UNDETERMINED_ERRORS`. `Interrupt` happens only while the tool runs.

### UndoApply

A token's status is read, its inverse dispatched and its status written in three
steps; several applies interleave, in one process or in several.

A call without a target goes to the first target of the configuration *its
process* holds. `_get_connection` reads the file once, at the first connection, and
keeps what it read until the process ends; `init` and an editor change the file and
tell nobody. So `firsts` lists the first target of each version of the file, `view`
is the version a process holds (0: none yet), `Reconfigure` adds a version,
`Restart` is the only step that lets a version go, and both the original write
(`Record`) and its replay (`Effect`) run under the version of the process that makes
them. A token names the target its write named; a write that named none, or the
empty string, leaves a token without one, and a replay asked for the empty string
goes to the default (`undo.py:178` takes it as chosen, `connect` as left out).
`written` and `under`, both history, are the two versions a replay depends on.
`disturbed` is history too: the tokens of which two applies were under way
together, or one was cut off, lost a response or could not mark.

Targets are names here: that an entry of one name points to another host after `init`
overwrote it is not told apart. Two threads that read the file for the first time
together are in `Connection`.

### Dialect, Connection

An entry of `config.yaml` is the preset it names, the scheme and paths it states
or blanks, its transport and whether it has an account; `Resolve` layers them as
`resolve` does, and an unknown preset fails the whole file. A server is what one
preset describes.

The worker threads of the MCP server interleave where the code tests and then
assigns: `_conn_mgr` (`Begin`, `Load`), `_connections` (`Lookup`, `Build`),
`_session_headers` (`EnsureSession`, `Authenticate`, `Cache`), and the headers are
read once more when the request leaves (`Request`). A connection is identified
by its manager, target and maker, so one that another thread has replaced is
still there for who holds it; a session by the connection and thread that logged
in. A bearer key is bound when the connection is built, an IMI password when it
logs in. A request and a login may fail for any reason; which one does not
matter to the properties. `overlapped` is history: the targets for which
two calls were on their way to a session together.

The doctor is a process of its own with one thread and a manager of its own. It
goes through the targets in any order, which the code's order is one of. A
missing key is counted; a locked store raises `MasterPasswordError`, which is no
`OSError` and ends the run (`raised`). `touched` records the targets whose
credentials changed while it ran.

### Budget, Patterns

The clock is an integer that another thread may advance between a reading and
the lock; in `Budget` it may go back (`time.time()`). Limits are read once
and stay fixed in a behaviour. A call reads the clock when it begins (`start`), again in
the check (`now`), and when it ends: `_finalize` adds the duration of every call,
of one that the check stopped too. No call begins with more than `MaxTotal` seconds on
record, which bounds the model only.

In `Patterns` the clock only advances, an edit always changes the mtime, a pattern
does not expire on its own, and there is one pattern and one target: counters are per
pair and do not meet. A reload takes the file's mtime, reads it, and assigns the
patterns and then the mtimes, in four steps without a lock. Looking at the file may
fail before the reload (`CheckFails`), and in the reload before or after its mtime was
noted (`SkipFile`); then the engine holds `"unread"`, under no mtime or under that of
the file it did not read. So may the load at start-up. A call chooses its pattern
before it takes the lock (`Choose`) and meets the caps and the breaker under it. The
patterns directory's own removal is an edit that leaves the file absent. The branch
for a missing PyYAML is left out: the package requires it, and `config.py` imports it.

### SecretStore

A file's content is a blob (its password and map), empty, torn or missing. A
command's descriptor follows its file when another command renames it: that is
how two commands in `_persist` damage the live store. `raced` and `stale` record
these two accidents; what the code promises without a lock is stated outside
them, and they are disclosed below. Names are taken in the normal form
`migrate` gives them.

### The analyses

They keep no state, so the model is their definition. A filter is a choice of
positions (`Selection`) and the loop that merges windows a function on the number
of windows merged so far (`Merging`), rather than `SelectSeq` and a fold: the same
sequences, in a form the provers can reason about. `MCFleet` builds every
input record by record and the invariants compare each result with a definition
that has no windows, folds or caps (`StormSpans`, `TruePeak`). `osBuild` and
`profileId` are treated exactly like the other two drift fields and are not
repeated; a session carries a time or a login duration because the two halves of
the report read different fields.

## Runs

| run | question | bounds |
|---|---|---|
| `audit_log` | do trail and answers agree through rotation, failure, death? | two writes and a read, two processes, a rotation limit reached at once, so that every interleaving of rotation with an open write occurs |
| `audit_log_live` | does every call end? | one write and one read, two processes, one row to a file, one archive, one death, under fairness: each call alone, and each while the other holds or loses the guard |
| `governed_call` | is the verdict, the undo token, the answer, the exit status true? | two calls on one endpoint, two profiles: two are needed for an assignment to overtake another, a third adds no new pair |
| `undo_apply` | did a spent token's inverse run, once, and on the right server? | two applies of two tokens, two processes, two servers, two versions of the configuration: one process old and one new in either role |
| `budget` | do ceilings and the runaway guard hold, is a trip justified? | two threads, two fingerprints, a limit of 2 in a window of 1 and a clock at 0..2 that goes both ways (an inside, an edge, an outside), a ceiling of 4 calls so that both fingerprints can reach the guard, a ceiling of 2 seconds, calls that begin with up to 2 on record |
| `connection` | do requests carry their own target's credential, how many logins happen, is a clean doctor earned? | two threads, two targets (the named and the default one; eight kinds of entry: plain, IMI, without account, with a wrong scheme, an unknown scheme, an unknown preset, a foreign transport, changed paths), two keys |
| `patterns` | do caps and breaker hold, is the loaded rule the file's? | two threads, caps 2 and 3 with up to four armings, threshold 2 and 1, a clock at 0..2, one edit of a file that may also fail to load at the start: enough for a reload to overtake another and for the last arm to be contended; some two minutes |
| `secret_store` | does the store survive commands and deaths, is its key used? | two commands (the wizard unbounded), two names, keys and passwords, every initial store |
| `fleet` | are the analyses what they say, do they agree? | up to five sessions at times 0..3 with window 2 (separate, touching and overlapping windows; more sessions than `MaxSessions` and than the list limit), up to three endpoints (a majority, a tie, unreported values) |
| `lost_response`, `interrupted_write`, `undo_twice` | the code against its own text, see below | as the run they are derived from |

The constraint `Apart` of `connection` explores the doctor while no worker has
begun, and the workers while the doctor has not, with good credentials and fitting
servers. It loses nothing: neither reads what the other writes, the workers
read credentials only as guards of steps that succeed, and the failing
alternative of each such step needs no guard. The theorems have no such
constraint.

Every property of a passing run has a mutant of the code in `PROJECT.json` that
breaks it. Runs with `CHECK_DEADLOCK FALSE` are those whose calls and commands
are bounded or that may simply stop.

**Fairness.** Only `audit_log_live` needs it: weak fairness of each step of a
thread of a running process. The operating system schedules threads, SQLite
operations return or time out (`timeout` of the connection), and the rotation
guard has no timeout at all, which is why its release on every error path is
worth a liveness property. Nothing is assumed about processes being restarted,
about the server answering, or about rotations happening.

## Where the code and its text part

- `lost_response`: a write whose response is lost is audited `error` although
  the server may have applied it. `outcome.py` says that such a row "is worse
  than a missing one"; `_send` wraps the httpx timeout, so the type that marks
  it undetermined never reaches `tool_errors`. For the same reason the CLI never
  exits with `EXIT_UNDETERMINED`.
- `interrupted_write`: Ctrl-C during the tool is a `BaseException`; the wrapper
  finalizes with the initial status and audits `ok`.
- `undo_twice`: two overlapping applies of a token both run the inverse: the
  status is checked before and written after it.

Seen while modelling and without a run, most of it not contradicted by a text of the
repository: `undo apply` on the CLI exits 0 when the inverse failed, because `checked`
("abort when it reports a failed/undetermined write") looks for the error at the top
of the payload and finds it nested in `result`, the case that `UndoApply` answers
"failed"; two reloads without a lock may leave the older contents of a pattern loaded
under the newer mtimes, so that the edit is not seen until the next one
(`patterns.py:156`; `CurrentUnlessRaced` is what remains); a pattern file that cannot
be read for a moment is dropped under the mtime noted just before (`patterns.py:143`),
so that it stays away until the next edit; the runaway guard, when threads swap their
readings or the clock is set back, may trip on readings later than the call's own, or
on expired ones behind them (`budget.py:151`; `TripIsJustified` is about readings in
order); two threads on a fresh connection each log in, where `connection.py:166`
counts "exactly one per connection" (`SessionIsShared` is what remains), and the
loser's session is never used; a session that expires, or a bearer key that is
rotated, fails every later call of a server process, since nothing drops a cached
connection; `doctor` on a locked store ends with an error message instead of a status
per target; an undo of a write that named no target goes to the default of the
configuration that the replaying process holds, which may be older or newer than the
one the write ran under, in spite of what `_origin_target` says it prevents ("in
practice the config's first entry", `undo.py:91`): a server that runs since before
`init` changed the default writes on the old one, and an undo from the command line
goes to the new one; a pattern removed from its file may shorten a running pause to
the default; a secret command that overlaps another silently reverts it, a password
rotation included; two in `_persist` at once can leave `secrets.enc` torn, and a store
that cannot be read, torn or for a moment not accessible (`secretstore.py:149`), is
treated as "no secret stored" (`config.py:68`); `migrate` turns underscores into
dashes and lowers the case, so a target whose configured name has either does not find
its imported key; `patch_compliance` finds a fleet in which nobody reports a patch
level fully compliant; its printed rate is rounded while its verdict is not, so the
two can look contradictory at the boundary.

## Proofs

`AuditLogProofs`, for any set of calls, any processes and any bounds:

- `TypeCorrect`: the type invariant. It carries what TLC gets from finiteness:
  files are finite, ids are below the next id.
- `OpenWritesStayLive`, `TrailIsTruthful`, `IntentPrecedesRequest` follow from one
  inductive invariant. None of them is inductive alone: that a verdict lands in
  the right row needs that ids are unique in the live file; that a rotation
  cannot take an open row needs that the check for pending rows, the checkpoint
  and the rename happen under one holder of the guard; and that a process
  without schema inserts nothing. `IndInv` is the conjunction of these parts,
  each with a lemma per action that can disturb it.
- `StoreImplementsLedger`: the store implements `AuditLedger`. Each action is
  shown to be an abstract step or a stutter under the mapping of a call to its row.

`BudgetProofs`, for any threads, limits, windows and clocks that may go back:

- `TypeCorrect`;
- `RunawayIsBounded`: the guard lets no `RunawayMax + 1` identical calls in a row
  through inside a window. The invariant relates the pruned window of a
  fingerprint to the history of its readings: pruning only drops readings that
  are older than the window, whatever order they were taken in;
- `CallsStayBelowCeiling`: at most `MaxCalls` calls pass. The calls let through are
  counted as a set of pairs, which `Accept` grows by one under the lock, and who
  holds the lock found a free slot;
- `TripsAreJustified`: when the last `RunawayMax` calls let through and the one now
  checked passed in the order of their readings, the oldest of those that the window
  holds is not expired, hence none of them is, and none is later than the call's own
  reading: `RunawayMax` readings lie between that and one window before.

`GovernedCallProofs`, for any number of concurrent calls, endpoints and profiles:
all six invariants of the run. Their inductive invariant follows a call along
its thread in four parts. `SendInv`: a POST is in one place and belongs to a
write with a row. `OutcomeInv`: what the wrapper believes of the call is
compatible with where its POST is; this is where the two exclusions come from
(a lost response leaves the belief "failed" with a POST anywhere, an interrupt
leaves "ok" with no result). `RecordInv`: row, breaker report and answer are
derived from that one belief. `UndoInv`: the profile read before the POST is
still the endpoint's unless the call is recorded as overtaken.

`UndoApplyProofs`, for any processes, applies, tokens, servers and versions of the
configuration: the type invariant and the three safety invariants of the run. `Alone`:
that a token is spent once undisturbed needs that two applies past the check of one
token make it disturbed before either runs the inverse. `Origin`: the server a write
changed is the one its token names, or else the first of the version it ran under, and
versions are only added, so that a replay under that same version finds the same one.

`PatternsProofs`, for any threads, caps, thresholds and pauses: the type invariant
and the three safety invariants of the run. For the caps, `StampInv` says that the
timestamps kept are the times of the last armings and that each arming dropped is
at least a day old; since the clock only advances, pruning keeps a suffix
(`FreshAreLast`, `PickedSuffix`), and the count that a call compares with its cap under the
lock is that of all armings in the window (`WindowCount`). For the breaker, `CountInv`
says that the failure counter is the length of the failing suffix of the reports, and
`BreakerInv` that each report that trips still holds the breaker, or a later one with
a shorter pause does. For the reload, `ReloadInv` follows the one thread that
reloads while none raced: the engine's mtime is behind the file's until it is done, and if
the mtime it noted is still the file's, what it will assign is the file's or the
mark of a failed read.

`ConnectionProofs`, for any workers, targets, files and keys: the type invariant
and the three invariants of the run. `SignedInv` follows a connection
from the pool to the request: what is cached for a target is that target's, headers
are an issued session of their own connection or none is needed. `SharedInv` is about
targets nobody raced for: one worker at most is on its way, on the pooled
connection, and an issued session is cached there or about to be. `DoctorInv`
says what the doctor holds of the target in hand and that the ones it is
through with are sound, unless their credentials were touched.

`SecretStoreProofs`, for any number of commands, names, keys, passwords and any
length of a behaviour: the type invariant, the three safety invariants and the
action property of the run. `TmpInv` says that, undisturbed, the temporary file
is owned by the one command in `_persist`; `MeantInv` that a map nobody replaced
is the store's but for the change under way (needed for every later change to
be made on top of it); `MigrationInv` that a line is in the map or still to be
imported; `ServerInv` that the names there all along are in the kept store.

`FleetProofs`, for sessions and fleets of any number, in any order, and any window,
threshold, limit and versions: all six invariants of the run (`InputsAreLists`
says what the inputs are; the rest is about the functions). They rest on
one fact, `Ranks`: in a finite set with a strict total order, every rank is had by
exactly one element. From it follow `Selecting` (a filter lists its positions in
order) and `Sorting` (Python's stable sort is a permutation in order), and with
them:

- `RankingIsComplete`, `WorstComeFirst`: a prefix of a ranking leaves out nothing that
  belongs before what it shows (`RankedPrefix`), and the envelope says when it is
  one;
- `MajorityIsMildest`: the derived baseline is the most common value, and what a
  baseline blames for a field is everyone who reports another one;
- `CrossChecksAgree`: the counts of the three tools are of the same set, and a
  score is 100 less the deductions that apply;
- `StormsAreMaximal` in three stages. `EpisodesGroup`, by induction along the merge:
  after k windows the episodes are the maximal pieces of what the k windows cover.
  `EpisodesArePieces`: with all flooded windows, each piece begins and ends with
  one, has no seam, and each flood lies in one. `PiecesInTime`, `PieceBounds`: two
  logins in the same second never end up on both sides of a piece's edge -- the
  earlier one would anchor a window that covers both -- so pieces of the list are
  spans of time, and `PiecesAreStorms` compares those with `StormSpans`. This stage
  is needed because the code works on positions and its promise is about times;
- `PeaksAreTrue`: a window that is cut off by its storm's end does not flood
  (`AnchorUncut`), so it cannot exceed the storm's first one, which does.

The induction these need is not a library theorem, which would take an operator as
a parameter: a fact is a *set* of numbers, shown to be all of `0..n` because its
complement has no least member (`LeastNumber`, `StepByStep`), and the equations of a
recursive function come from the same argument (`MergingStepByStep`).

Assumptions are the named `ASSUME`s on constants (a limit is a natural number, "none"
is no member of the set it is absent from, the versions the analyses compare are
numbers: values in a total order, as Python's strings are), evaluated by the runs. So
every safety property of every passing run is also proved. Only model-checked:
liveness (`CallsEnd`: TLAPS proves no fairness) and the disagreements listed above,
which are counterexamples.

## Not modelled, and why

Policy (stateless labels), registration of tools (no state), the aliases of record
fields in a dialect, sanitizer, parsing, formatting, parameter minimisation and
telemetry (no property here depends on the text), `capture_prior_state` and the
asynchronous wrapper (no tool uses them), and `disconnect` of connections (nothing
calls it). Cryptography of the secret store, file permissions, and a whole store file
that the system does not let a process read. Memory: the budget's windows and the
pattern counters are never dropped by the code. `undo_list` and the audit's `health()`
only read what other properties are about.

Simplified, where no property tells the difference:

- `AuditLog`: a call's rows are compared as a set of call and status, so a row doubled
  with the same status would not be seen; the clean-up of archives takes all it should or
  none, and archive names never collide (their clock has seconds).
- `GovernedCall`: an error status means that the POST did not apply. `connection.py:149`
  counts 5xx among them, where a server may have acted first; the repository takes
  such an answer for a definite failure (`mcp_server/_shared.py:39`), and so does the model.
- `Connection`: a "stored" key is whatever `_resolve_secret` finds, the plaintext variable
  included; a target the configuration does not have is a call that ends at once;
  connecting reads the stored key anew, where the code reads the store it unlocked at
  the first lookup (what changes meanwhile is outside the properties).
- `Dialect`: port and path of an address are one unit, overridden together or not.
- `FleetDrift`: a declared baseline is a value or none, not the empty string.

## Plan

Done, in this order, because the audit trail is what every other promise is
reported through: `AuditLog` with its abstract ledger and proofs; `GovernedCall`;
`UndoApply`; `Budget`; `Patterns`; the analyses; `SecretStore`; `Dialect` and
`Connection`; and the proofs of each, the analyses last.

Next:

1. `audit health()`, and the exit status of `undo apply`.
2. A composition of `GovernedCall` with `UndoApply`, so that a token's replay is
   itself a governed call, and of `GovernedCall` with `Connection`, so that a login
   that fails is one of the tool's errors.
3. Should the code renew a lapsed session, a liveness property of `Connection`: a
   call on a healthy server eventually succeeds. Today it does not.
4. Abstract specifications for the other stores, as `AuditLedger` is for the audit
   store, with the detailed ones proved to implement them: `SecretStore` as a map that
   changes in one step while no two commands overlap, and `UndoApply` as tokens that are
   spent in one.
