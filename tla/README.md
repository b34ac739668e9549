# qValet in TLA+

qValet turns HTTP requests into executions of configured commands ("listeners"),
with retries, error handlers, temporary files, stored payloads and, through
plugins, executions at a later time. This directory holds TLA+ models of it, the
TLC configurations that check them and proofs that TLAPS checks. Paths below are
those of the repository.

## 1. The system

| part | source | state | operations |
| --- | --- | --- | --- |
| start-up | `cmd/main.go`, `pkg/routes.go`, `pkg/plugin.go` | `mountResults`, `listenersMap`, the plugins that were started, the servers | mount the configurations port by port, start plugins, listen; any error is fatal |
| listener | `pkg/listener.go` | per request: a clone with its file names, `retryMap`, `toStore`, the response | `HandleRequest` → `ExecCommand` → `prepareExecution` → `processFiles`; `cleanTemporaryFiles` deferred |
| retry plugin | `pkg/plugin_retry.go` | none of its own; a count and an elapsed time per plugin id in `retryMap` | `HookShouldRetry` |
| error handler | `pkg/listener.go` | its own clone and payload | runs when an execution has failed for good |
| storage | `pkg/storage.go` | payloads in an external service | `storePayload`; a failure is only logged |
| schedule plugin | `pkg/plugin_schedule.go`, `pkg/plugin_schedule/` | the scheduled tasks table in PostgreSQL, `runLoop`, one goroutine | the scheduling route inserts a row; the loop claims, executes and deletes one row per transaction |
| preview plugin | `pkg/plugin_preview.go` | none | prepares an execution and answers with it |
| output and debug plugins | `pkg/plugin_http_response.go`, `pkg/plugin_debug.go` | none | write the response; log around executions |
| AWS SNS plugin | `pkg/plugin_aws_sns.go`, `pkg/snshttp/` | a cache of certificates, never filled | confirms subscriptions, executes notifications under a timeout |
| request wrapper, timeout, cache | `pkg/utils/` | the response being written, gin's pooled contexts; entries with expiry | used by the SNS plugin |
| authentication | `pkg/auth.go` | the header's value, transformed in place; the body, read and put back | `verifyAuth` |
| arguments | `pkg/utils/payload.go` | none | merges path, request, body and query |
| templates | `pkg/template*.go`, `pkg/iftemplate.go` | the listener a template is bound to | evaluation, comparison functions over mixed kinds |
| configuration | `pkg/config.go`, `pkg/mergo.go`, `pkg/listener.go` | structs that defaults and listeners share by pointer, while they are merged | load, merge with defaults, compile each listener and its error handler |
| database | `pkg/database.go` | a cache of connections, `appliedMigrations` | connect once per DSN, migrate |

How they interact: `main` compiles every listener once and mounts its routes and
those of its plugins; the HTTP server runs one goroutine per request, which
authenticates it, extracts its arguments and calls `HandleRequest`. Plugins are
called back at fixed places of `HandleRequest` (before and after the execution, for
a retry, for the output). The route of the SNS plugin runs its handler in one more
goroutine, with a timeout of which the handler hears nothing. The schedule plugin calls the same `HandleRequest` from
its own goroutine. Between processes only the table of scheduled tasks is shared.

What is hard in it:

* replicas that scan one table at the same time, kept apart only by a row lock that
  a lost connection or a crash releases in the middle of an execution;
* an execution, the DELETE of its row and the COMMIT that can fail separately;
* the recursion of `HandleRequest` on a retry: state that must survive the attempts
  (`retryMap`, the deferred cleanups) beside state that must not (`toStore`,
  the clone, `timeStart`);
* many ways out of one request (trigger, hooks, limits of retry plugins, templates,
  error handler, output plugin), each with its own answer, payload and cleanup;
* a handler that goes on after its timeout with a context that another request may
  have by then;
* start-up that is not atomic: ports that listen while later ones are being mounted;
* merges that keep pointers: what one listener says is written into the defaults of the
  next one, in the order of a map;
* a search over configurations, headers and keys that transforms what it compares;
* comparisons of numbers of different kinds, widths and signs.

`PROJECT.json` lists the hazards one by one with the source line and the property
that covers each, or why none does.

What makes each part correct: a scheduled task is kept, executed after its time, and
repeated only for a fault; a request is answered once, its error handler runs exactly
for final failures, its attempts are bounded, its files exist while used and not
longer; a message is answered in time, and with a success only by a handler that has processed its message;
nothing listens before its plugins run, and no plugin runs twice; conditions order
numbers by value and agree with each other; a request is let in exactly with a key of its
route's list, and its listener gets the request's own arguments; a listener opens the
storage and database that the files name for it.

## 2. The modules

| module | models | composed with |
| --- | --- | --- |
| `ScheduledTasks` | what the schedule plugin promises a client | - |
| `Scheduler` | route, table, transactions, loops, processes, faults | implements `ScheduledTasks` (`KeepsPromise`) |
| `SchedulerProofs` | the inductive invariant of `Scheduler`, the theorems that follow, and that it implements `ScheduledTasks` | extends `Scheduler` |
| `Executions` | what a listener promises those who send it requests | - |
| `Listener` | `HandleRequest` with retries, files, error handler, storage, output, preview | implements `Executions` (`ExecutesAsPromised`) |
| `ListenerProofs` | attempts, error handler and files of `Listener` | extends `Listener` |
| `ListenerStorageProofs` | its stored payloads, the files it leaves, and that it implements `Executions` | extends `ListenerProofs` |
| `Startup` | `main`, `MountRoutes`, `PluginsStart`, the servers | - |
| `StartupProofs` | theorems about `Startup` | extends `Startup` |
| `Notifications` | the SNS route, `WrapRequest`, the timeout, gin's contexts | - |
| `NotificationsProofs` | theorems about `Notifications` | extends `Notifications` |
| `Requests` | `verifyAuth` and the arguments of a request | - |
| `RequestsProofs` | theorems about `verifyAuth` and the arguments | extends `Requests` |
| `Configuration` | the merges and `compileListener` | - |
| `ConfigurationProofs` | theorems about `Configuration` | extends `Configuration` |
| `Comparisons` | `eq`, `ne`, `lt`, `le`, `gt`, `ge` of templates | - |
| `ComparisonsProofs` | theorems about `Comparisons` | extends `Comparisons` |
| `MCScheduler`, `MCListener`, `MCStartup`, `MCRequests`, `MCConfiguration`, `MCComparisons` | values for the constants | - |

Definitions named `Action_Variant` are wrong versions of an action, one per
property, such as a programmer might write; no run uses them. They document which
mistake the property catches.

### Scheduler

`row`, `executeAt`, `listenerId` are the table as committed; `lock` is the row lock,
`tx[l]` what the *server* knows of the transaction of loop `l` (which may be
"lost" while the loop is unaware of it), `task[l]` and `pc[l]` where the goroutine is.
One action stands for one interaction with the database, since that is where other
processes interleave: `Claim` (BEGIN, SELECT ... FOR UPDATE SKIP LOCKED, and the call
of `HandleRequest`), `HandlerReturns`, `Delete` (deferred), `Commit` or
`CommitRollsBack`, then `Wake` and `Test` around the sleep. The listener itself is opaque
here: it takes any time and returns; a panic in it is a `Crash`, as the goroutine has
no recover. An error it returns becomes `processingError`, which does not fail the
transaction, so it makes no difference to the row. A failed DELETE is swallowed, and
PostgreSQL turns the COMMIT of an aborted transaction into a rollback. A `Crash` of a
process rolls all its transactions back; `Restart` runs `OnStart` again.

PostgreSQL is external and modelled as the code relies on it: row locks until the end
of the transaction, SKIP LOCKED, rollback when a connection ends. Processes read one
clock; the three sleeps of the loop are one `Wake`, since only their end matters.
`ScanFails` covers BEGIN and SELECT. A commit that fails is a `ConnectionLost` just
before it (rolled back). A COMMIT that succeeds while its acknowledgement is lost is
the step `Commit`: the loop only logs the error, sleeps, and nothing else differs.

### Listener

One compiled listener, any number of concurrent requests. `pc[r]` walks through
`HandleRequest` and `ExecCommand`; `mode[r]` says whether the listener's or its error
handler's `ExecCommand` runs. The recursion is flattened: `attempt[r]` is its depth,
`Sleep` enters the next call and `Unwind` is the return of all of them, with the
deferred cleanups of every attempt and of the error handler (`tracked[r]`). `Clone`
is the start of a call, which makes a new clone, `toStore` and `timeStart`. It cannot
fail: the only errors it passes on are those of `text/template`'s `Clone`, which has
none. Files are abstract (a name, its cleaned form, whether it is
absolute); a relative one is written to a path of its own attempt, as `MkdirTemp`
gives every execution a new directory. `Unwind` removes any of the tracked files: a failing
`os.Remove` is only logged, and the file stays (`notRemoved`, a history). The files that were
written when another one fails are tracked by nobody (`filesFailed`), and of those whose cleaned names
are equal only the last one is. Templates, hooks, command, storage and output
plugins may do what they are for or fail, chosen at each use. Hooks can fail by their
interface; the only plugin that has any (`PluginDebug`) never does, so a configuration
says whether it has hooks that can (`fallibleHooks`), and the runs look at both.
An attempt lasts one of `Durations`, a retry delay one tick.

A failing request is answered with its error and the storage entry, whose contents
are not modelled beyond the keys they have. A payload that cannot be encoded leaves an entry
without any, which `Stores` may append in the place of each payload.

`Executions` is the same listener for a client, without recursion, files and places: a request is
refused, previewed, or attempted within a limit and then answered once, as a success that may be stored or
a failure that the error handler has seen, if there is one. Under the mapping `Promise` the attempts are
the depth of the recursion, the limit is that of the first retry plugin (one attempt without any),
and a request is settled when its payload has been stored and its output has not been made.

### Startup

`main` walks the ports and their configurations in any order (Go maps). `Mount` is one
`MountRoutes`, `Validate` and `StartEntry` are `PluginsStart`, whose `startedPlugins` lives
for one call. A listener with several methods has one entry for each of them in
`listenersMap` with the same plugins. `starts` is a history: for each configuration the calls of
`PluginsStart` that were made for it, with which the loops of its plugins are compared. `ServerFails` may happen wherever `main` is: the
goroutine's `Fatalf` ends the process. `wg.Wait` never returns, because `wg.Done` is only
reached past that `Fatalf`; `PluginsStop` is therefore no action here.
`Scheduler.Stop` models `OnStop` for a program that calls it.

### Notifications

`pc[d]` is where the handler of a delivery is, `wait[d]` what the middleware that started it
waits for; the two are goroutines and interleave. `context[d]` is the gin context both
use. gin takes it back when the middleware returns and gives it to another
request, so `user[x]` is the delivery whose response `x` writes *now*: `Write` follows it,
as code that holds a `*gin.Context` does, and only the first status counts. `aborted[x]`
belongs to the context and is reset with it. `CheckAborted` and `Answer` are two steps, as
`WrapRequest` reads `IsAborted` before it writes. `TimesOut` can come at any moment,
also when the handler has just ended: `select` may choose either.

Credentials, body and header are read in the step `Deliver`; the handler reads them in
its first moments, long before the timeout. Verification, confirmation and `HandleRequest`
are outcomes that take any time. With an output plugin `HandleRequest` writes the response
itself, after which the wrapper's status changes nothing. Two goroutines that write one
response at the same time are a data race in gin; here one of them comes first.
The pool belongs to a port, so deliveries may be for different listeners.

### Comparisons

Values are of the kinds of `basicKind`. Signed integers go from `-Half` to `Half - 1` and unsigned
ones to `2 * Half - 1`; `uint64(n)` is the remainder by `2 * Half`. What float an integer becomes
is the constant `Rounded`, of which the module assumes what `float64(n)` does: it leaves
integers up to `Exact` as they are, yields floats, and keeps the order. With 64 bits `Half`
is 2^63 and `Exact` 2^53. A float is given in halves, so that some are no integers. `EqStep` is one
round of the loop of `tplEq`; "stop" is its `return false` for values it does not compare
further. `eq` does not look behind such a value, whatever follows (finding 4). An argument's own width (`int8`, `float32`) is lost when `reflect` reads it.

### Requests

One request, from its route to the arguments of its listener. `Enter` is the route: that of a
schedule plugin reads its time first. `verifyAuth` is walked as its loops are written:
`config`, `header` and `key` are the three indices, `Basic` and `Query` compare the
credentials of a configuration with its keys, `BeginHeader` and `TryKey` one header with one key,
`NextHeader` and `NextConfig` go on, and `TransformError` and `BodyError` are the returns that leave
the rest untried. What is absent is compared as the empty text, and an environment variable
that is not set makes a key empty, so nothing is assumed about keys being there
(`AsksForNothing`). `value` is `headerValue`, which every key transforms again. `Extract` and
`ExtractFails` are `ExtractArgsFromGinContext`; `body` is what a read of the request's body
gives by then.

A header's text has `layers` that a transform takes off: "trim" all there are and then
changes nothing, "decode" one at a time and makes nonsense of a bare text (but nothing of nothing), "cut"
fails on a bare text. Those are the
three ways in which a template can answer to its own result. An HMAC is a constructor: it
equals another one exactly if payload and key do. A name of an argument is a sequence of
parts, `<<"_query_", "a">>` for `_query_a`, so that a body may name what the
query would. A body may be `broken`: reading it to its end fails, which a hash reports, a form
takes for an empty one, and JSON and YAML do not notice as long as what was read can be parsed. Which of two arguments wins is decided by path,
request, body and query, in rising order.

### Configuration

A world says what the file of `--defaults`, each configuration and each listener give, for
themselves and for their error handlers. mergo is external, as version 0.3.13 of `go.mod` behaves: a
merge copies values, keeps a pointer of the first, and writes what the second points to
into the struct there. So the structs behind pointers are variables, `structs` for storages and
databases and `handlers` for error handlers, and a merged configuration is values and pointers.
`frames` holds the calls of `compileListener`, that of the error handler on top of its
listener's. `BeginConfig` and `BeginListener` take the maps in any order; each configuration is on a
port of its own. A storage or database is an address and the rest of what it needs. Storages are
remembered for one `MountRoutes` (`storagers`), databases for the process (`databases`); opening or
migrating one may fail. Validation is what several fields take part in: a command, plugins
that must be unique, services that are complete.

## 3. The runs

| run | instance | shows |
| --- | --- | --- |
| `scheduler` | two replicas (one id), 2 tasks, `MaxTime` 2, `MaxFaults` 2 | the six invariants, the refinement of `ScheduledTasks`; every task is served, stopped loops end |
| `listener` | 5 configurations, up to 5 attempts; 2 concurrent requests in one of them | attempts, error handler, payloads, files, answers, and the refinement of `Executions` |
| `startup` | 2 ports, 3 configurations, 5 entries, 4 plugins, 3 ids | what listens is started, duplicate ids are found |
| `listener_elapsed` | a limit by time only | finding: `maxElapsed` limits one attempt |
| `listener_left_files` | one attempt, two files of one clean name | finding: temporary files that nobody removes |
| `startup_on_start` | as `startup`, an id per plugin | finding: plugins of earlier ports are started again |
| `notifications` | 2 deliveries of any type, 2 contexts | who answers, and that successes are true |
| `comparisons` | integers of 4 bits, floats of 3 and an exponent (`Exact` 4), two arguments of any kinds | numbers are compared by value, the six functions agree |
| `comparisons_eq` | integers of 2 bits, up to three arguments | finding: `eq` stops at an argument of another kind |
| `requests` | 17 lists on listeners' routes and 3 on those of schedule plugins, two keys, one of which may be empty, every credential, body and query | who is let in, and with which arguments |
| `configuration` | 2 configurations, 3 listeners, 5376 worlds, any order | precedence, and where foreign values come from |
| `configuration_shared` | as `configuration` | finding: listeners write into their defaults |

The bounds. Two faults allow a crash during the execution that follows a lost
connection, and both executions of one task to lose their transactions. Two replicas are
enough for two executions to overlap, and for one to serve a task while the other is down or
stopped. The constraint `FirstThenSecond` lets the first task ask for the time 0, due at the first
tick, and the second one for 1; they may still be scheduled, become due and be claimed in either
order, since nothing makes a replica take the first tick. It cuts off requests of clients only, and so takes
nothing from fairness. Ids other than that of the task's plugin, and two tasks for one time, are left to the
proofs, which take any.

In `listener` the configurations are: everything
at once with a limit by number; a limit by time before one by number; the default limit
before a limit of zero; two files whose names collide once cleaned; and one with files, a retry and an
error handler for two requests at once. The constraint `Met` has a second request only there, where no
time passes: two requests share nothing but the names of their files. `MaxAttempts` is
5, one more than the default limit of 3 retries needs, so no bounded chain is cut
short; a chain without a limit by number ends where `RetryWanted` is bounded by
`MaxAttempts`, and there the other steps of that place remain. Two requests are
enough for one to remove what the other uses.

With two deliveries and two contexts the
second gets the context of the first or another one; a third delivery could only be
one more victim of the same handler. Four bits give negative numbers, unsigned ones
beyond the largest signed one, and integers that no float holds, negative ones (-5 and -7) too;
up to 8 every second integer is a float, then every fourth, so neighbours become one float, and
the largest ones a float beyond them. `MaxOthers` is 1, as the properties are about pairs, and 2 in
`comparisons_eq`: the least for an argument to hide another from `eq`. In `requests` a list has
up to two configurations and a configuration two keys and two headers, so that what is looked for
may be the first or the last of each; texts have 0 to 2 layers, so that a second transform of the
same value finds something, nothing, or spoils it. A broken body may be malformed, YAML that still
parses, or a form. In `configuration` one configuration has two listeners,
which is the least for one to see what another left behind, and a second one shares the file
of defaults with it. Everyone names its values after itself, so each value tells where it came from.

`CHECK_DEADLOCK FALSE` is stated in every configuration because each system may stop:
all requests are done; every task is deleted, the clock is at its bound and every loop
stopped; the process has exited or waits for ever.

Fairness. `Scheduler`: a goroutine that can run does and a listener returns
(`WF(LoopNext)`), time passes, and a supervisor restarts a process that died, as a
Kubernetes Deployment does (`examples/k8s-restart-helper.yaml`). Requests, shutdown and faults need not happen;
faults are bounded, so weak fairness is enough. `Listener`: the goroutine of a request
runs, commands end, delays pass (`WF(Handle)`). `Startup`: `main` runs. `Notifications`: only
timers fire; handlers may hang. Without these
a task waits in a table nobody reads, and no liveness claim could hold.

## 4. The proofs

`SchedulerProofs` shows for every set of processes, plugins, loops and tasks, every
bound on time and every number of faults, that `Spec` implies `TypeOK` and the five
safety invariants of `scheduler`. None of the five is inductive. `IInv` adds:

* `LockInv`: the lock of a row and the live transaction of the loop that holds it
  point at each other, and a locked row is still in the table;
* `LoopInv`: where a loop is fixes what its transaction can be and that its task has
  begun, or has been finished;
* `RowInv`: what a row's state says of the past of its task;
* `AccountInv`: the accounting behind `RepeatedOnlyAfterFaults`. Each execution that
  began holds the lock, has lost its transaction (`rollbacks`), or has removed the row;
  and each lost transaction is paid for by a fault, that of an aborted transaction
  in advance, when its DELETE fails;
* `LateInv`: a loop that may still scan has claimed nothing since its plugin stopped.

There is one lemma per action, with a step for each part of `IInv` the action can
disturb; `StepInv` puts them together.

Its last section shows that `Spec => KeepsPromise`: `Init` maps to the initial state of
`ScheduledTasks`, inserts map to `Accept`, the end of a first execution to `Execute`, the
COMMIT to `Remove`, a tick to `Advance`, and every other step to a stutter. It uses `IInv`
where a step of `ScheduledTasks` has a guard that no guard of the code states: that the
executed task is due, and that a removed one was executed.

`ListenerProofs` shows for every set of requests and every assumed configuration that
`Spec` implies `TypeOK`, `AttemptsAreBounded`, `ErrorHandledOnce`, `FilesOutliveTheirUse` and
`PersistentFilesStay`. Its `IInv` adds to the type:

* `CountInv` and `LimitInv`: no retry plugin has counted more than the attempts made, and the
  first one exactly those, less the one under way. The bound on attempts follows, because a
  retry leaves its count within the limit;
* `OwnLimitsInv`: the count of every plugin, the later ones too, stays within one more than its limit;
* `HandlerInv`: a request is in its error handler's mode only after it failed, and that
  mode leads to an error and nothing else;
* `FilesInv`: a request's cleanups know only its own temporary files, and what it has
  written exists while it executes. One request's `Unwind` then takes nothing from another.

Every failing way out of an attempt ends in `ExecEnds`, and every retry decision in `Reached`,
so the lemmas `ExecEnded` and `AttemptCounted` carry these actions; each other action has a
lemma of its own.

`ListenerStorageProofs` adds to that invariant `StorageInv` (what a request has collected,
and whether a place that stores is still ahead of it) for `StoredOnce`, and `TemporaryInv` (a temporary file on the
disk is tracked by its request, still being written, or `Explained`: its execution's files failed, a name
that collides with its own has displaced it, or it could not be removed) for `LeftFilesAreExplained`.

Its last section shows that `Spec => ExecutesAsPromised`. `Clone` of a request to be run maps to `Attempt`,
`StoreSuccess` to `Settle`, the outputs to `Succeed`, `BeginErrorHandler` and `EndErrorHandler` to `HandleError`
and `FailHandled`, the other ways out to `Refuse`, `Preview` and `Fail`; preparing, running and
retrying a command map to stutters. The guard of `Attempt` needs `LimitInv`, those on payloads
`StorageInv`, and the rest `ProgressInv`: a request has an answer exactly when it has left
`HandleRequest`, a preview never gets past its templates, and only a retry plugin brings a request
back to `Clone`.

`StartupProofs` shows for every set of ports, configurations, entries and plugins, and every
assignment of ids, that `Spec` implies `TypeOK` and the three safety invariants of `startup`. Its `IInv`
adds `MountInv` and `StartInv` (what `main` has mounted, and how far `PluginsStart` is),
`LoopInv` (a plugin it has come to in this round has a loop for this round, the others have
one fewer), `CountInv` (a plugin has a loop for each call of `PluginsStart` made for its configuration, less one while
the call under way has still to come to it), and `ListenInv` (what listens was started in an
earlier round).

`NotificationsProofs` shows for any deliveries and contexts that `Spec` implies `TypeOK`,
`OnlyLateHandlersMixUp` and `SuccessMeansProcessed`. `ContextInv` says who uses a context
while its middleware waits, `ResultInv` what a handler's result says of what was done, and that no response,
its own or another's, has been written by a handler that has not verified its message.

`RequestsProofs` shows for all routes, lists, keys and requests that `Spec` implies all five
invariants of `requests`. `PlaceInv` fixes where the three loops
are, `ValueInv` that `value` is the header with as many transformations as keys were tried,
`TriedInv` that everything before that place was compared and did not match, `EndInv` which of the three
ways a refusal took. `Transformed` says in closed form what several transformations make of a header, and
`OneMore` that the next one goes on from there; so the comparison with *every* key is stated exactly
(`IsFound`), also where a transform spoils its own result. `ArgsInv` says that the body is there to be read
whatever hashes were compared before, and that the arguments are what `Collected` makes of path, request, body and query.
`ArgumentsAreTheRequests` follows from what `Collected` does: each source is written over the ones
before it (`CollectedKeeps`), an element of a list stands at its index (`ElementsByIndex`), and
of a name that the query gives alone and as a list one value wins (`QueryArgsAre`).

`ConfigurationProofs` shows for any files, any listeners and any order of the maps that `Spec` implies `TypeOK`,
`PlainFieldsByPrecedence`, `SurprisesComeFromSharedDefaults` and `MissingOnlyWithoutDatabase`. For the third:
`HandlerInv` (a struct of an error handler holds values that error handlers gave, and
whose), `OwnerInv` (whose error handler a configuration has), `PointerInv` (which struct
each configuration uses: its own, or that of the file once it was merged), and
`SourceInv`, which follows a value from the struct of the file to that of the configuration that is
mounted, to the one the listener uses, to what it opened. The attempt to prove an earlier form of the property failed
at the error handler of the file, whose struct all configurations share; the property
now names that way too. For the fourth `MissingInv` follows what is *not* there: a merge takes nothing
away (`MergeLacks`), so whoever lacks a database after its merges was given none by
anybody merged into it, from the defaults (`DefaultsHaveInv`) to the calls of
`compileListener` (`CallsHaveInv`). Handlers that were compiled are a set, empty or of one, so that the proof
never compares a record with `None`.

`ComparisonsProofs` shows for integers of every width, every `Rounded` and any number of arguments
that `Spec` implies the three invariants of `comparisons`. Its invariant `CalledInv` is small: the
results are those of the functions. The work is in the lemmas about numbers. `RoundingKeepsSides`:
an integer on one side of a float becomes one on the same side, or the same; `ComparedAs` and
`ComparedByValue`: so any two numbers are compared as two integers whose order is that of their
values unless rounding made them equal. From there `Trichotomy` and `OrderOfPair` give the
six functions. `LessIsTransitive` adds what no run checks as a property: `lt` has no cycles.
TLC and the provers may choose differently where guards of a `CASE` overlap; the
functions are therefore written with `IF`s in the order of the code.

The proofs assume the constants' assumptions stated in the modules and nothing
else. Every invariant of a passing run, the action property `PersistentFilesStay` and both
refinements are proved. Only model-checked are the liveness properties `EveryTaskIsServed`, `StoppedLoopsEnd`,
`EveryRequestIsAnswered`, `EveryPortIsServed` and `EveryDeliveryIsAnswered`: they rest on fairness, and so on
ENABLED, which is out of the prover's reach.

## 5. Findings

1. `listener_elapsed`: `maxElapsed` is compared with the duration of the last attempt
   (`listener.go:551`, `:582`), not with "the maximum amount of time spent retrying"
   (`plugin_retry.go:36`).
2. `configuration_shared`: merging a listener writes its storage and database into the structs
   of the defaults (`config.go:210`), so that another listener opens them, depending on the order
   of a map, whereas `config.go:35-36` says that the values of a listener "will overwrite the default ones".
3. `startup_on_start`: with several ports the plugins of the earlier ones are started once more for each
   later one (`main.go:112`), which `routes.go:127-128` means to prevent.
4. `comparisons_eq`: `eq` with several arguments returns false at the first one of another kind
   (`template_override.go:95-98`, `:117`), so `eq 3 "4" 3` is false, whereas `template_override.go:53` says
   that it "evaluates the comparison a == b || a == c || ...".
5. `listener_left_files`: a file that cannot be rendered or written leaves those before it behind
   (`listener.go:738`, `:744`, `:749`), and so does a name that differs from a later one only outside `\w`
   (`listener.go:730-732`), whereas docs/0040-local-files.md:18-19 says of temporary files that "they will be
   deleted after the listener execution".

Seen, but not stated as runs:

* listeners: the last retry that `maxRetries` permits fails the request even when its command
  succeeds, as the limit is checked before the condition (`plugin_retry.go:122`, `:33`); a failing
  removal of a temporary file is only logged (`listener.go:768-770`); the directory made by `MkdirTemp` is
  never removed; a preview leaves its files behind; without an error handler the payload of a failed request is not stored (`listener.go:616`;
  `storage.go:41` says "store every request's args");
* start-up and configuration: ids of schedule plugins are compared within one configuration only
  (`plugin_schedule.go:41` says otherwise); `OnStop` and `CloseAllDBConnections` are never reached;
  without a database `compileListener` returns neither a listener nor an error (`listener.go:274`); `--debug` is
  read after the configurations were loaded with it (`main.go:88-90`, `config.go:283`); all
  configurations share the error handler of the file of defaults;
* requests: a key that names an environment variable which is not set is empty (`mapstructure.go:49-52`), and
  what a request lacks is equal to it (`auth.go:115-121`, `:127`, `:141`): `AsksForNothing` says for which
  configurations; `auth.go:136` transforms the header again for each key, which `auth.go:54` does not say;
  docs/0060-authentication.md:20 speaks of `httpAuthUsername`, the code of `basicAuthUser`;
* SNS: the timeout does not end a handler, as `timeout.go:45` says it does, and the late handler can
  answer another request that has got its context (`OnlyLateHandlersMixUp` says how far this
  goes); a certificate served with a bad status gives a nil error (`notification.go:161`);
  `gin.Recovery` is called but not run (`timeout.go:72`);
* templates and output: `gt` and `ge` are true of NaN; the status of an output
  plugin is ignored when it has a body template (`plugin_http_response.go:244`).

## 6. Not modelled, and the plan

Next, in this order:

1. `Delayed`: `Scheduler` composed with `Listener`: the execution of a claimed task as the
   whole `HandleRequest`, in the place of `HandlerReturns`, so that retries, error handlers
   and files run inside the transaction. In the same way `Notifications` with `Listener`, and
   `Startup` with `Configuration`.
2. The output plugin's response: status, headers and CORS by their templates.
3. Proofs: abstract specifications of `Notifications` and `Requests`, and that these implement them.

Left out for good: how times, templates, responses and payloads are written, and the
functions of templates that format, decode and read (library calls, one line each); the
storage services and PostgreSQL beyond what the code relies on; the migrations of replicas
that start together, which bun's migrator decides; the cache, whose only user never fills it;
how long a retry waits; flags and logging; continuous integration, documentation tools and
examples.
