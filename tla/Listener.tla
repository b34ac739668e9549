------------------------------ MODULE Listener ------------------------------
(***************************************************************************)
(* One compiled listener serving concurrent requests: HandleRequest with   *)
(* its recursion on retries, the execution of the command between its      *)
(* templates and hooks, the temporary files of every attempt, the error    *)
(* handler, the stored payloads and the answer; and the preview route,     *)
(* which prepares an execution without running it.                         *)
(*                                                                         *)
(* Templates, hooks, the command, the storage and the file system either   *)
(* do what they are asked to do or fail, which is chosen freely at each    *)
(* use. An attempt lasts one of Durations and a retry delay one tick.      *)
(***************************************************************************)
EXTENDS Integers, Sequences

CONSTANTS
    Requests,       \* the requests that are sent
    Listeners,      \* the listener configurations to consider, see below
    None,           \* no limit, no error handler
    Durations,      \* how long an attempt may take
    MaxAttempts     \* bound of the attempts of a request

\* A configuration c has two commands, c.main and c.onError (None without an error
\* handler), each with its files and the keys it stores (none without a storage);
\* c.retries has the limits of its retry plugins; c.trigger and c.outputPlugin
\* say whether it has those, c.fallibleHooks whether a plugin has an execution
\* hook that can fail: PluginDebug, the only one with such hooks now, never does.
Files == UNION {c.main.files : c \in Listeners} \cup
         UNION {c.onError.files : c \in {d \in Listeners : d.onError # None}}

ASSUME ConstantsAssumption ==
    /\ \A c \in Listeners :
        /\ c.retries \in Seq([maxRetries : Nat \cup {None}, maxElapsed : Nat \cup {None}])
        /\ c.trigger \in BOOLEAN
        /\ c.outputPlugin \in BOOLEAN
        /\ c.fallibleHooks \in BOOLEAN
    /\ None \notin Nat
    /\ Durations \subseteq Nat
    /\ Durations # {}
    /\ MaxAttempts \in Nat \ {0}

VARIABLES
    conf,       \* the configuration of the listener
    kind,       \* kind[r]: "run" or "preview" once it is accepted
    pc,         \* pc[r]: where request r is
    mode,       \* mode[r]: whose ExecCommand runs, "main" or "onError"
    attempt,    \* attempt[r]: depth of the recursion of HandleRequest
    retryMap,   \* retryMap[r][i]: the RetryCount of retry plugin i
    written,    \* written[r]: files the running ExecCommand has written
    tracked,    \* tracked[r]: paths the deferred cleanups of r will remove
    disk,       \* the paths that exist
    toStore,    \* toStore[r]: payload keys collected by the attempt
    toStoreOnError, \* the same of the error handler
    stored,     \* stored[r]: payloads written to the storage for r
    errCommand, \* errCommand[r]: why the attempt failed, or "none"
    elapsed,    \* elapsed[r]: time since the timeStart of the attempt
    answer      \* answer[r]: what the client gets

\* History: commands run, error handlers begun, the ExecCommands whose files could
\* not all be written, the files that could not be removed, time since the request.
VARIABLES commands, handlerRuns, filesFailed, notRemoved, spent

core == <<conf, kind, retryMap, attempt, answer>>
files == <<written, tracked, disk, filesFailed, notRemoved>>
payload == <<toStore, toStoreOnError, stored>>
time == <<elapsed, spent>>
counts == <<commands, handlerRuns>>
vars == <<conf, kind, pc, mode, attempt, retryMap, written, tracked, disk, toStore,
          toStoreOnError, stored, errCommand, elapsed, answer, commands, handlerRuns,
          filesFailed, notRemoved, spent>>

\* The configuration of the command that request r is executing.
Running(r) == IF mode[r] = "main" THEN conf.main ELSE conf.onError

\* Where an ExecCommand of request r writes a file: an absolute one at its own path,
\* a relative one in a directory that MkdirTemp makes for this ExecCommand.
PathIn(r, exec, f) ==
    IF f.absolute THEN [file |-> f] ELSE [file |-> f, request |-> r, exec |-> exec]

\* The ExecCommand that request r is in, and the files it writes.
ExecOf(r) == [attempt |-> attempt[r], mode |-> mode[r]]
PathOf(r, f) == PathIn(r, ExecOf(r), f)

Goto(r, place) == pc' = [pc EXCEPT ![r] = place]
-----------------------------------------------------------------------------
Init ==
    /\ conf \in Listeners
    /\ kind = [r \in Requests |-> "none"]
    /\ pc = [r \in Requests |-> "new"]
    /\ mode = [r \in Requests |-> "main"]
    /\ attempt = [r \in Requests |-> 0]
    /\ retryMap = [r \in Requests |-> [i \in 1..Len(conf.retries) |-> 0]]
    /\ written = [r \in Requests |-> {}]
    /\ tracked = [r \in Requests |-> {}]
    /\ disk = {}
    /\ toStore = [r \in Requests |-> {}]
    /\ toStoreOnError = [r \in Requests |-> {}]
    /\ stored = [r \in Requests |-> <<>>]
    /\ errCommand = [r \in Requests |-> "none"]
    /\ elapsed = [r \in Requests |-> 0]
    /\ answer = [r \in Requests |-> "none"]
    /\ commands = [r \in Requests |-> 0]
    /\ handlerRuns = [r \in Requests |-> 0]
    /\ filesFailed = [r \in Requests |-> {}]
    /\ notRemoved = {}
    /\ spent = [r \in Requests |-> 0]
-----------------------------------------------------------------------------
(* prepareListenerRequestHandling and the handlers that call it.           *)

\* The credentials or the arguments of the request are refused: 401 or 400.
Refuse(r) ==
    /\ pc[r] = "new"
    /\ answer' = [answer EXCEPT ![r] = "refused"]
    /\ Goto(r, "done")
    /\ UNCHANGED <<conf, kind, mode, attempt, retryMap, errCommand, files, payload, time, counts>>

Accept(r, k) ==
    /\ pc[r] = "new"
    /\ kind' = [kind EXCEPT ![r] = k]
    /\ Goto(r, "clone")
    /\ UNCHANGED <<conf, mode, attempt, retryMap, answer, errCommand, files, payload, time, counts>>
-----------------------------------------------------------------------------
(* HandleRequest up to ExecCommand: a clone of the listener, an empty      *)
(* toStore and a new timeStart for every attempt.                          *)
Clone(r) ==
    /\ pc[r] = "clone"
    /\ attempt' = [attempt EXCEPT ![r] = @ + 1]
    /\ mode' = [mode EXCEPT ![r] = "main"]
    /\ written' = [written EXCEPT ![r] = {}]
    /\ toStore' = [toStore EXCEPT ![r] = {}]
    /\ errCommand' = [errCommand EXCEPT ![r] = "none"]
    /\ elapsed' = [elapsed EXCEPT ![r] = 0]
    /\ Goto(r, "prepare")
    /\ UNCHANGED <<conf, kind, retryMap, answer, tracked, disk, filesFailed, notRemoved,
                   toStoreOnError, stored, spent, commands, handlerRuns>>

(* ExecCommand and prepareExecution, of the listener and of its error      *)
(* handler, and of a preview, which stops before the command.              *)

\* How ExecCommand ends: for a preview with the answer, for the listener in
\* errCommand, for its error handler in the result reported beside the error.
ExecEnds(r, err) ==
    \/ /\ kind[r] = "preview"
       /\ answer' = [answer EXCEPT ![r] = IF err THEN "error" ELSE "ok"]
       /\ Goto(r, "done")
       /\ UNCHANGED errCommand
    \/ /\ kind[r] = "run" /\ mode[r] = "main"
       /\ errCommand' = [errCommand EXCEPT ![r] = IF err THEN "exec" ELSE "none"]
       /\ Goto(r, "hooks")
       /\ UNCHANGED answer
    \/ /\ kind[r] = "run" /\ mode[r] = "onError"
       /\ Goto(r, "handled")
       /\ UNCHANGED <<errCommand, answer>>

Collect(r, key) ==
    LET Add(keys) == IF key \in Running(r).stores THEN keys \cup {key} ELSE keys IN
    /\ toStore' = IF mode[r] = "main" THEN [toStore EXCEPT ![r] = Add(@)] ELSE toStore
    /\ toStoreOnError' = IF mode[r] = "main" THEN toStoreOnError
                         ELSE [toStoreOnError EXCEPT ![r] = Add(@)]

\* A pre-execution hook fails before the arguments are kept.
PreHookFails(r) ==
    /\ pc[r] = "prepare"
    /\ conf.fallibleHooks
    /\ ExecEnds(r, TRUE)
    /\ UNCHANGED <<conf, kind, mode, attempt, retryMap, files, payload, time, counts>>

\* The arguments are kept; the trigger, if any, lets the execution go on.
Triggered(r) ==
    /\ pc[r] = "prepare"
    /\ Collect(r, "args")
    /\ Goto(r, "files")
    /\ UNCHANGED <<core, mode, errCommand, files, stored, time, counts>>

\* The trigger is false ("not triggered", a success), or cannot be evaluated.
\* Error handlers have no trigger.
TriggerEnds(r, err) ==
    /\ pc[r] = "prepare"
    /\ conf.trigger /\ mode[r] = "main"
    /\ Collect(r, "args")
    /\ ExecEnds(r, err)
    /\ UNCHANGED <<conf, kind, mode, attempt, retryMap, files, stored, time, counts>>

\* processFiles writes the files in any order.
WriteFile(r, f) ==
    /\ pc[r] = "files"
    /\ f \in Running(r).files \ written[r]
    /\ written' = [written EXCEPT ![r] = @ \cup {f}]
    /\ disk' = disk \cup {PathOf(r, f)}
    /\ UNCHANGED <<core, pc, mode, errCommand, tracked, filesFailed, notRemoved, payload, time,
                   counts>>

\* A template or a write fails: the files written so far stay on disk, and
\* since the listener's maps are assigned at the end, nobody knows of them.
FilesFail(r) ==
    /\ pc[r] = "files"
    /\ written[r] # Running(r).files
    /\ filesFailed' = [filesFailed EXCEPT ![r] = @ \cup {ExecOf(r)}]
    /\ ExecEnds(r, TRUE)
    /\ UNCHANGED <<conf, kind, mode, attempt, retryMap, written, tracked, disk, notRemoved,
                   payload, time, counts>>

\* Of the files whose cleaned names are equal the maps keep the last one.
KeptByCleanName(kept, all) ==
    /\ \A f \in all : \E g \in kept : g.clean = f.clean
    /\ \A f, g \in kept : f.clean = g.clean => f = g

\* Variant: absolute paths are cleaned up as well.
FilesDone_CleansAll(r) ==
    /\ pc[r] = "files"
    /\ written[r] = Running(r).files
    /\ tracked' = IF kind[r] = "preview" THEN tracked
                  ELSE [tracked EXCEPT ![r] = @ \cup {PathOf(r, f) : f \in written[r]}]
    /\ Goto(r, "render")
    /\ UNCHANGED <<core, mode, errCommand, written, disk, filesFailed, notRemoved, payload, time,
                   counts>>

\* Variant: the files of an earlier ExecCommand are forgotten.
FilesDone_Forgets(r) ==
    /\ pc[r] = "files"
    /\ written[r] = Running(r).files
    /\ tracked' = IF kind[r] = "preview" THEN tracked
                  ELSE [tracked EXCEPT ![r] =
                            {PathOf(r, f) : f \in {g \in written[r] : ~g.absolute}}]
    /\ Goto(r, "render")
    /\ UNCHANGED <<core, mode, errCommand, written, disk, filesFailed, notRemoved, payload, time,
                   counts>>

\* All files are written: the cleanup, deferred in HandleRequest, will remove
\* the relative ones of those the maps kept. A preview defers no cleanup.
FilesDone(r) ==
    /\ pc[r] = "files"
    /\ written[r] = Running(r).files
    /\ \E kept \in SUBSET written[r] :
        /\ KeptByCleanName(kept, written[r])
        /\ tracked' = IF kind[r] = "preview" THEN tracked
                      ELSE [tracked EXCEPT ![r] =
                                @ \cup {PathOf(r, f) : f \in {g \in kept : ~g.absolute}}]
    /\ Goto(r, "render")
    /\ UNCHANGED <<core, mode, errCommand, written, disk, filesFailed, notRemoved, payload, time,
                   counts>>

\* A template of the command, of its arguments or of its environment fails.
RenderFails(r) ==
    /\ pc[r] = "render"
    /\ ExecEnds(r, TRUE)
    /\ UNCHANGED <<conf, kind, mode, attempt, retryMap, files, payload, time, counts>>

\* The templates are rendered; a preview is answered with them.
Render(r) ==
    /\ pc[r] = "render"
    /\ IF kind[r] = "preview"
       THEN ExecEnds(r, FALSE) /\ UNCHANGED <<toStore, toStoreOnError>>
       ELSE /\ Collect(r, "command")
            /\ Goto(r, "command")
            /\ UNCHANGED <<errCommand, answer>>
    /\ UNCHANGED <<conf, kind, mode, attempt, retryMap, files, stored, time, counts>>

\* The command runs for d and exits with or without an error.
RunCommand(r, ok, d) ==
    /\ pc[r] = "command"
    /\ Collect(r, "output")
    /\ ExecEnds(r, ~ok)
    /\ IF mode[r] = "main"
       THEN /\ commands' = [commands EXCEPT ![r] = @ + 1]
            /\ elapsed' = [elapsed EXCEPT ![r] = @ + d]
            /\ spent' = [spent EXCEPT ![r] = @ + d]
       ELSE UNCHANGED <<commands, elapsed, spent>>
    /\ UNCHANGED <<conf, kind, mode, attempt, retryMap, files, stored, handlerRuns>>
-----------------------------------------------------------------------------
(* HandleRequest after ExecCommand: hooks and retries.                     *)

PostHooks(r) ==
    /\ pc[r] = "hooks"
    /\ Goto(r, "retry")
    /\ UNCHANGED <<core, mode, errCommand, files, payload, time, counts>>

\* Variant: a hook's failure is answered like the command's.
PostHookFails_LikeCommand(r) ==
    /\ pc[r] = "hooks"
    /\ conf.fallibleHooks
    /\ answer' = [answer EXCEPT ![r] = "error"]
    /\ Goto(r, "unwind")
    /\ UNCHANGED <<conf, kind, mode, attempt, retryMap, errCommand, files, payload, time, counts>>

\* A post-execution hook fails: it has the last word, there is no retry and no
\* error handler.
PostHookFails(r) ==
    /\ pc[r] = "hooks"
    /\ conf.fallibleHooks
    /\ answer' = [answer EXCEPT ![r] = "hookFailed"]
    /\ Goto(r, "unwind")
    /\ UNCHANGED <<conf, kind, mode, attempt, retryMap, errCommand, files, payload, time, counts>>

RetryPlugins == DOMAIN conf.retries
DefaultMaxRetries == 3

\* The most retries plugin i allows: its limit or, if it has no limit at all,
\* the default one.
MaxRetries(i) ==
    LET limits == conf.retries[i] IN
    IF limits.maxRetries = None /\ limits.maxElapsed = None THEN DefaultMaxRetries
                                                           ELSE limits.maxRetries

\* Variant: the clone of a retry plugin has a new id, which retryMap does not know.
CountedUpTo_NewId(r, i) == [j \in RetryPlugins |-> IF j <= i THEN 1 ELSE 0]

\* The RetryCounts after the plugins up to i have been asked: every HandleRequest
\* of the chain counts one in the retryMap it was given.
CountedUpTo(r, i) == [j \in RetryPlugins |-> retryMap[r][j] + IF j <= i THEN 1 ELSE 0]

\* Plugin i is within its limits, by the count it has just been given.
WithinLimits(r, i) ==
    /\ conf.retries[i].maxElapsed # None => elapsed[r] <= conf.retries[i].maxElapsed
    /\ MaxRetries(i) # None => CountedUpTo(r, i)[i] <= MaxRetries(i)

\* The plugins before i are within their limits and see no reason to retry.
Reached(r, i) ==
    /\ pc[r] = "retry"
    /\ \A j \in RetryPlugins : j < i => WithinLimits(r, j)
    /\ retryMap' = [retryMap EXCEPT ![r] = CountedUpTo(r, i)]

\* Plugin i is over a limit. That is an error, whatever its condition would say.
LimitReached(r, i) ==
    /\ Reached(r, i)
    /\ ~WithinLimits(r, i)
    /\ errCommand' = [errCommand EXCEPT ![r] = "limit"]
    /\ Goto(r, "settle")
    /\ UNCHANGED <<conf, kind, mode, attempt, answer, files, payload, time, counts>>

\* The condition or the delay of plugin i cannot be evaluated.
RetryTemplateFails(r, i) ==
    /\ Reached(r, i)
    /\ WithinLimits(r, i)
    /\ errCommand' = [errCommand EXCEPT ![r] = "template"]
    /\ Goto(r, "settle")
    /\ UNCHANGED <<conf, kind, mode, attempt, answer, files, payload, time, counts>>

\* Stores(who, enabled, keys): the payloads one attempt to store may write: none
\* if there is nothing to store or the storage fails, which is only logged; an empty
\* one if the payload cannot be marshalled, which is only logged as well.
Stores(who, enabled, keys) ==
    {<<>>} \cup IF enabled /\ keys # {} THEN {<<[by |-> who, keys |-> k]>> : k \in {keys, {}}}
                                       ELSE {}

\* Variant: the payload is stored before the retry is decided.
RetryWanted_Stores(r, i) ==
    /\ Reached(r, i)
    /\ WithinLimits(r, i)
    /\ attempt[r] < MaxAttempts
    /\ \E x \in Stores("main", conf.main.stores # {}, toStore[r]) :
            stored' = [stored EXCEPT ![r] = @ \o x]
    /\ Goto(r, "sleep")
    /\ UNCHANGED <<conf, kind, mode, attempt, answer, errCommand, files, toStore,
                   toStoreOnError, time, counts>>

\* The condition of plugin i holds, with the arguments and the result of this
\* attempt: the later plugins are not asked.
RetryWanted(r, i) ==
    /\ Reached(r, i)
    /\ WithinLimits(r, i)
    /\ attempt[r] < MaxAttempts
    /\ Goto(r, "sleep")
    /\ UNCHANGED <<conf, kind, mode, attempt, answer, errCommand, files, payload, time, counts>>

\* No plugin wants a retry.
NoRetry(r) ==
    /\ Reached(r, Len(conf.retries) + 1)
    /\ Goto(r, "settle")
    /\ UNCHANGED <<conf, kind, mode, attempt, answer, errCommand, files, payload, time, counts>>

\* Variant: an attempt cleans up before the retry, and again when it returns.
Sleep_CleansUp(r) ==
    /\ pc[r] = "sleep"
    /\ spent' = [spent EXCEPT ![r] = @ + 1]
    /\ disk' = disk \ tracked[r]
    /\ Goto(r, "clone")
    /\ UNCHANGED <<core, mode, errCommand, written, tracked, filesFailed, notRemoved, payload,
                   elapsed, counts>>

\* After the delay HandleRequest calls itself with the same retryMap. The
\* deferred cleanup of this attempt waits for that call to return.
Sleep(r) ==
    /\ pc[r] = "sleep"
    /\ spent' = [spent EXCEPT ![r] = @ + 1]
    /\ Goto(r, "clone")
    /\ UNCHANGED <<core, mode, errCommand, files, payload, elapsed, counts>>
-----------------------------------------------------------------------------
(* HandleRequest once there is no retry: the error path.                   *)

FailWithoutHandler(r) ==
    /\ pc[r] = "settle"
    /\ errCommand[r] # "none" /\ conf.onError = None
    /\ answer' = [answer EXCEPT ![r] = "error"]
    /\ Goto(r, "unwind")
    /\ UNCHANGED <<conf, kind, mode, attempt, retryMap, errCommand, files, payload, time, counts>>

\* The error handler's ExecCommand begins; its payload has the arguments already.
BeginErrorHandler(r) ==
    /\ pc[r] = "settle"
    /\ errCommand[r] # "none" /\ conf.onError # None
    /\ mode' = [mode EXCEPT ![r] = "onError"]
    /\ written' = [written EXCEPT ![r] = {}]
    /\ toStoreOnError' = [toStoreOnError EXCEPT ![r] = conf.onError.stores \cap {"args"}]
    /\ handlerRuns' = [handlerRuns EXCEPT ![r] = @ + 1]
    /\ Goto(r, "prepare")
    /\ UNCHANGED <<core, errCommand, tracked, disk, filesFailed, notRemoved, toStore,
                   stored, time, commands>>

\* The error handler has ended, well or badly: its payload and then the one of
\* the listener, which carries it, are stored, and the request fails.
EndErrorHandler(r) ==
    /\ pc[r] = "handled"
    /\ toStore' = [toStore EXCEPT ![r] = @ \cup {"errorHandler"}]
    /\ \E x \in Stores("onError", conf.onError.stores # {}, toStoreOnError[r]),
          y \in Stores("main", conf.main.stores # {}, toStore'[r]) :
            stored' = [stored EXCEPT ![r] = @ \o x \o y]
    /\ answer' = [answer EXCEPT ![r] = "error"]
    /\ Goto(r, "unwind")
    /\ UNCHANGED <<conf, kind, mode, attempt, retryMap, errCommand, files, toStoreOnError,
                   time, counts>>

(* HandleRequest once there is no retry: success.                          *)

StoreSuccess(r) ==
    /\ pc[r] = "settle"
    /\ errCommand[r] = "none"
    /\ \E x \in Stores("main", conf.main.stores # {}, toStore[r]) :
            stored' = [stored EXCEPT ![r] = @ \o x]
    /\ Goto(r, "output")
    /\ UNCHANGED <<core, mode, errCommand, files, toStore, toStoreOnError, time, counts>>

\* Variant: an output plugin that fails leaves the response unwritten.
OutputPlugin_Silent(r, ok) ==
    /\ pc[r] = "output"
    /\ conf.outputPlugin
    /\ answer' = [answer EXCEPT ![r] = IF ok THEN "ok" ELSE "none"]
    /\ Goto(r, "unwind")
    /\ UNCHANGED <<conf, kind, mode, attempt, retryMap, errCommand, files, payload, time, counts>>

\* Variant: its failure is taken for one of the command.
OutputPlugin_AsCommand(r, ok) ==
    /\ pc[r] = "output"
    /\ conf.outputPlugin
    /\ IF ok
       THEN /\ answer' = [answer EXCEPT ![r] = "ok"]
            /\ Goto(r, "unwind")
            /\ UNCHANGED errCommand
       ELSE /\ errCommand' = [errCommand EXCEPT ![r] = "template"]
            /\ Goto(r, "settle")
            /\ UNCHANGED answer
    /\ UNCHANGED <<conf, kind, mode, attempt, retryMap, files, payload, time, counts>>

\* An output plugin writes the response, or fails to.
OutputPlugin(r, ok) ==
    /\ pc[r] = "output"
    /\ conf.outputPlugin
    /\ answer' = [answer EXCEPT ![r] = IF ok THEN "ok" ELSE "outputFailed"]
    /\ Goto(r, "unwind")
    /\ UNCHANGED <<conf, kind, mode, attempt, retryMap, errCommand, files, payload, time, counts>>

DefaultOutput(r) ==
    /\ pc[r] = "output"
    /\ ~conf.outputPlugin
    /\ answer' = [answer EXCEPT ![r] = "ok"]
    /\ Goto(r, "unwind")
    /\ UNCHANGED <<conf, kind, mode, attempt, retryMap, errCommand, files, payload, time, counts>>

\* Variant: the cleanup removes every directory of temporary files.
Unwind_RemovesAll(r) ==
    /\ pc[r] = "unwind"
    /\ disk' = {p \in disk : p.file.absolute}
    /\ tracked' = [tracked EXCEPT ![r] = {}]
    /\ Goto(r, "done")
    /\ UNCHANGED <<core, mode, errCommand, written, filesFailed, notRemoved, payload, time,
                   counts>>

\* The calls return: the cleanups deferred by the error handler and by every
\* attempt remove what they know of. A removal that fails is only logged, and the
\* cleanup goes on with the next file.
Unwind(r) ==
    /\ pc[r] = "unwind"
    /\ \E failing \in SUBSET tracked[r] :
        /\ disk' = disk \ (tracked[r] \ failing)
        /\ notRemoved' = notRemoved \cup failing
    /\ tracked' = [tracked EXCEPT ![r] = {}]
    /\ Goto(r, "done")
    /\ UNCHANGED <<core, mode, errCommand, written, filesFailed, payload, time, counts>>
-----------------------------------------------------------------------------
Exec(r) ==
    \/ PreHookFails(r)
    \/ Triggered(r)
    \/ \E err \in BOOLEAN : TriggerEnds(r, err)
    \/ \E f \in Files : WriteFile(r, f)
    \/ FilesFail(r)
    \/ FilesDone(r)
    \/ RenderFails(r)
    \/ Render(r)
    \/ \E ok \in BOOLEAN, d \in Durations : RunCommand(r, ok, d)

Retry(r) ==
    \/ \E i \in RetryPlugins :
        LimitReached(r, i) \/ RetryTemplateFails(r, i) \/ RetryWanted(r, i)
    \/ NoRetry(r)
    \/ Sleep(r)

Settle(r) ==
    \/ FailWithoutHandler(r)
    \/ BeginErrorHandler(r)
    \/ EndErrorHandler(r)
    \/ StoreSuccess(r)
    \/ \E ok \in BOOLEAN : OutputPlugin(r, ok)
    \/ DefaultOutput(r)
    \/ Unwind(r)

Handle(r) ==
    Clone(r) \/ Exec(r) \/ PostHooks(r) \/ PostHookFails(r) \/ Retry(r) \/ Settle(r)

Next ==
    \E r \in Requests :
        \/ Refuse(r)
        \/ \E k \in {"run", "preview"} : Accept(r, k)
        \/ Handle(r)

Spec == Init /\ [][Next]_vars

\* Each accepted request has a goroutine; commands end and delays pass.
FairSpec == Spec /\ \A r \in Requests : WF_vars(Handle(r))
-----------------------------------------------------------------------------
(* Properties.                                                             *)

Places == {"new", "clone", "prepare", "files", "render", "command", "hooks", "retry",
           "sleep", "settle", "handled", "output", "unwind", "done"}
Keys == {"args", "command", "output", "errorHandler"}

TypeOK ==
    /\ conf \in Listeners
    /\ kind \in [Requests -> {"none", "run", "preview"}]
    /\ pc \in [Requests -> Places]
    /\ mode \in [Requests -> {"main", "onError"}]
    /\ attempt \in [Requests -> 0..MaxAttempts]
    /\ retryMap \in [Requests -> [RetryPlugins -> 0..MaxAttempts]]
    /\ written \in [Requests -> SUBSET Files]
    /\ tracked \in [Requests -> SUBSET disk]
    /\ toStore \in [Requests -> SUBSET Keys]
    /\ toStoreOnError \in [Requests -> SUBSET Keys]
    /\ errCommand \in [Requests -> {"none", "exec", "limit", "template"}]
    /\ elapsed \in [Requests -> Nat]
    /\ spent \in [Requests -> Nat]
    /\ commands \in [Requests -> 0..MaxAttempts]
    /\ handlerRuns \in [Requests -> Nat]
    /\ filesFailed \in [Requests -> SUBSET [attempt : 0..MaxAttempts, mode : {"main", "onError"}]]
    /\ answer \in [Requests -> {"none", "refused", "ok", "error", "hookFailed", "outputFailed"}]

\* Plugin i has a limit that the attempts of r, or the last one's duration, exceed.
LimitUsedUp(r, i) ==
    \/ MaxRetries(i) # None /\ attempt[r] > MaxRetries(i)
    \/ conf.retries[i].maxElapsed # None /\ elapsed[r] > conf.retries[i].maxElapsed

\* The first retry plugin is asked at every attempt, so its limit bounds them all:
\* the recursion of HandleRequest, its open cleanups and its goroutine. None of the
\* others goes beyond its own limit, by the count that attempts hand on to each
\* other, and no request fails by a limit before that limit is used up.
AttemptsAreBounded ==
    \A r \in Requests :
        /\ (1 \in RetryPlugins /\ MaxRetries(1) # None) => attempt[r] <= MaxRetries(1) + 1
        /\ \A i \in RetryPlugins :
            MaxRetries(i) # None => retryMap[r][i] <= MaxRetries(i) + 1
        /\ errCommand[r] = "limit" => \E i \in RetryPlugins : LimitUsedUp(r, i)

\* While a command uses the files of its execution, they exist: no attempt, error
\* handler or other request of the same listener removes them. The files of the
\* failed command are there for the error handler and the output plugins too.
FilesOutliveTheirUse ==
    \A r \in Requests :
        /\ pc[r] \in {"render", "command"} =>
            \A f \in Running(r).files : PathOf(r, f) \in disk
        /\ tracked[r] \subseteq disk

\* The temporary files that the ExecCommands of request r have left on the disk.
TemporaryFilesOf(r) == {p \in disk : ~p.file.absolute /\ p.request = r}

CommandFiles(exec) == (IF exec.mode = "main" THEN conf.main ELSE conf.onError).files

\* The maps of the ExecCommand that wrote p kept another file in its place, one
\* with the same cleaned name, which is persistent or was to be removed.
Displaced(r, p) ==
    \E f \in CommandFiles(p.exec) \ {p.file} :
        /\ f.clean = p.file.clean
        /\ f.absolute \/ PathIn(r, p.exec, f) \notin disk \ notRemoved

\* A temporary file outlives the execution it was made for only if its removal has
\* failed, if one of the files of the same ExecCommand could not be written, or if
\* the name of another one hid it: no number of attempts, failing commands or other
\* requests adds one, and the cleanups of an attempt do not depend on the others.
LeftFilesAreExplained ==
    \A r \in Requests :
        pc[r] = "done" /\ kind[r] = "run" =>
            \A p \in TemporaryFilesOf(r) :
                p \in notRemoved \/ p.exec \in filesFailed[r] \/ Displaced(r, p)

\* No execution removes a persistent file.
PersistentFilesStay ==
    [][\A p \in disk : p.file.absolute => p \in disk']_vars

\* The error handler runs for the final failure of a request and for it only: not
\* once per failed attempt, not for one that a retry made good.
ErrorHandledOnce ==
    \A r \in Requests :
        /\ handlerRuns[r] <= 1
        /\ (pc[r] = "done" /\ kind[r] = "run" /\ conf.onError # None)
            => (handlerRuns[r] = 1 <=> answer[r] = "error")

StoredBy(r, who) == {i \in DOMAIN stored[r] : stored[r][i].by = who}

\* The listener stores one payload at most, that of the attempt that settled the
\* request, and the error handler one at most, which the listener's then contains,
\* unless that is one that could not be marshalled.
StoredOnce ==
    \A r \in Requests :
        /\ \A who \in {"main", "onError"} : \A i, j \in StoredBy(r, who) : i = j
        /\ \A i \in StoredBy(r, "onError") : handlerRuns[r] = 1
        /\ \A i \in StoredBy(r, "main") :
            stored[r][i].keys # {} =>
                (("errorHandler" \in stored[r][i].keys) <=> (handlerRuns[r] = 1))
        /\ \A i \in StoredBy(r, "main") :
            "output" \in stored[r][i].keys => commands[r] > 0

\* How far the requests are, for those who wait for them.
Status ==
    [r \in Requests |->
        IF answer[r] # "none" THEN "answered"
        ELSE IF kind[r] # "run" \/ attempt[r] = 0 THEN "new"
        ELSE IF pc[r] = "output" THEN "settled"
        ELSE IF mode[r] = "onError" THEN "handling"
        ELSE "running"]

\* How often a request may be attempted: the first retry plugin is asked every time.
AttemptLimit ==
    IF RetryPlugins = {} THEN 1
    ELSE IF MaxRetries(1) = None THEN None
    ELSE MaxRetries(1) + 1

\* A preview executes nothing.
Attempts == [r \in Requests |-> IF kind[r] = "run" THEN attempt[r] ELSE 0]

HasErrorHandler == conf.onError # None

Storers == [r \in Requests |-> [i \in DOMAIN stored[r] |-> stored[r][i].by]]

Promise ==
    INSTANCE Executions WITH
        limit <- AttemptLimit,
        handler <- HasErrorHandler,
        status <- Status,
        attempts <- Attempts,
        payloads <- Storers

\* The recursion of HandleRequest, its error path and its returns keep the promise of
\* Executions: attempts within the limit, then the error handler or the success, then
\* one answer, and nothing after it.
ExecutesAsPromised == Promise!Spec

\* A request that is accepted is answered in the end, if its first retry plugin
\* limits the number of retries or there is none.
EveryRequestIsAnswered ==
    \A r \in Requests :
        (/\ pc[r] = "clone"
         /\ 1 \in RetryPlugins => MaxRetries(1) # None /\ MaxRetries(1) < MaxAttempts)
            ~> pc[r] = "done" /\ answer[r] # "none"
-----------------------------------------------------------------------------
(* What the documentation says and the code does not do.                   *)

\* plugin_retry.go: maxElapsed "limits the maximum amount of time spent retrying".
RetriesEndAfterMaxElapsed ==
    \A r \in Requests : \A i \in RetryPlugins :
        (pc[r] = "sleep" /\ conf.retries[i].maxElapsed # None)
            => spent[r] <= conf.retries[i].maxElapsed

\* docs/0040-local-files.md: temporary files "will be deleted after the listener
\* execution", here but for those whose removal fails.
TemporaryFilesAreDeleted ==
    \A r \in Requests :
        pc[r] = "done" /\ kind[r] = "run" => TemporaryFilesOf(r) \subseteq notRemoved
=============================================================================
