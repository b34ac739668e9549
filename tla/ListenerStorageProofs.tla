----------------------- MODULE ListenerStorageProofs ------------------------
(***************************************************************************)
(* What the executions of Listener leave behind, for every set of          *)
(* requests, every configuration and every bound: one payload at most from *)
(* the listener and one from its error handler, whatever was retried, no   *)
(* temporary file without a reason, and the one answer that Executions     *)
(* promises.                                                               *)
(***************************************************************************)
EXTENDS ListenerProofs

-----------------------------------------------------------------------------
(* The inductive invariants.                                               *)

Payload == [by : {"main", "onError"}, keys : SUBSET Keys]

\* A payload the listener may store: it carries what the error handler did, if that
\* has run, and an output only of a command that has run.
ListenerPayload(r, p) ==
    /\ p.by = "main"
    /\ p.keys # {} => ("errorHandler" \in p.keys <=> handlerRuns[r] = 1)
    /\ "output" \in p.keys => commands[r] > 0

HandlerPayload(r, p) == p.by = "onError" /\ handlerRuns[r] = 1

\* What is stored once a request is settled.
StoredWell(r) ==
    \/ stored[r] = <<>>
    \/ /\ Len(stored[r]) = 1
       /\ ListenerPayload(r, stored[r][1]) \/ HandlerPayload(r, stored[r][1])
    \/ /\ Len(stored[r]) = 2
       /\ HandlerPayload(r, stored[r][1])
       /\ ListenerPayload(r, stored[r][2])

\* Nothing is stored before the request is settled, and what has been collected by
\* then is what the attempt did.
StorageOf(r) ==
    /\ pc[r] \notin {"output", "unwind", "done"} => stored[r] = <<>>
    /\ pc[r] \notin {"unwind", "done"} => "errorHandler" \notin toStore[r]
    /\ "output" \in toStore[r] => commands[r] > 0
    /\ StoredWell(r)

StorageInv ==
    /\ stored \in [Requests -> Seq(Payload)]
    /\ \A r \in Requests : StorageOf(r)

\* Another file took the place of p in the maps: the cleanups of r will remove that
\* one, or have tried to, or it is persistent.
TakenBy(r, p, f) ==
    /\ f \in CommandFiles(p.exec) \ {p.file}
    /\ f.clean = p.file.clean
    /\ \/ f.absolute
       \/ IF pc[r] = "done" THEN PathIn(r, p.exec, f) \notin disk \ notRemoved
                          ELSE PathIn(r, p.exec, f) \in tracked[r]

\* The temporary files of a request are known to its cleanups, or are those that the
\* running execution is writing, or there is a reason why nobody removes them; a
\* finished request has no cleanup left.
Explained(r, p) ==
    \/ p \in tracked[r]
    \/ p \in notRemoved
    \/ p.exec \in filesFailed[r]
    \/ pc[r] = "files" /\ \E f \in written[r] : p = PathOf(r, f)
    \/ \E f : TakenBy(r, p, f)

TemporaryOf(r) ==
    /\ pc[r] = "new" => kind[r] = "none"
    /\ pc[r] \notin {"new", "done"} => kind[r] # "none"
    /\ kind[r] = "none" => TemporaryFilesOf(r) = {}
    /\ pc[r] = "done" /\ kind[r] = "run" => tracked[r] = {}
    /\ kind[r] = "run" => \A p \in TemporaryFilesOf(r) : Explained(r, p)

TemporaryInv == \A r \in Requests : TemporaryOf(r)
-----------------------------------------------------------------------------
(* The payloads.                                                           *)

\* What a request has stored and collected concerns nobody else.
OthersStorageKept(r) ==
    \A q \in Requests \ {r} :
        /\ pc'[q] = pc[q]
        /\ stored'[q] = stored[q]
        /\ toStore'[q] = toStore[q]
        /\ commands'[q] = commands[q]
        /\ handlerRuns'[q] = handlerRuns[q]

LEMMA StorageByRequest ==
    ASSUME StorageInv, NEW r \in Requests, OthersStorageKept(r),
           stored' \in [Requests -> Seq(Payload)], StorageOf(r)'
    PROVE  StorageInv'
<1> SUFFICES ASSUME NEW q \in Requests \ {r} PROVE StorageOf(q)'
  BY DEF StorageInv
<1>1. StorageOf(q)
  BY DEF StorageInv
<1> QED
  BY <1>1 DEF OthersStorageKept, StorageOf, StoredWell, ListenerPayload,
     HandlerPayload

\* A step that stores and collects nothing.
LEMMA QuietStorage ==
    ASSUME StorageInv, NEW r \in Requests,
           UNCHANGED <<stored, toStore, commands, handlerRuns>>,
           \A q \in Requests \ {r} : pc'[q] = pc[q],
           pc[r] \in {"output", "unwind", "done"} => pc'[r] \in {"unwind", "done"}
    PROVE  StorageInv'
<1>1. StorageOf(r)
  BY DEF StorageInv
<1>2. StorageOf(r)'
  BY <1>1 DEF StorageOf, StoredWell, ListenerPayload, HandlerPayload
<1> QED BY <1>2, StorageByRequest DEF OthersStorageKept, StorageInv

\* A step that collects.
LEMMA CollectStorage ==
    ASSUME TypeOK, StorageInv, NEW r \in Requests, NEW key \in {"args", "command", "output"},
           Collect(r, key), pc[r] \notin {"output", "unwind", "done"},
           \/ key # "output" /\ UNCHANGED commands
           \/ mode[r] = "main" /\ commands' = [commands EXCEPT ![r] = @ + 1]
           \/ mode[r] # "main" /\ UNCHANGED commands,
           UNCHANGED <<stored, handlerRuns>>,
           \A q \in Requests \ {r} : pc'[q] = pc[q]
    PROVE  StorageInv'
<1>1. /\ stored[r] = <<>>
      /\ "errorHandler" \notin toStore[r]
      /\ "output" \in toStore[r] => commands[r] > 0
  BY DEF StorageInv, StorageOf
<1>2. /\ toStore'[r] \subseteq toStore[r] \cup {key}
      /\ mode[r] # "main" => toStore' = toStore
      /\ \A q \in Requests \ {r} : toStore'[q] = toStore[q]
  BY DEF Collect
<1>3. commands[r] \in Nat /\ \A q \in Requests \ {r} : commands'[q] = commands[q]
  BY DEF TypeOK
<1>4. \/ commands'[r] = commands[r] /\ (key # "output" \/ mode[r] # "main")
      \/ commands'[r] = commands[r] + 1
  BY DEF TypeOK
<1>5. StorageOf(r)'
  BY <1>1, <1>2, <1>3, <1>4 DEF StorageOf, StoredWell
<1> QED BY <1>2, <1>3, <1>5, StorageByRequest DEF OthersStorageKept, StorageInv

\* Storing appends a payload or nothing.
LEMMA OnePayload ==
    ASSUME NEW by \in {"main", "onError"}, NEW keys \in SUBSET Keys,
           NEW enabled, NEW x \in Stores(by, enabled, keys)
    PROVE  /\ x = <<>> \/ \E k \in {keys, {}} : x = <<[by |-> by, keys |-> k]>>
           /\ x \in Seq(Payload)
<1>1. x = <<>> \/ \E k \in {keys, {}} : x = <<[by |-> by, keys |-> k]>>
  BY DEF Stores
<1>2. \A k \in {keys, {}} : [by |-> by, keys |-> k] \in Payload
  BY DEF Payload
<1>3. \A k \in {keys, {}} : <<[by |-> by, keys |-> k]>> \in Seq(Payload)
  BY <1>2
<1>4. <<>> \in Seq(Payload)
  OBVIOUS
<1> QED BY <1>1, <1>3, <1>4, Zenon

LEMMA OnePayloadBy ==
    ASSUME NEW by \in {"main", "onError"}, NEW keys \in SUBSET Keys,
           NEW enabled, NEW x \in Stores(by, enabled, keys)
    PROVE  \E p \in Payload : p.by = by /\ (x = <<>> \/ x = <<p>>)
<1>1. \A k \in {keys, {}} : [by |-> by, keys |-> k] \in Payload
  BY DEF Payload
<1>2. CASE x = <<>>
  BY <1>1, <1>2
<1>3. CASE x # <<>>
  <2>1. PICK k \in {keys, {}} : x = <<[by |-> by, keys |-> k]>>
    BY <1>3 DEF Stores
  <2> QED BY <1>1, <2>1
<1> QED BY <1>2, <1>3

LEMMA ExecEndsMoves ==
    ASSUME TypeOK, NEW r \in Requests, NEW err \in BOOLEAN, ExecEnds(r, err)
    PROVE  \A q \in Requests \ {r} : pc'[q] = pc[q]
BY DEF TypeOK, ExecEnds, Goto

LEMMA StoreSuccessStorage ==
    ASSUME IInv, StorageInv, NEW r \in Requests, StoreSuccess(r)
    PROVE  StorageInv'
<1>1. stored[r] = <<>> /\ StorageOf(r) /\ pc[r] = "settle"
  BY DEF StorageInv, StorageOf, StoreSuccess
<1>2. handlerRuns[r] = 0
  BY <1>1 DEF IInv, HandlerInv, Executing
<1>3. toStore[r] \in SUBSET Keys
  BY DEF IInv, TypeOK
<1>4. PICK x \in Stores("main", conf.main.stores # {}, toStore[r]) :
            stored' = [stored EXCEPT ![r] = @ \o x]
  BY DEF StoreSuccess
<1>5. /\ x = <<>> \/ \E k \in {toStore[r], {}} : x = <<[by |-> "main", keys |-> k]>>
      /\ x \in Seq(Payload)
  BY <1>3, OnePayload
<1>6. stored'[r] = x /\ stored' \in [Requests -> Seq(Payload)]
  <2>1. stored[r] \o x = x
    BY <1>1
  <2> QED BY <1>4, <1>5, <2>1 DEF StorageInv
<1>7. pc'[r] = "output" /\ UNCHANGED <<toStore, handlerRuns, commands>>
  BY DEF StoreSuccess, Goto, counts, IInv, TypeOK
<1>8. StoredWell(r)'
  BY <1>1, <1>2, <1>5, <1>6, <1>7 DEF StoredWell, ListenerPayload, StorageOf
<1>9. StorageOf(r)'
  BY <1>1, <1>7, <1>8 DEF StorageOf
<1>10. OthersStorageKept(r)
  BY <1>7 DEF OthersStorageKept, StoreSuccess, Goto
<1> QED BY <1>6, <1>9, <1>10, StorageByRequest

LEMMA EndErrorHandlerStorage ==
    ASSUME IInv, StorageInv, NEW r \in Requests, EndErrorHandler(r)
    PROVE  StorageInv'
<1>1. stored[r] = <<>> /\ StorageOf(r) /\ pc[r] = "handled"
  BY DEF StorageInv, StorageOf, EndErrorHandler
<1>2. handlerRuns[r] = 1
  BY <1>1 DEF IInv, HandlerInv
<1>3. /\ toStoreOnError[r] \in SUBSET Keys
      /\ toStore'[r] = toStore[r] \cup {"errorHandler"} /\ toStore'[r] \in SUBSET Keys
      /\ \A q \in Requests \ {r} : toStore'[q] = toStore[q]
  BY DEF IInv, TypeOK, EndErrorHandler, Keys
<1>4. PICK x \in Stores("onError", conf.onError.stores # {}, toStoreOnError[r]),
           y \in Stores("main", conf.main.stores # {}, toStore'[r]) :
            stored' = [stored EXCEPT ![r] = @ \o x \o y]
  BY DEF EndErrorHandler
<1>5. /\ x = <<>> \/ \E k \in {toStoreOnError[r], {}} : x = <<[by |-> "onError", keys |-> k]>>
      /\ y = <<>> \/ \E k \in {toStore'[r], {}} : y = <<[by |-> "main", keys |-> k]>>
      /\ x \in Seq(Payload) /\ y \in Seq(Payload)
  <2>1. x = <<>> \/ \E k \in {toStoreOnError[r], {}} : x = <<[by |-> "onError", keys |-> k]>>
    BY <1>3, OnePayload
  <2>2. y = <<>> \/ \E k \in {toStore'[r], {}} : y = <<[by |-> "main", keys |-> k]>>
    BY <1>3, OnePayload
  <2>3. x \in Seq(Payload)
    BY <1>3, OnePayload
  <2>4. y \in Seq(Payload)
    BY <1>3, OnePayload
  <2> QED BY <2>1, <2>2, <2>3, <2>4
<1>6. stored'[r] = x \o y /\ stored' \in [Requests -> Seq(Payload)]
  <2>1. stored[r] \o x = x
    BY <1>1
  <2>2. x \o y \in Seq(Payload)
    BY <1>5
  <2> QED BY <1>4, <2>1, <2>2 DEF StorageInv
<1>7. pc'[r] = "unwind" /\ UNCHANGED <<handlerRuns, commands>>
  BY DEF EndErrorHandler, Goto, counts, IInv, TypeOK
<1>8. StoredWell(r)'
  <2>1. ASSUME NEW p, NEW k \in {toStore'[r], {}}, p = [by |-> "main", keys |-> k]
        PROVE  ListenerPayload(r, p)'
    BY <2>1, <1>1, <1>2, <1>3, <1>7 DEF ListenerPayload, StorageOf
  <2>2. ASSUME NEW p, NEW k, p = [by |-> "onError", keys |-> k]
        PROVE  HandlerPayload(r, p)'
    BY <2>2, <1>2, <1>7 DEF HandlerPayload
  <2>3. CASE x = <<>> /\ y = <<>>
    BY <2>3, <1>6 DEF StoredWell
  <2>4. CASE x = <<>> /\ y # <<>>
    BY <2>1, <2>4, <1>5, <1>6 DEF StoredWell
  <2>5. CASE x # <<>> /\ y = <<>>
    BY <2>2, <2>5, <1>5, <1>6 DEF StoredWell
  <2>6. CASE x # <<>> /\ y # <<>>
    BY <2>1, <2>2, <1>5, <1>6 DEF StoredWell
  <2> QED BY <2>3, <2>4, <2>5, <2>6
<1>9. StorageOf(r)'
  BY <1>1, <1>3, <1>7, <1>8 DEF StorageOf
<1>10. OthersStorageKept(r)
  BY <1>7 DEF OthersStorageKept, EndErrorHandler, Goto
<1> QED BY <1>6, <1>9, <1>10, StorageByRequest

LEMMA StorageStep == IInv /\ StorageInv /\ [Next]_vars => StorageInv'
<1> SUFFICES ASSUME IInv, StorageInv, [Next]_vars PROVE StorageInv'
  OBVIOUS
<1> USE DEF Goto, IInv
<1>1. CASE UNCHANGED vars
  BY <1>1 DEF vars, StorageInv, StorageOf, StoredWell, ListenerPayload,
     HandlerPayload
<1>2. ASSUME NEW r \in Requests, Refuse(r) \/ \E k \in {"run", "preview"} : Accept(r, k)
      PROVE  StorageInv'
  BY <1>2, QuietStorage DEF TypeOK, Refuse, Accept, payload, counts
<1>3. ASSUME NEW r \in Requests, Clone(r) PROVE StorageInv'
  <2>1. stored[r] = <<>> /\ pc'[r] = "prepare" /\ toStore'[r] = {} /\ stored' = stored
    BY <1>3 DEF Clone, StorageInv, StorageOf, TypeOK
  <2>2. StorageOf(r)'
    BY <2>1 DEF StorageOf, StoredWell
  <2>3. OthersStorageKept(r)
    BY <1>3 DEF Clone, OthersStorageKept
  <2> QED BY <2>1, <2>2, <2>3, StorageByRequest DEF StorageInv
<1>4. ASSUME NEW r \in Requests, PostHooks(r) \/ PostHookFails(r) PROVE StorageInv'
  BY <1>4, QuietStorage DEF TypeOK, PostHooks, PostHookFails, payload, counts
<1>5. ASSUME NEW r \in Requests, Exec(r) PROVE StorageInv'
  <2>1. ASSUME PreHookFails(r) \/ FilesFail(r) \/ RenderFails(r) PROVE StorageInv'
    BY <2>1, QuietStorage, ExecEndsMoves DEF PreHookFails, FilesFail,
       RenderFails, payload, counts
  <2>2. ASSUME (\E f \in Files : WriteFile(r, f)) \/ FilesDone(r) PROVE StorageInv'
    BY <2>2, QuietStorage DEF TypeOK, WriteFile, FilesDone, payload, counts
  <2>3. ASSUME Triggered(r) PROVE StorageInv'
    BY <2>3, CollectStorage DEF Triggered, counts
  <2>4. ASSUME NEW err \in BOOLEAN, TriggerEnds(r, err) PROVE StorageInv'
    BY <2>4, CollectStorage, ExecEndsMoves DEF TriggerEnds, counts
  <2>5. ASSUME Render(r) PROVE StorageInv'
    <3>1. CASE kind[r] = "preview"
      BY <2>5, <3>1, QuietStorage, ExecEndsMoves DEF Render, counts
    <3>2. CASE kind[r] # "preview"
      BY <2>5, <3>2, CollectStorage DEF TypeOK, Render, counts
    <3> QED BY <3>1, <3>2
  <2>6. ASSUME NEW ok \in BOOLEAN, NEW d \in Durations, RunCommand(r, ok, d) PROVE StorageInv'
    BY <2>6, CollectStorage, ExecEndsMoves DEF RunCommand
  <2> QED BY <1>5, <2>1, <2>2, <2>3, <2>4, <2>5, <2>6 DEF Exec
<1>6. ASSUME NEW r \in Requests, Retry(r) PROVE StorageInv'
  <2> USE DEF TypeOK, payload, counts
  <2>1. CASE \E i \in RetryPlugins : LimitReached(r, i)
    BY <2>1, QuietStorage DEF LimitReached, Reached
  <2>2. CASE \E i \in RetryPlugins : RetryTemplateFails(r, i)
    BY <2>2, QuietStorage DEF RetryTemplateFails, Reached
  <2>3. CASE \E i \in RetryPlugins : RetryWanted(r, i)
    BY <2>3, QuietStorage DEF RetryWanted, Reached
  <2>4. CASE NoRetry(r)
    <3>1. /\ pc[r] = "retry" /\ UNCHANGED <<stored, toStore, commands, handlerRuns>>
          /\ \A q \in Requests \ {r} : pc'[q] = pc[q]
      BY <2>4 DEF NoRetry, Reached
    <3> QED BY <3>1, QuietStorage
  <2>5. CASE Sleep(r)
    BY <2>5, QuietStorage DEF Sleep
  <2> QED BY <1>6, <2>1, <2>2, <2>3, <2>4, <2>5 DEF Retry
<1>7. ASSUME NEW r \in Requests, Settle(r) PROVE StorageInv'
  <2>1. CASE BeginErrorHandler(r)
    <3>1. /\ stored[r] = <<>> /\ StorageOf(r) /\ pc'[r] = "prepare"
          /\ UNCHANGED <<stored, toStore, commands>>
      BY <2>1 DEF BeginErrorHandler, StorageInv, StorageOf, TypeOK
    <3>2. StorageOf(r)'
      BY <2>1, <3>1 DEF StorageOf, StoredWell, BeginErrorHandler
    <3>3. OthersStorageKept(r)
      BY <2>1 DEF BeginErrorHandler, OthersStorageKept
    <3> QED BY <3>1, <3>2, <3>3, StorageByRequest DEF StorageInv
  <2>2. CASE FailWithoutHandler(r) \/ (\E ok \in BOOLEAN : OutputPlugin(r, ok)) \/ DefaultOutput(r)
             \/ Unwind(r)
    BY <2>2, QuietStorage DEF TypeOK, FailWithoutHandler, OutputPlugin,
       DefaultOutput, Unwind, payload, counts
  <2> QED BY <1>7, <2>1, <2>2, StoreSuccessStorage, EndErrorHandlerStorage DEF
             Settle
<1> QED BY <1>1, <1>2, <1>3, <1>4, <1>5, <1>6, <1>7 DEF Next, Handle

\* The listener and its error handler store one payload each at most, and what they
\* store is what they did.
THEOREM PayloadsStoredOnce == Spec => []StoredOnce
<1>1. Init => StorageInv
  BY DEF Init, StorageInv, StorageOf, StoredWell
<1>2. IInv /\ StorageInv => StoredOnce
  <2> SUFFICES ASSUME StorageInv, NEW r \in Requests PROVE StoredOnce!(r)
    BY DEF StoredOnce
  <2>1. StoredWell(r) /\ stored[r] \in Seq(Payload)
    BY DEF StorageInv, StorageOf
  <2>2. CASE stored[r] = <<>>
    BY <2>2 DEF StoredBy
  <2>3. CASE /\ Len(stored[r]) = 1
             /\ ListenerPayload(r, stored[r][1]) \/ HandlerPayload(r, stored[r][1])
    BY <2>3 DEF StoredBy, ListenerPayload, HandlerPayload
  <2>4. CASE /\ Len(stored[r]) = 2
             /\ HandlerPayload(r, stored[r][1])
             /\ ListenerPayload(r, stored[r][2])
    BY <2>4 DEF StoredBy, ListenerPayload, HandlerPayload
  <2> QED BY <2>1, <2>2, <2>3, <2>4 DEF StoredWell
<1> QED BY <1>1, <1>2, StorageStep, Invariance, PTL DEF Spec
-----------------------------------------------------------------------------
(* The temporary files.                                                    *)

\* What the others do leaves the temporary files of a request as they are.
LEMMA OthersTemporaryKept ==
    ASSUME TypeOK, TemporaryInv, NEW r \in Requests, conf' = conf,
           \A q \in Requests \ {r} :
                /\ pc'[q] = pc[q] /\ kind'[q] = kind[q] /\ filesFailed'[q] = filesFailed[q]
                /\ tracked'[q] = tracked[q] /\ written'[q] = written[q]
                /\ attempt'[q] = attempt[q] /\ mode'[q] = mode[q],
           \A p \in disk' \ disk : p.file.absolute \/ p.request = r,
           notRemoved \subseteq notRemoved',
           TemporaryOf(r)'
    PROVE  TemporaryInv'
<1> SUFFICES ASSUME NEW q \in Requests \ {r} PROVE TemporaryOf(q)'
  BY DEF TemporaryInv
<1>1. TemporaryOf(q)
  BY DEF TemporaryInv
<1>2. TemporaryFilesOf(q)' \subseteq TemporaryFilesOf(q)
  BY DEF TemporaryFilesOf
<1>3. \A f : PathOf(q, f)' = PathOf(q, f)
  BY DEF PathOf, PathIn, ExecOf
<1>4. ASSUME NEW p, NEW f, TakenBy(q, p, f) PROVE TakenBy(q, p, f)'
  <2>1. CommandFiles(p.exec)' = CommandFiles(p.exec)
    BY DEF CommandFiles
  <2>2. ASSUME ~f.absolute PROVE PathIn(q, p.exec, f) \notin disk' \ disk
    BY <2>2 DEF PathIn
  <2>3. PathIn(q, p.exec, f)' = PathIn(q, p.exec, f)
    BY DEF PathIn
  <2> QED BY <1>4, <2>1, <2>2, <2>3 DEF TakenBy
<1>5. ASSUME NEW p, Explained(q, p) PROVE Explained(q, p)'
  BY <1>3, <1>4, <1>5 DEF Explained
<1> QED BY <1>1, <1>2, <1>5 DEF TemporaryOf

\* Nothing changes for a file of r that is explained, when r does not finish.
LEMMA StillTaken ==
    ASSUME NEW r \in Requests, NEW p, NEW f, TakenBy(r, p, f), conf' = conf,
           pc[r] # "done", pc'[r] # "done", tracked[r] \subseteq tracked'[r]
    PROVE  TakenBy(r, p, f)'
BY DEF TakenBy, CommandFiles, PathIn

\* A step that is not about files.
LEMMA QuietFiles ==
    ASSUME TypeOK, TemporaryInv, NEW r \in Requests,
           UNCHANGED <<conf, tracked, disk, filesFailed, notRemoved>>,
           \A q \in Requests \ {r} :
                /\ pc'[q] = pc[q] /\ kind'[q] = kind[q] /\ written'[q] = written[q]
                /\ attempt'[q] = attempt[q] /\ mode'[q] = mode[q],
           pc[r] # "files", pc[r] # "done", pc'[r] # "new", pc'[r] = "done" => kind'[r] # "run",
           kind'[r] = kind[r] \/ (kind[r] = "none" /\ kind'[r] # "none"),
           pc[r] = "new" => pc'[r] = "done" \/ kind'[r] # "none"
    PROVE  TemporaryInv'
<1>1. TemporaryOf(r)
  BY DEF TemporaryInv
<1>2. TemporaryFilesOf(r)' = TemporaryFilesOf(r)
  BY DEF TemporaryFilesOf
<1>3. ASSUME NEW p \in TemporaryFilesOf(r), kind'[r] = "run" PROVE Explained(r, p)'
  <2>1. Explained(r, p)
    BY <1>1, <1>3 DEF TemporaryOf
  <2>2. \A f : TakenBy(r, p, f) => TakenBy(r, p, f)'
    BY <1>3, StillTaken
  <2> QED BY <2>1, <2>2 DEF Explained
<1>4. TemporaryOf(r)'
  BY <1>1, <1>2, <1>3 DEF TemporaryOf
<1> QED BY <1>4, OthersTemporaryKept

\* An execution that ends, but for one whose files fail.
LEMMA ExecEndsFiles ==
    ASSUME TypeOK, TemporaryInv, NEW r \in Requests, NEW err \in BOOLEAN, ExecEnds(r, err),
           pc[r] \in {"prepare", "render", "command"},
           UNCHANGED <<conf, kind, mode, attempt, files>>
    PROVE  TemporaryInv'
<1>1. pc'[r] \in {"done", "hooks", "handled"} /\ (pc'[r] = "done" => kind[r] = "preview")
  BY DEF TypeOK, ExecEnds, Goto
<1> QED BY <1>1, QuietFiles, ExecEndsMoves DEF files

LEMMA WriteFileTemporary ==
    ASSUME TypeOK, TemporaryInv, NEW r \in Requests, NEW f \in Files, WriteFile(r, f)
    PROVE  TemporaryInv'
<1>1. /\ pc[r] = "files"
      /\ UNCHANGED <<pc, kind, conf, mode, attempt, tracked, filesFailed, notRemoved>>
      /\ disk' = disk \cup {PathOf(r, f)} /\ written'[r] = written[r] \cup {f}
      /\ \A q \in Requests \ {r} : written'[q] = written[q]
  BY DEF WriteFile, TypeOK, core
<1>2. TemporaryOf(r)
  BY DEF TemporaryInv
<1>3. \A g : PathOf(r, g)' = PathOf(r, g)
  BY <1>1 DEF PathOf, PathIn, ExecOf
<1>4. ASSUME NEW p \in TemporaryFilesOf(r)', kind[r] = "run" PROVE Explained(r, p)'
  <2>1. CASE p = PathOf(r, f)
    BY <1>1, <1>3, <2>1 DEF Explained
  <2>2. CASE p \in disk
    <3>1. Explained(r, p)
      BY <1>2, <1>4, <2>2 DEF TemporaryOf, TemporaryFilesOf
    <3>2. \A g : TakenBy(r, p, g) => TakenBy(r, p, g)'
      BY <1>1, StillTaken
    <3> QED BY <1>1, <1>3, <3>1, <3>2 DEF Explained
  <2> QED BY <1>1, <2>1, <2>2 DEF TemporaryFilesOf
<1>5. TemporaryOf(r)'
  BY <1>1, <1>2, <1>4 DEF TemporaryOf
<1>6. \A p \in disk' \ disk : p.file.absolute \/ p.request = r
  BY <1>1 DEF PathOf, PathIn, ExecOf
<1> QED BY <1>1, <1>5, <1>6, OthersTemporaryKept

\* What is written has a path that tells the file and the ExecCommand.
LEMMA PathTells ==
    ASSUME NEW r \in Requests, NEW f, NEW p, p = PathOf(r, f), ~p.file.absolute
    PROVE  ~f.absolute /\ p.file = f /\ p.exec = ExecOf(r)
BY DEF PathOf, PathIn

LEMMA FilesDoneTemporary ==
    ASSUME IInv, TemporaryInv, NEW r \in Requests, FilesDone(r)
    PROVE  TemporaryInv'
<1>1. /\ pc[r] = "files" /\ pc'[r] = "render" /\ written[r] = Running(r).files
      /\ UNCHANGED <<kind, conf, mode, attempt, disk, filesFailed, notRemoved, written>>
      /\ \A q \in Requests \ {r} : pc'[q] = pc[q] /\ tracked'[q] = tracked[q]
      /\ tracked[r] \subseteq tracked'[r]
  BY DEF FilesDone, IInv, TypeOK, core, Goto
<1>2. TemporaryOf(r)
  BY DEF TemporaryInv
<1>3. TemporaryFilesOf(r)' = TemporaryFilesOf(r)
  BY <1>1 DEF TemporaryFilesOf
<1>4. ASSUME NEW p \in TemporaryFilesOf(r), kind[r] = "run" PROVE Explained(r, p)'
  <2>1. Explained(r, p)
    BY <1>2, <1>4 DEF TemporaryOf
  <2>2. CASE \E f \in written[r] : p = PathOf(r, f)
    <3>1. PICK f \in written[r] : p = PathOf(r, f)
      BY <2>2
    <3>2. ~f.absolute /\ p.file = f /\ p.exec = ExecOf(r)
      BY <3>1, PathTells DEF TemporaryFilesOf
    <3>3. PICK kept \in SUBSET written[r] :
            /\ KeptByCleanName(kept, written[r])
            /\ tracked'[r] = tracked[r] \cup {PathOf(r, g) : g \in {h \in kept : ~h.absolute}}
      BY <1>4 DEF FilesDone, IInv, TypeOK
    <3>4. PICK g \in kept : g.clean = f.clean
      BY <3>1, <3>3 DEF KeptByCleanName
    <3>5. CASE g = f
      BY <3>1, <3>2, <3>3, <3>4, <3>5 DEF Explained
    <3>6. CASE g # f
      <4>1. g \in CommandFiles(p.exec)
        BY <1>1, <3>2 DEF CommandFiles, ExecOf, Running
      <4>2. CommandFiles(p.exec)' = CommandFiles(p.exec)
        BY <1>1 DEF CommandFiles
      <4>3. g.absolute \/ PathIn(r, p.exec, g) \in tracked'[r]
        BY <3>2, <3>3 DEF PathOf
      <4>4. TakenBy(r, p, g)'
        BY <1>1, <3>2, <3>4, <3>6, <4>1, <4>2, <4>3 DEF TakenBy, PathIn
      <4> QED BY <4>4 DEF Explained
    <3> QED BY <3>5, <3>6
  <2>3. \A f : TakenBy(r, p, f) => TakenBy(r, p, f)'
    BY <1>1, StillTaken
  <2> QED BY <1>1, <2>1, <2>2, <2>3 DEF Explained
<1>5. TemporaryOf(r)'
  BY <1>1, <1>2, <1>3, <1>4 DEF TemporaryOf
<1> QED BY <1>1, <1>5, OthersTemporaryKept DEF IInv

LEMMA FilesFailTemporary ==
    ASSUME TypeOK, TemporaryInv, NEW r \in Requests, FilesFail(r)
    PROVE  TemporaryInv'
<1>1. /\ UNCHANGED <<kind, conf, mode, attempt, disk, tracked, written, notRemoved>>
      /\ filesFailed'[r] = filesFailed[r] \cup {ExecOf(r)}
      /\ \A q \in Requests \ {r} : filesFailed'[q] = filesFailed[q] /\ pc'[q] = pc[q]
  BY ExecEndsMoves DEF FilesFail, TypeOK
<1>2. /\ pc[r] = "files"
      /\ pc'[r] \in {"done", "hooks", "handled"} /\ (pc'[r] = "done" => kind[r] = "preview")
  BY DEF FilesFail, ExecEnds, TypeOK, Goto
<1>3. TemporaryOf(r) /\ TemporaryFilesOf(r)' = TemporaryFilesOf(r)
  BY <1>1 DEF TemporaryInv, TemporaryFilesOf
<1>4. ASSUME NEW p \in TemporaryFilesOf(r), kind[r] = "run" PROVE Explained(r, p)'
  <2>1. Explained(r, p)
    BY <1>3, <1>4 DEF TemporaryOf
  <2>2. ASSUME NEW f, p = PathOf(r, f) PROVE p.exec \in filesFailed'[r]
    BY <1>1, <2>2, PathTells DEF TemporaryFilesOf
  <2>3. \A f : TakenBy(r, p, f) => TakenBy(r, p, f)'
    BY <1>1, <1>2, <1>4, StillTaken
  <2> QED BY <1>1, <2>1, <2>2, <2>3 DEF Explained
<1>5. TemporaryOf(r)'
  BY <1>1, <1>2, <1>3, <1>4 DEF TemporaryOf
<1> QED BY <1>1, <1>5, OthersTemporaryKept

LEMMA UnwindTemporary ==
    ASSUME TypeOK, TemporaryInv, NEW r \in Requests, Unwind(r)
    PROVE  TemporaryInv'
<1>1. /\ pc[r] = "unwind" /\ pc'[r] = "done"
      /\ UNCHANGED <<kind, conf, mode, attempt, filesFailed, written>>
      /\ tracked'[r] = {}
      /\ \A q \in Requests \ {r} : pc'[q] = pc[q] /\ tracked'[q] = tracked[q]
  BY DEF Unwind, TypeOK, core, Goto
<1>2. PICK failing \in SUBSET tracked[r] :
        disk' = disk \ (tracked[r] \ failing) /\ notRemoved' = notRemoved \cup failing
  BY DEF Unwind
<1>3. TemporaryOf(r) /\ TemporaryFilesOf(r)' \subseteq TemporaryFilesOf(r)
  BY <1>2 DEF TemporaryInv, TemporaryFilesOf
<1>4. ASSUME NEW p \in TemporaryFilesOf(r)', kind[r] = "run" PROVE Explained(r, p)'
  <2>1. Explained(r, p) /\ p \in disk'
    BY <1>3, <1>4 DEF TemporaryOf, TemporaryFilesOf
  <2>2. \A f : TakenBy(r, p, f) => TakenBy(r, p, f)'
    BY <1>1, <1>2 DEF TakenBy, CommandFiles, PathIn
  <2> QED BY <1>1, <1>2, <2>1, <2>2 DEF Explained
<1>5. TemporaryOf(r)'
  BY <1>1, <1>3, <1>4 DEF TemporaryOf
<1> QED BY <1>1, <1>2, <1>5, OthersTemporaryKept

LEMMA TemporaryStep == IInv /\ TemporaryInv /\ [Next]_vars => TemporaryInv'
<1> SUFFICES ASSUME IInv, TemporaryInv, [Next]_vars PROVE TemporaryInv'
  OBVIOUS
<1>0. TypeOK
  BY DEF IInv
<1>1. CASE UNCHANGED vars
  <2> USE <1>1 DEF vars
  <2>1. \A r \in Requests : \A p, f : TakenBy(r, p, f)' <=> TakenBy(r, p, f)
    BY DEF TakenBy, CommandFiles, PathIn
  <2>2. \A r \in Requests : \A f : PathOf(r, f)' = PathOf(r, f)
    BY DEF PathOf, PathIn, ExecOf
  <2>3. \A r \in Requests : \A p : Explained(r, p)' <=> Explained(r, p)
    BY <2>1, <2>2 DEF Explained
  <2>4. \A r \in Requests : TemporaryFilesOf(r)' = TemporaryFilesOf(r)
    BY DEF TemporaryFilesOf
  <2> QED BY <2>3, <2>4 DEF TemporaryInv, TemporaryOf
<1>2. ASSUME NEW r \in Requests,
             Refuse(r) \/ (\E k \in {"run", "preview"} : Accept(r, k)) \/ Clone(r)
                \/ PostHooks(r) \/ PostHookFails(r)
      PROVE  TemporaryInv'
  <2>1. pc[r] = "new" => kind[r] = "none"
    BY DEF TemporaryInv, TemporaryOf
  <2> USE DEF TypeOK, core, files, Goto
  <2>2. CASE Refuse(r)
    BY <1>0, <2>1, <2>2, QuietFiles DEF Refuse
  <2>3. CASE \E k \in {"run", "preview"} : Accept(r, k)
    BY <1>0, <2>1, <2>3, QuietFiles DEF Accept
  <2>4. CASE Clone(r)
    BY <1>0, <2>4, QuietFiles DEF Clone
  <2>5. CASE PostHooks(r)
    BY <1>0, <2>5, QuietFiles DEF PostHooks
  <2>6. CASE PostHookFails(r)
    BY <1>0, <2>6, QuietFiles DEF PostHookFails
  <2> QED BY <1>2, <2>2, <2>3, <2>4, <2>5, <2>6
<1>3. ASSUME NEW r \in Requests, Exec(r) PROVE TemporaryInv'
  <2>1. ASSUME PreHookFails(r) \/ RenderFails(r) PROVE TemporaryInv'
    BY <1>0, <2>1, ExecEndsFiles DEF PreHookFails, RenderFails
  <2>2. ASSUME Triggered(r) PROVE TemporaryInv'
    BY <1>0, <2>2, QuietFiles DEF Triggered, core, files, Goto
  <2>3. ASSUME NEW err \in BOOLEAN, TriggerEnds(r, err) PROVE TemporaryInv'
    BY <1>0, <2>3, ExecEndsFiles DEF TriggerEnds
  <2>4. ASSUME Render(r) PROVE TemporaryInv'
    <3>1. CASE kind[r] = "preview"
      BY <1>0, <2>4, <3>1, ExecEndsFiles DEF Render
    <3>2. CASE kind[r] # "preview"
      BY <1>0, <2>4, <3>2, QuietFiles DEF Render, TypeOK, files, Goto
    <3> QED BY <3>1, <3>2
  <2>5. ASSUME NEW ok \in BOOLEAN, NEW d \in Durations, RunCommand(r, ok, d) PROVE TemporaryInv'
    BY <1>0, <2>5, ExecEndsFiles DEF RunCommand
  <2> QED
    BY <1>0, <1>3, <2>1, <2>2, <2>3, <2>4, <2>5, WriteFileTemporary,
       FilesDoneTemporary, FilesFailTemporary DEF Exec
<1>4. ASSUME NEW r \in Requests, Retry(r) PROVE TemporaryInv'
  <2> USE DEF TypeOK, core, files, Goto
  <2>1. ASSUME NEW i \in RetryPlugins,
               LimitReached(r, i) \/ RetryTemplateFails(r, i) \/ RetryWanted(r, i)
        PROVE  TemporaryInv'
    <3>1. /\ pc[r] = "retry" /\ pc'[r] \in {"settle", "sleep"}
          /\ \A q \in Requests \ {r} : pc'[q] = pc[q]
          /\ UNCHANGED <<conf, tracked, disk, filesFailed, notRemoved, kind, written, attempt,
                       mode>>
      BY <1>0, <2>1 DEF LimitReached, RetryTemplateFails, RetryWanted, Reached
    <3> QED BY <1>0, <3>1, QuietFiles
  <2>2. CASE NoRetry(r)
    <3>1. /\ pc[r] = "retry" /\ pc'[r] = "settle" /\ \A q \in Requests \ {r} : pc'[q] = pc[q]
          /\ UNCHANGED <<conf, tracked, disk, filesFailed, notRemoved, kind, written, attempt,
                       mode>>
      BY <1>0, <2>2 DEF NoRetry, Reached
    <3> QED BY <1>0, <3>1, QuietFiles
  <2>3. CASE Sleep(r)
    BY <1>0, <2>3, QuietFiles DEF Sleep
  <2> QED BY <1>4, <2>1, <2>2, <2>3 DEF Retry
<1>5. ASSUME NEW r \in Requests, Settle(r), ~Unwind(r) PROVE TemporaryInv'
  <2> USE DEF TypeOK, core, files, Goto
  <2>1. CASE FailWithoutHandler(r)
    BY <1>0, <2>1, QuietFiles DEF FailWithoutHandler
  <2>2. CASE BeginErrorHandler(r)
    BY <1>0, <2>2, QuietFiles DEF BeginErrorHandler
  <2>3. CASE EndErrorHandler(r)
    BY <1>0, <2>3, QuietFiles DEF EndErrorHandler
  <2>4. CASE StoreSuccess(r)
    BY <1>0, <2>4, QuietFiles DEF StoreSuccess
  <2>5. ASSUME NEW ok \in BOOLEAN, OutputPlugin(r, ok) PROVE TemporaryInv'
    BY <1>0, <2>5, QuietFiles DEF OutputPlugin
  <2>6. CASE DefaultOutput(r)
    BY <1>0, <2>6, QuietFiles DEF DefaultOutput
  <2> QED BY <1>5, <2>1, <2>2, <2>3, <2>4, <2>5, <2>6 DEF Settle
<1> QED BY <1>0, <1>1, <1>2, <1>3, <1>4, <1>5, UnwindTemporary DEF Next, Handle

\* Of the temporary files of a finished execution those are left that could not be
\* removed, that an ExecCommand left when one of its files failed, or whose names
\* others hid, however many attempts and other requests there were.
THEOREM LeftFilesExplained == Spec => []LeftFilesAreExplained
<1>1. Init => TemporaryInv
  BY DEF Init, TemporaryInv, TemporaryOf, TemporaryFilesOf
<1>2. TemporaryInv => LeftFilesAreExplained
  BY DEF TemporaryInv, TemporaryOf, Explained, TakenBy, Displaced, LeftFilesAreExplained
<1> QED BY <1>1, <1>2, TemporaryStep, Invariance, PTL DEF Spec
-----------------------------------------------------------------------------
(* The listener implements Executions.                                     *)

\* What the place of a request says of its answer and its attempts: it is answered
\* when it leaves HandleRequest and not before, and it comes back for another attempt
\* only because of a retry plugin.
ProgressOf(r) ==
    /\ answer[r] = "none" <=> pc[r] \notin {"unwind", "done"}
    /\ pc[r] = "new" => kind[r] = "none"
    /\ pc[r] \notin {"new", "done"} => kind[r] # "none"
    /\ pc[r] \notin {"new", "clone", "done"} => attempt[r] > 0
    /\ pc[r] = "new" => attempt[r] = 0
    /\ kind[r] = "preview" =>
        /\ pc[r] \in {"clone", "prepare", "files", "render", "done"}
        /\ mode[r] = "main"
    /\ kind[r] = "run" /\ pc[r] \in {"clone", "sleep"} =>
        attempt[r] = 0 \/ RetryPlugins # {}

ProgressInv == \A r \in Requests : ProgressOf(r)

\* What a request is doing concerns nobody else.
OthersProgressKept(r) ==
    /\ conf' = conf
    /\ \A q \in Requests \ {r} :
        /\ pc'[q] = pc[q] /\ kind'[q] = kind[q] /\ mode'[q] = mode[q]
        /\ attempt'[q] = attempt[q] /\ answer'[q] = answer[q]

LEMMA ProgressByRequest ==
    ASSUME ProgressInv, NEW r \in Requests, OthersProgressKept(r), ProgressOf(r)'
    PROVE  ProgressInv'
<1> SUFFICES ASSUME NEW q \in Requests \ {r} PROVE ProgressOf(q)'
  BY DEF ProgressInv
<1>1. ProgressOf(q)
  BY DEF ProgressInv
<1>2. RetryPlugins' = RetryPlugins
  BY DEF OthersProgressKept, RetryPlugins
<1> QED BY <1>1, <1>2 DEF OthersProgressKept, ProgressOf

\* How a request moves while its command is prepared and run, between a retry and the
\* next one, and what the others see of it.
ExecMoved(r) ==
    /\ pc[r] \in Executing
    /\ UNCHANGED <<conf, kind, mode, attempt, stored>>
    /\ \/ pc'[r] \in {"files", "render"} /\ answer' = answer
       \/ pc'[r] = "command" /\ kind[r] # "preview" /\ answer' = answer
       \/ \E err \in BOOLEAN : ExecEnds(r, err)
    /\ \A q \in Requests \ {r} : pc'[q] = pc[q]

RetryMoved(r) ==
    /\ \/ pc[r] = "retry" /\ pc'[r] = "settle"
       \/ pc[r] = "retry" /\ pc'[r] = "sleep" /\ RetryPlugins # {}
       \/ pc[r] = "sleep" /\ pc'[r] = "clone"
    /\ UNCHANGED <<conf, kind, mode, attempt, stored, answer>>
    /\ \A q \in Requests \ {r} : pc'[q] = pc[q]

LEMMA ExecMoves ==
    ASSUME TypeOK, NEW r \in Requests, Exec(r)
    PROVE  ExecMoved(r)
<1> USE DEF TypeOK, core, payload, Goto, Executing, ExecMoved
<1>1. CASE PreHookFails(r)
  BY <1>1, ExecEndsMoves DEF PreHookFails
<1>2. CASE Triggered(r)
  BY <1>2 DEF Triggered
<1>3. ASSUME NEW err \in BOOLEAN, TriggerEnds(r, err) PROVE ExecMoved(r)
  BY <1>3, ExecEndsMoves DEF TriggerEnds
<1>4. CASE (\E f \in Files : WriteFile(r, f)) \/ FilesDone(r)
  BY <1>4 DEF WriteFile, FilesDone
<1>5. CASE FilesFail(r)
  BY <1>5, ExecEndsMoves DEF FilesFail
<1>6. CASE RenderFails(r)
  BY <1>6, ExecEndsMoves DEF RenderFails
<1>7. CASE Render(r)
  <2>1. CASE kind[r] = "preview"
    BY <1>7, <2>1, ExecEndsMoves DEF Render
  <2>2. CASE kind[r] # "preview"
    BY <1>7, <2>2 DEF Render
  <2> QED BY <2>1, <2>2
<1>8. ASSUME NEW ok \in BOOLEAN, NEW d \in Durations, RunCommand(r, ok, d) PROVE ExecMoved(r)
  BY <1>8, ExecEndsMoves DEF RunCommand
<1> QED BY <1>1, <1>2, <1>3, <1>4, <1>5, <1>6, <1>7, <1>8 DEF Exec

LEMMA RetryMoves ==
    ASSUME TypeOK, NEW r \in Requests, Retry(r)
    PROVE  RetryMoved(r)
<1> USE DEF TypeOK, core, payload, Goto, RetryMoved
<1>1. CASE \E i \in RetryPlugins : LimitReached(r, i)
  BY <1>1 DEF LimitReached, Reached
<1>2. CASE \E i \in RetryPlugins : RetryTemplateFails(r, i)
  BY <1>2 DEF RetryTemplateFails, Reached
<1>3. CASE \E i \in RetryPlugins : RetryWanted(r, i)
  BY <1>3 DEF RetryWanted, Reached
<1>4. CASE NoRetry(r)
  <2>1. pc[r] = "retry" /\ pc' = [pc EXCEPT ![r] = "settle"]
    BY <1>4 DEF NoRetry, Reached
  <2>2. UNCHANGED <<conf, kind, mode, attempt, stored, answer>>
    BY <1>4 DEF NoRetry
  <2> QED BY <2>1, <2>2
<1>5. CASE Sleep(r)
  BY <1>5 DEF Sleep
<1> QED BY <1>1, <1>2, <1>3, <1>4, <1>5 DEF Retry

LEMMA ExecProgress ==
    ASSUME TypeOK, HandlerInv, ProgressInv, NEW r \in Requests, ExecMoved(r)
    PROVE  ProgressInv'
<1>1. ProgressOf(r)
  BY DEF ProgressInv
<1>2. ProgressOf(r)' /\ \A q \in Requests \ {r} : answer'[q] = answer[q]
  <2>1. CASE pc'[r] \in {"files", "render"} /\ answer' = answer
    BY <1>1, <2>1 DEF ExecMoved, ProgressOf, Executing
  <2>2. CASE pc'[r] = "command" /\ kind[r] # "preview" /\ answer' = answer
    BY <1>1, <2>2 DEF ExecMoved, ProgressOf, Executing
  <2>3. ASSUME NEW err \in BOOLEAN, ExecEnds(r, err)
        PROVE  ProgressOf(r)' /\ \A q \in Requests \ {r} : answer'[q] = answer[q]
    BY <1>1, <2>3 DEF ExecMoved, ProgressOf, Executing, ExecEnds, Goto, TypeOK
  <2> QED BY <2>1, <2>2, <2>3 DEF ExecMoved
<1> QED BY <1>2, ProgressByRequest DEF OthersProgressKept, ExecMoved

LEMMA RetryProgress ==
    ASSUME ProgressInv, NEW r \in Requests, RetryMoved(r)
    PROVE  ProgressInv'
<1>1. ProgressOf(r)
  BY DEF ProgressInv
<1>2. RetryPlugins' = RetryPlugins
  BY DEF RetryMoved, RetryPlugins
<1>3. ProgressOf(r)'
  BY <1>1, <1>2 DEF RetryMoved, ProgressOf
<1> QED BY <1>3, ProgressByRequest DEF OthersProgressKept, RetryMoved

LEMMA ProgressStep == IInv /\ ProgressInv /\ [Next]_vars => ProgressInv'
<1> SUFFICES ASSUME IInv, ProgressInv, [Next]_vars PROVE ProgressInv'
  OBVIOUS
<1>0. TypeOK /\ HandlerInv
  BY DEF IInv
<1>1. CASE UNCHANGED vars
  BY <1>1 DEF vars, ProgressInv, ProgressOf, RetryPlugins
<1>2. ASSUME NEW r \in Requests,
             \/ Refuse(r) \/ (\E k \in {"run", "preview"} : Accept(r, k)) \/ Clone(r)
             \/ PostHooks(r) \/ PostHookFails(r)
      PROVE  ProgressInv'
  <2>1. ProgressOf(r)
    BY DEF ProgressInv
  <2>2. conf' = conf /\ RetryPlugins' = RetryPlugins
    BY <1>2 DEF Refuse, Accept, Clone, PostHooks, PostHookFails, core, RetryPlugins
  <2> USE DEF TypeOK, core, Goto, ProgressOf, OthersProgressKept
  <2>3. CASE Refuse(r)
    BY <1>0, <2>1, <2>2, <2>3, ProgressByRequest DEF Refuse
  <2>4. CASE \E k \in {"run", "preview"} : Accept(r, k)
    <3>1. mode[r] = "main"
      BY <1>0, <2>4 DEF Accept, HandlerInv, Executing
    <3> QED BY <1>0, <2>1, <2>2, <2>4, <3>1, ProgressByRequest DEF Accept
  <2>5. CASE Clone(r)
    <3>1. attempt'[r] > 0
      BY <1>0, <2>5 DEF Clone
    <3> QED BY <1>0, <2>1, <2>2, <2>5, <3>1, ProgressByRequest DEF Clone
  <2>6. CASE PostHooks(r)
    BY <1>0, <2>1, <2>2, <2>6, ProgressByRequest DEF PostHooks
  <2>7. CASE PostHookFails(r)
    BY <1>0, <2>1, <2>2, <2>7, ProgressByRequest DEF PostHookFails
  <2> QED BY <1>2, <2>3, <2>4, <2>5, <2>6, <2>7
<1>3. ASSUME NEW r \in Requests, Settle(r) PROVE ProgressInv'
  <2>1. ProgressOf(r)
    BY DEF ProgressInv
  <2> USE DEF TypeOK, core, Goto, ProgressOf, OthersProgressKept
  <2>2. CASE FailWithoutHandler(r)
    BY <1>0, <2>1, <2>2, ProgressByRequest DEF FailWithoutHandler
  <2>3. CASE BeginErrorHandler(r)
    BY <1>0, <2>1, <2>3, ProgressByRequest DEF BeginErrorHandler
  <2>4. CASE EndErrorHandler(r)
    BY <1>0, <2>1, <2>4, ProgressByRequest DEF EndErrorHandler
  <2>5. CASE StoreSuccess(r)
    BY <1>0, <2>1, <2>5, ProgressByRequest DEF StoreSuccess
  <2>6. CASE \E ok \in BOOLEAN : OutputPlugin(r, ok)
    <3>1. answer'[r] # "none" /\ \A q \in Requests \ {r} : answer'[q] = answer[q]
      BY <1>0, <2>6 DEF OutputPlugin
    <3> QED BY <1>0, <2>1, <2>6, <3>1, ProgressByRequest DEF OutputPlugin
  <2>7. CASE DefaultOutput(r)
    BY <1>0, <2>1, <2>7, ProgressByRequest DEF DefaultOutput
  <2>8. CASE Unwind(r)
    BY <1>0, <2>1, <2>8, ProgressByRequest DEF Unwind
  <2> QED BY <1>3, <2>2, <2>3, <2>4, <2>5, <2>6, <2>7, <2>8 DEF Settle
<1> QED BY <1>0, <1>1, <1>2, <1>3, ExecMoves, ExecProgress, RetryMoves, RetryProgress
    DEF Next, Handle

\* What a step of one request is for Executions.
LEMMA MappedStep ==
    ASSUME TypeOK, NEW r \in Requests, OthersProgressKept(r),
           \A q \in Requests \ {r} : stored'[q] = stored[q]
    PROVE  /\ AttemptLimit' = AttemptLimit
           /\ HasErrorHandler' = HasErrorHandler
           /\ Status' = [Status EXCEPT ![r] = Status'[r]]
           /\ Attempts' = [Attempts EXCEPT ![r] = Attempts'[r]]
           /\ Storers' = [Storers EXCEPT ![r] = Storers'[r]]
<1>1. conf' = conf
  BY DEF OthersProgressKept
<1>2. AttemptLimit' = AttemptLimit
  BY <1>1, SameLimits DEF AttemptLimit
<1>3. HasErrorHandler' = HasErrorHandler
  BY <1>1 DEF HasErrorHandler
<1>4. ASSUME NEW q \in Requests \ {r}
      PROVE  Status'[q] = Status[q] /\ Attempts'[q] = Attempts[q] /\ Storers'[q] = Storers[q]
  BY DEF OthersProgressKept, Status, Attempts, Storers
<1>5. Status' = [Status EXCEPT ![r] = Status'[r]]
  <2>1. Status = [q \in Requests |-> Status[q]] /\ Status' = [q \in Requests |-> Status'[q]]
    BY DEF Status
  <2> QED BY <1>4, <2>1
<1>6. Attempts' = [Attempts EXCEPT ![r] = Attempts'[r]]
  <2>1. /\ Attempts = [q \in Requests |-> Attempts[q]]
        /\ Attempts' = [q \in Requests |-> Attempts'[q]]
    BY DEF Attempts
  <2> QED BY <1>4, <2>1
<1>7. Storers' = [Storers EXCEPT ![r] = Storers'[r]]
  <2>1. Storers = [q \in Requests |-> Storers[q]] /\ Storers' = [q \in Requests |-> Storers'[q]]
    BY DEF Storers
  <2> QED BY <1>4, <2>1
<1> QED BY <1>2, <1>3, <1>5, <1>6, <1>7

\* The steps that Executions does not see.
LEMMA Unseen ==
    ASSUME TypeOK, NEW r \in Requests, OthersProgressKept(r),
           stored' = stored, answer' = answer, Status'[r] = Status[r],
           Attempts'[r] = Attempts[r]
    PROVE  UNCHANGED Promise!vars
<1>1. Storers' = Storers
  BY DEF Storers
<1>2. Status' = Status /\ Attempts' = Attempts
  <2>1. /\ Status = [q \in Requests |-> Status[q]]
        /\ Attempts = [q \in Requests |-> Attempts[q]]
    BY DEF Status, Attempts
  <2> QED BY <2>1, MappedStep
<1>3. AttemptLimit' = AttemptLimit /\ HasErrorHandler' = HasErrorHandler
  BY MappedStep
<1> QED BY <1>1, <1>2, <1>3 DEF Promise!vars

\* The steps that end a request without storing anything.
LEMMA Answered ==
    ASSUME TypeOK, NEW r \in Requests, OthersProgressKept(r), NEW a,
           a # "none", answer' = [answer EXCEPT ![r] = a], UNCHANGED <<kind, attempt, stored>>
    PROVE  /\ Promise!Answer(r, a)
           /\ UNCHANGED Storers
<1>1. Status'[r] = "answered" /\ Attempts' = Attempts /\ Storers' = Storers
  BY DEF TypeOK, Status, Attempts, Storers
<1> QED BY <1>1, MappedStep DEF Promise!Answer, Promise!Become

\* A retry is within the limit, because the first plugin has counted every attempt.
LEMMA CloneAttempts ==
    ASSUME IInv, ProgressInv, NEW r \in Requests, Clone(r)
    PROVE  Promise!Attempt(r) \/ UNCHANGED Promise!vars
<1>0. /\ TypeOK /\ ProgressOf(r) /\ pc[r] = "clone" /\ mode[r] = "main"
  <2>1. TypeOK /\ ProgressOf(r) /\ pc[r] = "clone"
    BY DEF IInv, ProgressInv, Clone
  <2> QED BY <2>1 DEF IInv, TypeOK, HandlerInv, Executing
<1>1. /\ UNCHANGED <<conf, kind, stored, answer>>
      /\ OthersProgressKept(r)
      /\ attempt' = [attempt EXCEPT ![r] = @ + 1] /\ pc'[r] = "prepare" /\ mode'[r] = "main"
  BY <1>0 DEF Clone, OthersProgressKept, Goto, TypeOK
<1>2. answer[r] = "none" /\ kind[r] \in {"run", "preview"} /\ attempt[r] \in Nat
  BY <1>0 DEF ProgressOf, TypeOK
<1>3. CASE kind[r] = "preview"
  <2>1. Status'[r] = Status[r] /\ Attempts'[r] = Attempts[r]
    BY <1>1, <1>3 DEF Status, Attempts
  <2> QED BY <1>0, <1>1, <2>1, Unseen
<1>4. CASE kind[r] = "run"
  <2>1. Status[r] \in {"new", "running"}
    BY <1>0, <1>2, <1>4 DEF Status
  <2>2. Status'[r] = "running"
    BY <1>0, <1>1, <1>2, <1>4 DEF Status, TypeOK
  <2>3. Attempts[r] = attempt[r] /\ Attempts'[r] = attempt[r] + 1
    BY <1>0, <1>1, <1>2, <1>4 DEF Attempts, TypeOK
  <2>4. AttemptLimit # None => attempt[r] < AttemptLimit
    <3>1. /\ RetryPlugins = 1..Len(conf.retries) /\ Len(conf.retries) \in Nat
          /\ \A i \in RetryPlugins : MaxRetries(i) \in Nat \cup {None}
      BY <1>0, LimitsType DEF TypeOK
    <3>2. CASE RetryPlugins = {}
      BY <1>0, <1>2, <1>4, <3>2 DEF AttemptLimit, ProgressOf
    <3>3. CASE RetryPlugins # {}
      <4>1. 1 \in RetryPlugins
        BY <3>1, <3>3
      <4>2. MaxRetries(1) # None => MaxRetries(1) \in Nat /\ attempt[r] <= MaxRetries(1)
        BY <1>0, <3>1, <4>1 DEF IInv, LimitInv
      <4> QED BY <1>2, <3>3, <4>2 DEF AttemptLimit
    <3> QED BY <3>2, <3>3
  <2>5. Storers' = Storers
    BY <1>1 DEF Storers
  <2>6. /\ AttemptLimit' = AttemptLimit /\ HasErrorHandler' = HasErrorHandler
        /\ Status' = [Status EXCEPT ![r] = "running"]
        /\ Attempts' = [Attempts EXCEPT ![r] = @ + 1]
    BY <1>0, <1>1, <2>2, <2>3, MappedStep
  <2> QED BY <1>1, <2>1, <2>3, <2>4, <2>5, <2>6 DEF Promise!Attempt, Promise!Become
<1> QED BY <1>2, <1>3, <1>4

\* What is stored at the end, and by whom.
LEMMA StorersOfPayloads ==
    ASSUME NEW r \in Requests, NEW x \in Seq(Payload), NEW y \in Seq(Payload),
           NEW p \in Payload, NEW q \in Payload,
           x = <<>> \/ x = <<p>>, y = <<>> \/ y = <<q>>,
           stored'[r] = x \o y
    PROVE  /\ x = <<>> /\ y = <<>> => Storers'[r] = <<>>
           /\ x # <<>> /\ y = <<>> => Storers'[r] = <<p.by>>
           /\ x = <<>> /\ y # <<>> => Storers'[r] = <<q.by>>
           /\ x # <<>> /\ y # <<>> => Storers'[r] = <<p.by, q.by>>
<1> DEFINE s == x \o y
<1>1. Storers'[r] = [i \in DOMAIN s |-> s[i].by]
  BY DEF Storers
<1>2. CASE x = <<>> /\ y = <<>>
  BY <1>1, <1>2
<1>3. CASE x = <<p>> /\ y = <<>>
  BY <1>1, <1>3
<1>4. CASE x = <<>> /\ y = <<q>>
  BY <1>1, <1>4
<1>5. CASE x = <<p>> /\ y = <<q>>
  <2>1. Len(s) = 2 /\ s[1] = p /\ s[2] = q
    BY <1>5
  <2>2. DOMAIN s = 1..2 /\ s[1] = p /\ s[2] = q
    BY <2>1
  <2>3. Storers'[r] = [i \in 1..2 |-> s[i].by]
    BY <1>1, <2>2
  <2>4. <<p.by, q.by>> = [i \in 1..2 |-> s[i].by]
    BY <2>2
  <2> QED BY <1>5, <2>3, <2>4
<1> QED BY <1>2, <1>3, <1>4, <1>5

\* A request after its execution has been attempted, and is in its error handler if it
\* is to be handled.
LEMMA Unanswered ==
    ASSUME TypeOK, HandlerInv, NEW r \in Requests, ProgressOf(r),
           pc[r] \in {"hooks", "settle", "handled", "output"}
    PROVE  /\ kind[r] = "run" /\ answer[r] = "none" /\ attempt[r] > 0 /\ attempt[r] \in Nat
           /\ pc[r] # "handled" => mode[r] = "main"
<1>1. kind[r] \in {"none", "run", "preview"} /\ mode[r] \in {"main", "onError"}
  BY DEF TypeOK
<1>2. attempt[r] \in Nat
  BY DEF TypeOK
<1>3. kind[r] = "run" /\ answer[r] = "none" /\ attempt[r] > 0
  BY <1>1 DEF ProgressOf
<1>4. pc[r] # "handled" => mode[r] = "main"
  BY <1>1 DEF HandlerInv, Executing
<1> QED BY <1>2, <1>3, <1>4

\* An execution ends nothing but a preview.
LEMMA ExecSeen ==
    ASSUME TypeOK, HandlerInv, ProgressInv, NEW r \in Requests, ExecMoved(r)
    PROVE  (\E a \in {"ok", "error"} : Promise!Preview(r, a)) \/ UNCHANGED Promise!vars
<1>1. /\ ProgressOf(r) /\ pc[r] \in Executing
      /\ UNCHANGED <<conf, kind, mode, attempt, stored>>
      /\ \A q \in Requests \ {r} : pc'[q] = pc[q]
  BY DEF ProgressInv, ExecMoved
<1>2. ASSUME answer' = answer, pc'[r] # "output" PROVE UNCHANGED Promise!vars
  <2>1. Status'[r] = Status[r] /\ Attempts'[r] = Attempts[r]
    BY <1>1, <1>2 DEF Status, Attempts, Executing
  <2> QED BY <1>1, <1>2, <2>1, Unseen DEF OthersProgressKept
<1>3. ASSUME NEW err \in BOOLEAN, ExecEnds(r, err), kind[r] = "preview"
      PROVE  \E a \in {"ok", "error"} : Promise!Preview(r, a)
  <2>1. PICK a \in {"ok", "error"} : answer' = [answer EXCEPT ![r] = a]
    BY <1>3 DEF ExecEnds
  <2>2. OthersProgressKept(r)
    BY <1>1, <2>1 DEF OthersProgressKept
  <2>3. Promise!Answer(r, a) /\ UNCHANGED Storers
    BY <1>1, <2>1, <2>2, Answered
  <2>4. Status[r] = "new"
    BY <1>1, <1>3 DEF Status, ProgressOf, Executing
  <2> QED BY <2>3, <2>4 DEF Promise!Preview
<1>4. ASSUME NEW err \in BOOLEAN, ExecEnds(r, err), kind[r] # "preview"
      PROVE  answer' = answer /\ pc'[r] # "output"
  BY <1>4 DEF ExecEnds, Goto, TypeOK
<1> QED BY <1>2, <1>3, <1>4 DEF ExecMoved

LEMMA RetryUnseen ==
    ASSUME TypeOK, ProgressInv, NEW r \in Requests, RetryMoved(r)
    PROVE  UNCHANGED Promise!vars
<1>1. Status'[r] = Status[r] /\ Attempts'[r] = Attempts[r]
  BY DEF RetryMoved, Status, Attempts
<1> QED BY <1>1, Unseen DEF OthersProgressKept, RetryMoved

\* A success that is stored, and a failure after the error handler.
LEMMA StoreSuccessSettles ==
    ASSUME IInv, StorageInv, ProgressInv, NEW r \in Requests, StoreSuccess(r)
    PROVE  \E who \in {<<>>, <<"main">>} : Promise!Settle(r, who)
<1>0. /\ TypeOK /\ pc[r] = "settle" /\ ProgressOf(r) /\ stored[r] = <<>>
      /\ toStore[r] \in SUBSET Keys
  BY DEF IInv, TypeOK, ProgressInv, StoreSuccess, StorageInv, StorageOf
<1>1. /\ mode[r] = "main" /\ kind[r] = "run" /\ answer[r] = "none" /\ attempt[r] > 0
      /\ attempt[r] \in Nat
  BY <1>0, Unanswered DEF IInv
<1>2. PICK x \in Stores("main", conf.main.stores # {}, toStore[r]) :
            stored' = [stored EXCEPT ![r] = @ \o x]
  BY DEF StoreSuccess
<1>3. x \in Seq(Payload) /\ <<>> \in Seq(Payload)
  <2>1. x \in Seq(Payload)
    BY <1>0, OnePayload
  <2> QED BY <2>1
<1>4. stored'[r] = x \o <<>>
  BY <1>0, <1>2, <1>3 DEF StorageInv
<1>5. PICK p \in Payload : p.by = "main" /\ (x = <<>> \/ x = <<p>>)
  BY <1>0, OnePayloadBy
<1>6. Storers'[r] \in {<<>>, <<"main">>}
  <2>1. /\ x = <<>> => Storers'[r] = <<>>
        /\ x # <<>> => Storers'[r] = <<p.by>>
    BY <1>3, <1>4, <1>5, StorersOfPayloads
  <2> QED BY <1>5, <2>1
<1>7. /\ OthersProgressKept(r) /\ \A q \in Requests \ {r} : stored'[q] = stored[q]
      /\ UNCHANGED <<kind, attempt, mode, answer>> /\ pc'[r] = "output"
  BY <1>0, <1>2 DEF StoreSuccess, OthersProgressKept, core, Goto, TypeOK
<1>8. Status[r] = "running" /\ Status'[r] = "settled"
  BY <1>0, <1>1, <1>7 DEF Status
<1>9. Attempts' = Attempts
  BY <1>7 DEF Attempts
<1>10. /\ AttemptLimit' = AttemptLimit /\ HasErrorHandler' = HasErrorHandler
       /\ Status' = [Status EXCEPT ![r] = "settled"]
       /\ Storers' = [Storers EXCEPT ![r] = Storers'[r]]
  BY <1>0, <1>7, <1>8, MappedStep
<1> QED
  BY <1>6, <1>7, <1>8, <1>9, <1>10 DEF Promise!Settle, Promise!Store, Promise!Become

LEMMA EndErrorHandlerFails ==
    ASSUME IInv, StorageInv, ProgressInv, NEW r \in Requests, EndErrorHandler(r)
    PROVE  \E who \in {<<>>, <<"onError">>, <<"main">>, <<"onError", "main">>} :
                Promise!FailHandled(r, who)
<1>0. /\ TypeOK /\ pc[r] = "handled" /\ ProgressOf(r) /\ stored[r] = <<>>
      /\ toStoreOnError[r] \in SUBSET Keys /\ toStore'[r] \in SUBSET Keys
  BY DEF IInv, TypeOK, ProgressInv, EndErrorHandler, StorageInv, StorageOf, Keys
<1>1. /\ mode[r] = "onError" /\ kind[r] = "run" /\ answer[r] = "none" /\ attempt[r] > 0
      /\ attempt[r] \in Nat
  BY <1>0, Unanswered DEF IInv, HandlerInv
<1>2. PICK x \in Stores("onError", conf.onError.stores # {}, toStoreOnError[r]),
           y \in Stores("main", conf.main.stores # {}, toStore'[r]) :
            stored' = [stored EXCEPT ![r] = @ \o x \o y]
  BY DEF EndErrorHandler
<1>3. x \in Seq(Payload) /\ y \in Seq(Payload)
  <2>1. x \in Seq(Payload)
    BY <1>0, OnePayload
  <2>2. y \in Seq(Payload)
    BY <1>0, OnePayload
  <2> QED BY <2>1, <2>2
<1>4. stored'[r] = x \o y
  <2>1. stored[r] \o x = x
    BY <1>0, <1>3
  <2> QED BY <1>2, <2>1 DEF StorageInv
<1>5. PICK p \in Payload : p.by = "onError" /\ (x = <<>> \/ x = <<p>>)
  BY <1>0, OnePayloadBy
<1>6. Storers'[r] \in {<<>>, <<"onError">>, <<"main">>, <<"onError", "main">>}
  <2>1. PICK q \in Payload : q.by = "main" /\ (y = <<>> \/ y = <<q>>)
    BY <1>0, OnePayloadBy
  <2>2. /\ x = <<>> /\ y = <<>> => Storers'[r] = <<>>
        /\ x # <<>> /\ y = <<>> => Storers'[r] = <<p.by>>
        /\ x = <<>> /\ y # <<>> => Storers'[r] = <<q.by>>
        /\ x # <<>> /\ y # <<>> => Storers'[r] = <<p.by, q.by>>
    BY <1>3, <1>4, <1>5, <2>1, StorersOfPayloads
  <2> QED BY <1>5, <2>1, <2>2
<1>7. /\ OthersProgressKept(r) /\ \A q \in Requests \ {r} : stored'[q] = stored[q]
      /\ UNCHANGED <<kind, attempt, mode>> /\ answer' = [answer EXCEPT ![r] = "error"]
  BY <1>0, <1>2 DEF EndErrorHandler, OthersProgressKept, Goto, TypeOK
<1>8. Status[r] = "handling" /\ Status'[r] = "answered"
  BY <1>0, <1>1, <1>7 DEF Status, TypeOK
<1>9. Attempts' = Attempts
  BY <1>7 DEF Attempts
<1>10. /\ AttemptLimit' = AttemptLimit /\ HasErrorHandler' = HasErrorHandler
       /\ Status' = [Status EXCEPT ![r] = "answered"]
       /\ Storers' = [Storers EXCEPT ![r] = Storers'[r]]
  BY <1>0, <1>7, <1>8, MappedStep
<1> QED
  BY <1>6, <1>7, <1>8, <1>9, <1>10
     DEF Promise!FailHandled, Promise!Store, Promise!Answer, Promise!Become

\* The other steps that end a request or begin its error handler.
LEMMA SettleSeen ==
    ASSUME IInv, StorageInv, ProgressInv, NEW r \in Requests, Settle(r)
    PROVE  Promise!Next \/ UNCHANGED Promise!vars
<1>0. TypeOK /\ HandlerInv /\ ProgressOf(r)
  BY DEF IInv, ProgressInv
<1>1. ASSUME pc[r] \in {"settle", "output"}
      PROVE  /\ mode[r] = "main" /\ kind[r] = "run" /\ answer[r] = "none"
             /\ attempt[r] > 0 /\ attempt[r] \in Nat
  BY <1>0, <1>1, Unanswered
<1> USE DEF TypeOK, core, payload, Goto, OthersProgressKept
<1>2. CASE FailWithoutHandler(r)
  <2>1. Promise!Answer(r, "error") /\ UNCHANGED Storers
    BY <1>0, <1>2, Answered DEF FailWithoutHandler
  <2>2. Status[r] = "running" /\ ~HasErrorHandler
    BY <1>1, <1>2 DEF FailWithoutHandler, Status, HasErrorHandler
  <2> QED BY <2>1, <2>2 DEF Promise!Fail, Promise!Next
<1>3. CASE BeginErrorHandler(r)
  <2>1. Status[r] = "running" /\ HasErrorHandler
    BY <1>1, <1>3 DEF BeginErrorHandler, Status, HasErrorHandler
  <2>2. Status'[r] = "handling" /\ Attempts' = Attempts /\ Storers' = Storers
    BY <1>0, <1>1, <1>3 DEF BeginErrorHandler, Status, Attempts, Storers
  <2>3. /\ AttemptLimit' = AttemptLimit /\ HasErrorHandler' = HasErrorHandler
        /\ Status' = [Status EXCEPT ![r] = "handling"]
    BY <1>0, <1>3, <2>2, MappedStep DEF BeginErrorHandler
  <2> QED BY <1>3, <2>1, <2>2, <2>3
          DEF BeginErrorHandler, Promise!HandleError, Promise!Become, Promise!Next
<1>4. CASE EndErrorHandler(r)
  BY <1>4, EndErrorHandlerFails DEF Promise!Next
<1>5. CASE StoreSuccess(r)
  BY <1>5, StoreSuccessSettles DEF Promise!Next
<1>6. CASE (\E ok \in BOOLEAN : OutputPlugin(r, ok)) \/ DefaultOutput(r)
  <2>1. PICK a \in {"ok", "outputFailed"} : answer' = [answer EXCEPT ![r] = a]
    BY <1>6 DEF OutputPlugin, DefaultOutput
  <2>2. OthersProgressKept(r) /\ UNCHANGED <<kind, attempt, stored>> /\ pc[r] = "output"
    <3>1. /\ UNCHANGED <<conf, kind, mode, attempt, stored>> /\ pc[r] = "output"
          /\ pc' = [pc EXCEPT ![r] = "unwind"]
      BY <1>6 DEF OutputPlugin, DefaultOutput
    <3>2. \A q \in Requests \ {r} : pc'[q] = pc[q] /\ answer'[q] = answer[q]
      BY <1>0, <2>1, <3>1
    <3> QED BY <3>1, <3>2
  <2>3. Promise!Answer(r, a) /\ UNCHANGED Storers
    BY <1>0, <2>1, <2>2, Answered
  <2>4. Status[r] = "settled"
    BY <1>1, <2>2 DEF Status
  <2> QED BY <2>3, <2>4 DEF Promise!Succeed, Promise!Next
<1>7. CASE Unwind(r)
  <2>1. answer[r] # "none"
    BY <1>0, <1>7 DEF Unwind, ProgressOf
  <2>2. Status'[r] = Status[r] /\ Attempts'[r] = Attempts[r]
    BY <1>7, <2>1 DEF Unwind, Status, Attempts
  <2> QED BY <1>0, <1>7, <2>2, Unseen DEF Unwind
<1> QED BY <1>2, <1>3, <1>4, <1>5, <1>6, <1>7 DEF Settle

LEMMA ExecutionStep ==
    IInv /\ StorageInv /\ ProgressInv /\ [Next]_vars => [Promise!Next]_(Promise!vars)
<1> SUFFICES ASSUME IInv, StorageInv, ProgressInv, [Next]_vars
             PROVE  Promise!Next \/ UNCHANGED Promise!vars
  OBVIOUS
<1>0. TypeOK /\ HandlerInv
  BY DEF IInv
<1>1. CASE UNCHANGED vars
  BY <1>1 DEF vars, Promise!vars, AttemptLimit, RetryPlugins, MaxRetries, HasErrorHandler,
     Status, Attempts, Storers
<1>2. ASSUME NEW r \in Requests, Refuse(r) PROVE Promise!Next
  <2>1. ProgressOf(r)
    BY DEF ProgressInv
  <2>2. Promise!Answer(r, "refused") /\ UNCHANGED Storers
    BY <1>0, <1>2, Answered DEF Refuse, OthersProgressKept, TypeOK, payload, Goto
  <2>3. Status[r] = "new"
    BY <1>2, <2>1 DEF Refuse, ProgressOf, Status
  <2> QED BY <2>2, <2>3 DEF Promise!Refuse, Promise!Next
<1>3. ASSUME NEW r \in Requests, NEW k \in {"run", "preview"}, Accept(r, k)
      PROVE  UNCHANGED Promise!vars
  <2>1. ProgressOf(r) /\ pc[r] = "new"
    BY <1>3 DEF ProgressInv, Accept
  <2>2. Status'[r] = Status[r] /\ Attempts'[r] = Attempts[r]
    BY <1>0, <1>3, <2>1 DEF Accept, ProgressOf, Status, Attempts
  <2> QED BY <1>0, <1>3, <2>2, Unseen DEF Accept, OthersProgressKept, TypeOK, payload, Goto
<1>4. ASSUME NEW r \in Requests, Clone(r) PROVE Promise!Next \/ UNCHANGED Promise!vars
  BY <1>4, CloneAttempts DEF Promise!Next
<1>5. ASSUME NEW r \in Requests, PostHooks(r) PROVE UNCHANGED Promise!vars
  <2>1. Status'[r] = Status[r] /\ Attempts'[r] = Attempts[r]
    BY <1>0, <1>5 DEF PostHooks, core, Goto, TypeOK, Status, Attempts
  <2> QED BY <1>0, <1>5, <2>1, Unseen
          DEF PostHooks, OthersProgressKept, TypeOK, core, payload, Goto
<1>6. ASSUME NEW r \in Requests, PostHookFails(r) PROVE Promise!Next
  <2>1. ProgressOf(r) /\ pc[r] = "hooks"
    BY <1>6 DEF ProgressInv, PostHookFails
  <2>2. Promise!Answer(r, "hookFailed") /\ UNCHANGED Storers
    BY <1>0, <1>6, Answered DEF PostHookFails, OthersProgressKept, TypeOK, payload, Goto
  <2>3. Status[r] = "running"
    BY <1>0, <2>1, Unanswered DEF Status
  <2> QED BY <2>2, <2>3 DEF Promise!Fail, Promise!Next
<1>7. ASSUME NEW r \in Requests, Exec(r) PROVE Promise!Next \/ UNCHANGED Promise!vars
  BY <1>0, <1>7, ExecMoves, ExecSeen DEF Promise!Next
<1>8. ASSUME NEW r \in Requests, Retry(r) PROVE UNCHANGED Promise!vars
  BY <1>0, <1>8, RetryMoves, RetryUnseen
<1> QED BY <1>1, <1>2, <1>3, <1>4, <1>5, <1>6, <1>7, <1>8, SettleSeen DEF Next, Handle

\* The recursion of HandleRequest, its error path and its returns: a request is attempted
\* within its limit, then handed to the error handler or stored as a success, and then
\* answered, once.
THEOREM ListenerImplementsExecutions == Spec => ExecutesAsPromised
<1>1. Init => ProgressInv
  <2> SUFFICES ASSUME Init, NEW r \in Requests PROVE ProgressOf(r)
    BY DEF ProgressInv
  <2>1. pc[r] = "new" /\ kind[r] = "none" /\ attempt[r] = 0 /\ answer[r] = "none"
    BY DEF Init
  <2> QED BY <2>1 DEF ProgressOf
<1>2. Init => StorageInv
  BY DEF Init, StorageInv, StorageOf, StoredWell
<1>3. Init => Promise!Init
  <2> SUFFICES ASSUME Init PROVE Promise!Init
    OBVIOUS
  <2>1. AttemptLimit \in Nat \cup {None}
    BY LimitsType DEF Init, AttemptLimit
  <2>2. HasErrorHandler \in BOOLEAN
    BY DEF HasErrorHandler
  <2>3. /\ Status = [r \in Requests |-> "new"]
        /\ Attempts = [r \in Requests |-> 0]
        /\ Storers = [r \in Requests |-> <<>>]
    BY DEF Init, Status, Attempts, Storers
  <2> QED BY <2>1, <2>2, <2>3 DEF Init, Promise!Init
<1> QED BY <1>1, <1>2, <1>3, ProgressStep, StorageStep, ExecutionStep, Invariance, PTL
    DEF Spec, ExecutesAsPromised, Promise!Spec
=============================================================================
