--------------------------- MODULE ListenerProofs ---------------------------
(***************************************************************************)
(* What Listener guarantees for every set of requests, every configuration *)
(* and every bound: the attempts of a request are bounded, its error       *)
(* handler runs for the final failure only, and no request removes a file  *)
(* that another one uses, or a persistent one.                             *)
(***************************************************************************)
EXTENDS Listener, TLAPS

-----------------------------------------------------------------------------
(* The inductive invariant.                                                *)

Executing == {"prepare", "files", "render", "command"}

\* An attempt has begun and the retry plugins have not counted it yet.
Uncounted(r) == mode[r] = "main" /\ pc[r] \in Executing \cup {"hooks", "retry"}

\* No retry plugin counts, and no request runs, more than the attempts it made.
CountInv ==
    \A r \in Requests :
        /\ pc[r] \in {"new", "clone", "sleep"} => attempt[r] < MaxAttempts
        /\ \A i \in RetryPlugins :
            /\ retryMap[r][i] <= attempt[r]
            /\ Uncounted(r) => retryMap[r][i] < attempt[r]
        /\ commands[r] <= attempt[r]
        /\ mode[r] = "main" /\ pc[r] \in Executing => commands[r] < attempt[r]

\* The first retry plugin has counted every attempt, but the one that is still
\* running; a retry was within its limit.
LimitInv ==
    1 \in RetryPlugins => \A r \in Requests :
        /\ pc[r] \in {"new", "clone", "sleep"} => attempt[r] = retryMap[r][1]
        /\ Uncounted(r) => attempt[r] = retryMap[r][1] + 1
        /\ MaxRetries(1) # None =>
            /\ attempt[r] <= MaxRetries(1) + 1
            /\ pc[r] \in {"new", "clone", "sleep"} => attempt[r] <= MaxRetries(1)

\* Only a request that has failed is in its error handler, which leads to nothing
\* but the error.
HandlerInv ==
    \A r \in Requests :
        /\ handlerRuns[r] = IF mode[r] = "onError" THEN 1 ELSE 0
        /\ mode[r] = "onError" =>
            pc[r] \in Executing \cup {"handled", "unwind", "done"} /\ conf.onError # None
        /\ pc[r] = "handled" => mode[r] = "onError"
        /\ pc[r] \in {"unwind", "done"} /\ kind[r] = "run" /\ conf.onError # None
                => (mode[r] = "onError" <=> answer[r] = "error")

\* The cleanups of a request know nothing but its own temporary files, and what it
\* has written is there while it executes.
FilesInv ==
    \A r \in Requests :
        /\ \A p \in tracked[r] : ~p.file.absolute /\ p.request = r
        /\ pc[r] = "prepare" => written[r] = {}
        /\ pc[r] \in {"files", "render", "command"} =>
            \A f \in written[r] : PathOf(r, f) \in disk
        /\ pc[r] \in {"render", "command"} => Running(r).files \subseteq written[r]

IInv == TypeOK /\ CountInv /\ LimitInv /\ HandlerInv /\ FilesInv
-----------------------------------------------------------------------------
(* Lemmas about the operators that several actions share.                  *)

\* The retry plugins are numbered, and a limit is a number.
LEMMA LimitsType ==
    ASSUME conf \in Listeners
    PROVE  /\ Len(conf.retries) \in Nat
           /\ RetryPlugins = 1..Len(conf.retries)
           /\ \A i \in RetryPlugins : MaxRetries(i) \in Nat \cup {None}
           /\ \A i \in RetryPlugins : conf.retries[i].maxElapsed \in Nat \cup {None}
<1> DEFINE Limits == [maxRetries : Nat \cup {None}, maxElapsed : Nat \cup {None}]
<1>1. conf.retries \in Seq(Limits)
  BY ConstantsAssumption
<1>2. ASSUME NEW i \in RetryPlugins PROVE conf.retries[i] \in Limits
  <2> HIDE DEF Limits
  <2> QED BY <1>1 DEF RetryPlugins
<1>3. Len(conf.retries) \in Nat /\ RetryPlugins = 1..Len(conf.retries)
  BY DEF RetryPlugins
<1>4. ASSUME NEW i \in RetryPlugins PROVE MaxRetries(i) \in Nat \cup {None}
  BY <1>2 DEF MaxRetries, DefaultMaxRetries
<1> QED BY <1>2, <1>3, <1>4

\* The limits are those of the configuration, which never changes.
LEMMA SameLimits ==
    ASSUME conf' = conf
    PROVE  RetryPlugins' = RetryPlugins /\ MaxRetries(1)' = MaxRetries(1)
BY DEF RetryPlugins, MaxRetries

\* What is collected for the storage.
LEMMA CollectType ==
    ASSUME TypeOK, NEW r \in Requests, NEW key \in Keys, Collect(r, key)
    PROVE  /\ toStore' \in [Requests -> SUBSET Keys]
           /\ toStoreOnError' \in [Requests -> SUBSET Keys]
BY DEF TypeOK, Collect

\* How the plugins up to i are counted.
LEMMA Counted ==
    ASSUME TypeOK, NEW r \in Requests, NEW i \in Int, Reached(r, i)
    PROVE  /\ retryMap' \in [Requests -> [RetryPlugins -> Nat]]
           /\ \A q \in Requests : q # r => retryMap'[q] = retryMap[q]
           /\ \A j \in RetryPlugins :
                retryMap'[r][j] = retryMap[r][j] + IF j <= i THEN 1 ELSE 0
<1>1. retryMap' = [retryMap EXCEPT ![r] = CountedUpTo(r, i)]
  BY DEF Reached
<1>2. retryMap \in [Requests -> [RetryPlugins -> Nat]]
  BY DEF TypeOK
<1> QED BY <1>1, <1>2 DEF CountedUpTo
-----------------------------------------------------------------------------
\* Requests that have not been received yet.
LEMMA InitInv == Init => IInv
<1> SUFFICES ASSUME Init PROVE IInv
  OBVIOUS
<1>0. RetryPlugins = 1..Len(conf.retries) /\ \A i \in RetryPlugins : MaxRetries(i) \in Nat \cup {None}
  BY LimitsType DEF Init
<1>1. TypeOK
  BY ConstantsAssumption, <1>0 DEF Init, TypeOK, Places
<1>2. /\ \A r \in Requests : pc[r] = "new" /\ attempt[r] = 0 /\ commands[r] = 0
      /\ \A r \in Requests : \A i \in RetryPlugins : retryMap[r][i] = 0
  BY <1>0 DEF Init
<1>3. CountInv /\ LimitInv
  BY ConstantsAssumption, <1>0, <1>2 DEF CountInv, LimitInv, Uncounted,
     Executing
<1>4. HandlerInv /\ FilesInv
  BY DEF Init, HandlerInv, FilesInv
<1> QED BY <1>1, <1>3, <1>4 DEF IInv

(* Two lemmas for what several actions do.                                 *)

\* An execution that ends, before its command or with it, keeps the invariant: it
\* leaves the files alone, and an attempt has run its command once at most.
LEMMA ExecEnded ==
    ASSUME IInv, NEW r \in Requests, NEW err \in BOOLEAN, ExecEnds(r, err),
           pc[r] \in Executing,
           \/ UNCHANGED commands
           \/ mode[r] = "main" /\ commands' = [commands EXCEPT ![r] = @ + 1],
           UNCHANGED <<conf, kind, mode, attempt, retryMap, written, tracked, disk,
                       handlerRuns>>
    PROVE  /\ pc' \in [Requests -> Places]
           /\ errCommand' \in [Requests -> {"none", "exec", "limit", "template"}]
           /\ answer' \in [Requests -> {"none", "refused", "ok", "error", "hookFailed",
                                        "outputFailed"}]
           /\ commands' \in [Requests -> 0..MaxAttempts]
           /\ CountInv' /\ LimitInv' /\ HandlerInv' /\ FilesInv'
<1>1. RetryPlugins' = RetryPlugins /\ MaxRetries(1)' = MaxRetries(1)
  BY SameLimits
<1>2. /\ pc' \in [Requests -> Places]
      /\ errCommand' \in [Requests -> {"none", "exec", "limit", "template"}]
      /\ answer' \in [Requests -> {"none", "refused", "ok", "error", "hookFailed",
                                   "outputFailed"}]
  BY ZenonT(30) DEF IInv, TypeOK, ExecEnds, Goto, Places
<1>3. \A q \in Requests : q # r => pc'[q] = pc[q] /\ answer'[q] = answer[q]
  BY DEF IInv, TypeOK, ExecEnds, Goto
<1>4. \/ kind[r] = "preview" /\ pc'[r] = "done"
      \/ kind[r] = "run" /\ mode[r] = "main" /\ pc'[r] = "hooks"
      \/ kind[r] = "run" /\ mode[r] = "onError" /\ pc'[r] = "handled"
  BY DEF IInv, TypeOK, ExecEnds, Goto
<1>5. CountInv'
  BY <1>1, <1>3, <1>4 DEF IInv, TypeOK, CountInv, Uncounted, Executing
<1>6. commands' \in [Requests -> 0..MaxAttempts]
  <2>1. CASE UNCHANGED commands
    BY <2>1 DEF IInv, TypeOK
  <2>2. CASE mode[r] = "main" /\ commands' = [commands EXCEPT ![r] = @ + 1]
    <3>1. commands[r] \in 0..MaxAttempts /\ attempt[r] \in 0..MaxAttempts
      BY DEF IInv, TypeOK
    <3>2. commands[r] < attempt[r]
      BY <2>2 DEF IInv, CountInv
    <3>3. commands[r] + 1 \in 0..MaxAttempts
      BY <3>1, <3>2, ConstantsAssumption
    <3> QED BY <3>3 DEF IInv, TypeOK
  <2> QED BY <2>1, <2>2
<1>7. LimitInv'
  BY <1>1, <1>3, <1>4 DEF IInv, LimitInv, Uncounted
<1>8. HandlerInv'
  <2> SUFFICES ASSUME NEW q \in Requests PROVE HandlerInv!(q)'
    BY DEF HandlerInv
  <2>1. HandlerInv!(q) /\ UNCHANGED <<handlerRuns, mode, kind, conf>>
    BY DEF IInv, HandlerInv
  <2>2. CASE q = r
    BY <2>1, <2>2, <1>4
  <2>3. CASE q # r
    BY <2>1, <2>3, <1>3
  <2> QED BY <2>2, <2>3
<1>9. FilesInv'
  BY <1>3, <1>4 DEF IInv, FilesInv, PathOf, PathIn, ExecOf, Running
<1> QED BY <1>2, <1>5, <1>6, <1>7, <1>8, <1>9

\* The retry plugins up to i have counted the attempt, which is then over; there
\* is another one only if the first plugin is within its limit.
LEMMA AttemptCounted ==
    ASSUME IInv, NEW r \in Requests, NEW i \in RetryPlugins \cup {Len(conf.retries) + 1},
           Reached(r, i),
           \/ Goto(r, "settle")
           \/ Goto(r, "sleep") /\ WithinLimits(r, i) /\ attempt[r] < MaxAttempts,
           UNCHANGED <<conf, kind, mode, attempt, answer, files, counts>>
    PROVE  /\ pc' \in [Requests -> Places]
           /\ retryMap' \in [Requests -> [RetryPlugins' -> 0..MaxAttempts]]
           /\ CountInv' /\ LimitInv' /\ HandlerInv' /\ FilesInv'
<1>1. RetryPlugins' = RetryPlugins /\ MaxRetries(1)' = MaxRetries(1)
  BY SameLimits
<1>2. /\ Len(conf.retries) \in Nat /\ RetryPlugins = 1..Len(conf.retries)
      /\ \A j \in RetryPlugins : MaxRetries(j) \in Nat \cup {None}
  BY LimitsType DEF IInv, TypeOK
<1>3. i \in Int /\ 1 <= i
  BY <1>2
<1>4. /\ retryMap' \in [Requests -> [RetryPlugins -> Nat]]
      /\ \A q \in Requests : q # r => retryMap'[q] = retryMap[q]
      /\ \A j \in RetryPlugins :
            retryMap'[r][j] = retryMap[r][j] + IF j <= i THEN 1 ELSE 0
  BY <1>3, Counted DEF IInv
<1>5. mode[r] = "main" /\ pc[r] = "retry" /\ Uncounted(r)
  BY DEF IInv, TypeOK, HandlerInv, Reached, Uncounted, Executing
<1>6. /\ pc' \in [Requests -> Places]
      /\ \A q \in Requests : q # r => pc'[q] = pc[q]
      /\ pc'[r] \in {"settle", "sleep"}
      /\ pc'[r] = "sleep" => WithinLimits(r, i) /\ attempt[r] < MaxAttempts
  BY ZenonT(30) DEF IInv, TypeOK, Goto, Places
<1>7. \A q \in Requests : \A j \in RetryPlugins : retryMap'[q][j] <= attempt[q]
  <2> SUFFICES ASSUME NEW q \in Requests, NEW j \in RetryPlugins
               PROVE  retryMap'[q][j] <= attempt[q]
    OBVIOUS
  <2>1. retryMap[q][j] \in Nat /\ attempt[q] \in Nat /\ retryMap[q][j] <= attempt[q]
    BY DEF IInv, TypeOK, CountInv
  <2>2. CASE q # r
    BY <2>1, <2>2, <1>4
  <2>3. CASE q = r
    <3>1. retryMap[q][j] < attempt[q]
      BY <1>5, <2>3 DEF IInv, CountInv
    <3> QED BY <2>1, <3>1, <1>4
  <2> QED BY <2>2, <2>3
<1>8. CountInv'
  <2>1. \A q \in Requests : Uncounted(q)' => q # r /\ Uncounted(q)
    BY <1>6 DEF Uncounted, Executing
  <2>2. \A q \in Requests : q # r => CountInv!(q)
    BY DEF IInv, CountInv
  <2>3. commands[r] <= attempt[r] /\ UNCHANGED <<mode, commands, attempt>>
    BY DEF IInv, CountInv, counts
  <2> QED BY <1>1, <1>4, <1>6, <1>7, <2>1, <2>2, <2>3 DEF CountInv, Executing
<1>9. retryMap' \in [Requests -> [RetryPlugins' -> 0..MaxAttempts]]
  <2>1. \A q \in Requests : attempt[q] \in 0..MaxAttempts
    BY DEF IInv, TypeOK
  <2>2. ASSUME NEW q \in Requests, NEW j \in RetryPlugins PROVE retryMap'[q][j] \in 0..MaxAttempts
    <3>1. retryMap[q][j] \in Nat
      BY DEF IInv, TypeOK
    <3>2. retryMap'[q][j] \in Nat
      <4>1. CASE q # r
        BY <1>4, <3>1, <4>1
      <4>2. CASE q = r
        BY <1>4, <3>1, <4>2
      <4> QED BY <4>1, <4>2
    <3>3. retryMap'[q][j] <= attempt[q]
      BY <1>7
    <3> QED BY <2>1, <3>2, <3>3, ConstantsAssumption
  <2> QED BY <1>1, <1>4, <2>2
<1>10. LimitInv'
  <2> SUFFICES ASSUME 1 \in RetryPlugins, NEW q \in Requests
               PROVE  /\ pc'[q] \in {"new", "clone", "sleep"} => attempt[q] = retryMap'[q][1]
                      /\ Uncounted(q)' => attempt[q] = retryMap'[q][1] + 1
                      /\ MaxRetries(1) # None =>
                          /\ attempt[q] <= MaxRetries(1) + 1
                          /\ pc'[q] \in {"new", "clone", "sleep"} => attempt[q] <= MaxRetries(1)
    BY <1>1 DEF LimitInv
  <2>1. CASE q # r
    BY <2>1, <1>4, <1>6 DEF IInv, LimitInv, Uncounted
  <2>2. CASE q = r
    <3>1. /\ attempt[r] = retryMap[r][1] + 1 /\ retryMap'[r][1] = retryMap[r][1] + 1
          /\ MaxRetries(1) # None => attempt[r] <= MaxRetries(1) + 1
      BY <1>3, <1>4, <1>5 DEF IInv, LimitInv
    <3>2. pc'[r] = "sleep" => WithinLimits(r, 1)
      BY <1>3, <1>6 DEF Reached
    <3>3. MaxRetries(1) # None /\ WithinLimits(r, 1) => retryMap[r][1] + 1 <= MaxRetries(1)
      BY DEF WithinLimits, CountedUpTo
    <3> QED BY <2>2, <1>6, <3>1, <3>2, <3>3 DEF Uncounted, Executing
  <2> QED BY <2>1, <2>2
<1>11. HandlerInv'
  BY <1>5, <1>6 DEF IInv, HandlerInv, counts
<1>12. FilesInv'
  BY <1>6 DEF IInv, FilesInv, PathOf, PathIn, ExecOf, Running, files
<1> QED BY <1>6, <1>8, <1>9, <1>10, <1>11, <1>12

(* One lemma per action: it preserves the invariant.                       *)

\* A refused request has done nothing.
LEMMA RefuseInv ==
    ASSUME IInv, NEW r \in Requests, Refuse(r)
    PROVE  IInv'
<1>1. RetryPlugins' = RetryPlugins /\ MaxRetries(1)' = MaxRetries(1)
  BY SameLimits DEF Refuse
<1>2. TypeOK'
  BY <1>1 DEF IInv, TypeOK, Places, Refuse, Goto, files, payload, time, counts
<1>3. CountInv'
  BY <1>1 DEF IInv, CountInv, Uncounted, Executing, Refuse, Goto, counts
<1>4. LimitInv'
  BY <1>1 DEF IInv, LimitInv, Uncounted, Executing, Refuse, Goto
<1>5. HandlerInv'
  BY DEF IInv, TypeOK, HandlerInv, Executing, Refuse, Goto, counts
<1>6. FilesInv'
  BY DEF IInv, FilesInv, PathOf, PathIn, ExecOf, Running, Refuse, Goto, files
<1> QED BY <1>2, <1>3, <1>4, <1>5, <1>6 DEF IInv

\* The first attempt is about to begin.
LEMMA AcceptInv ==
    ASSUME IInv, NEW r \in Requests, NEW k \in {"run", "preview"}, Accept(r, k)
    PROVE  IInv'
<1>1. RetryPlugins' = RetryPlugins /\ MaxRetries(1)' = MaxRetries(1)
  BY SameLimits DEF Accept
<1>2. TypeOK'
  BY <1>1 DEF IInv, TypeOK, Places, Accept, Goto, files, payload, time, counts
<1>3. CountInv'
  BY <1>1 DEF IInv, CountInv, Uncounted, Executing, Accept, Goto, counts
<1>4. LimitInv'
  BY <1>1 DEF IInv, LimitInv, Uncounted, Executing, Accept, Goto
<1>5. HandlerInv'
  BY DEF IInv, HandlerInv, Executing, Accept, Goto, counts
<1>6. FilesInv'
  BY DEF IInv, FilesInv, PathOf, PathIn, ExecOf, Running, Accept, Goto, files
<1> QED BY <1>2, <1>3, <1>4, <1>5, <1>6 DEF IInv

\* An attempt begins, within the limits.
LEMMA CloneInv ==
    ASSUME IInv, NEW r \in Requests, Clone(r)
    PROVE  IInv'
<1>1. RetryPlugins' = RetryPlugins /\ MaxRetries(1)' = MaxRetries(1)
  BY SameLimits DEF Clone
<1>2. 1 \in RetryPlugins => MaxRetries(1) \in Nat \cup {None}
  BY LimitsType DEF IInv, TypeOK
<1>3. TypeOK'
  BY ConstantsAssumption, <1>1 DEF IInv, TypeOK, Places, CountInv, Clone, Goto
<1>4. CountInv'
  BY <1>1 DEF IInv, TypeOK, CountInv, Uncounted, Clone, Goto
<1>5. LimitInv'
  BY <1>1, <1>2 DEF IInv, TypeOK, LimitInv, Uncounted, Clone, Goto
<1>6. HandlerInv'
  BY DEF IInv, HandlerInv, Executing, Clone, Goto
<1>7. FilesInv'
  BY DEF IInv, TypeOK, FilesInv, PathOf, PathIn, ExecOf, Running, Clone, Goto
<1> QED BY <1>3, <1>4, <1>5, <1>6, <1>7 DEF IInv

\* The execution ends before it has written anything.
LEMMA PreHookFailsInv ==
    ASSUME IInv, NEW r \in Requests, PreHookFails(r)
    PROVE  IInv'
<1>1. ExecEnds(r, TRUE) /\ pc[r] \in Executing
  BY DEF PreHookFails, Executing
<1>2. UNCHANGED <<conf, kind, mode, attempt, retryMap, written, tracked, disk, handlerRuns>>
  BY DEF PreHookFails, files, counts
<1>3. /\ pc' \in [Requests -> Places]
      /\ errCommand' \in [Requests -> {"none", "exec", "limit", "template"}]
      /\ answer' \in [Requests -> {"none", "refused", "ok", "error", "hookFailed",
                                   "outputFailed"}]
      /\ commands' \in [Requests -> 0..MaxAttempts]
      /\ CountInv' /\ LimitInv' /\ HandlerInv' /\ FilesInv'
  BY <1>1, <1>2, ExecEnded DEF PreHookFails, counts
<1>4. TypeOK'
  BY <1>3 DEF IInv, TypeOK, RetryPlugins, PreHookFails, payload, time, counts,
     files
<1> QED BY <1>3, <1>4 DEF IInv

\* Nothing is written yet.
LEMMA TriggeredInv ==
    ASSUME IInv, NEW r \in Requests, Triggered(r)
    PROVE  IInv'
<1>1. RetryPlugins' = RetryPlugins /\ MaxRetries(1)' = MaxRetries(1)
  BY SameLimits DEF Triggered, core
<1>2. toStore' \in [Requests -> SUBSET Keys] /\ toStoreOnError' \in [Requests -> SUBSET Keys]
  BY CollectType DEF IInv, Keys, Triggered
<1>3. TypeOK'
  BY <1>1, <1>2 DEF IInv, TypeOK, Places, Triggered, Goto, core, files, time,
     counts
<1>4. CountInv'
  BY <1>1 DEF IInv, CountInv, Uncounted, Executing, Triggered, Goto, core,
     counts
<1>5. LimitInv'
  BY <1>1 DEF IInv, LimitInv, Uncounted, Executing, Triggered, Goto, core
<1>6. HandlerInv'
  BY DEF IInv, HandlerInv, Executing, Triggered, Goto, core, counts
<1>7. FilesInv'
  BY DEF IInv, FilesInv, PathOf, PathIn, ExecOf, Running, Triggered, Goto, core, files
<1> QED BY <1>3, <1>4, <1>5, <1>6, <1>7 DEF IInv

\* The execution ends before it has written anything.
LEMMA TriggerEndsInv ==
    ASSUME IInv, NEW r \in Requests, NEW err \in BOOLEAN, TriggerEnds(r, err)
    PROVE  IInv'
<1>1. ExecEnds(r, err) /\ pc[r] \in Executing
  BY DEF TriggerEnds, Executing
<1>2. UNCHANGED <<conf, kind, mode, attempt, retryMap, written, tracked, disk, handlerRuns>>
  BY DEF TriggerEnds, files, counts
<1>3. /\ pc' \in [Requests -> Places]
      /\ errCommand' \in [Requests -> {"none", "exec", "limit", "template"}]
      /\ answer' \in [Requests -> {"none", "refused", "ok", "error", "hookFailed",
                                   "outputFailed"}]
      /\ commands' \in [Requests -> 0..MaxAttempts]
      /\ CountInv' /\ LimitInv' /\ HandlerInv' /\ FilesInv'
  BY <1>1, <1>2, ExecEnded DEF TriggerEnds, counts
<1>4. toStore' \in [Requests -> SUBSET Keys] /\ toStoreOnError' \in [Requests -> SUBSET Keys]
  BY CollectType DEF IInv, Keys, TriggerEnds
<1>5. TypeOK'
  BY <1>3, <1>4 DEF IInv, TypeOK, RetryPlugins, TriggerEnds, time, counts,
     files
<1> QED BY <1>3, <1>5 DEF IInv

\* One more file is on the disk.
LEMMA WriteFileInv ==
    ASSUME IInv, NEW r \in Requests, NEW f \in Files, WriteFile(r, f)
    PROVE  IInv'
<1>1. RetryPlugins' = RetryPlugins /\ MaxRetries(1)' = MaxRetries(1)
  BY SameLimits DEF WriteFile, core
<1>2. TypeOK'
  BY <1>1 DEF IInv, TypeOK, WriteFile, core, payload, time, counts
<1>3. CountInv'
  BY <1>1 DEF IInv, CountInv, Uncounted, WriteFile, core, counts
<1>4. LimitInv'
  BY <1>1 DEF IInv, LimitInv, Uncounted, WriteFile, core
<1>5. HandlerInv'
  BY DEF IInv, HandlerInv, WriteFile, core, counts
<1>6. FilesInv'
  BY DEF IInv, FilesInv, PathOf, PathIn, ExecOf, Running, WriteFile, core
<1> QED BY <1>2, <1>3, <1>4, <1>5, <1>6 DEF IInv

\* The execution ends with files nobody knows of.
LEMMA FilesFailInv ==
    ASSUME IInv, NEW r \in Requests, FilesFail(r)
    PROVE  IInv'
<1>1. ExecEnds(r, TRUE) /\ pc[r] \in Executing
  BY DEF FilesFail, Executing
<1>2. /\ pc' \in [Requests -> Places]
      /\ errCommand' \in [Requests -> {"none", "exec", "limit", "template"}]
      /\ answer' \in [Requests -> {"none", "refused", "ok", "error", "hookFailed",
                                   "outputFailed"}]
      /\ commands' \in [Requests -> 0..MaxAttempts]
      /\ CountInv' /\ LimitInv' /\ HandlerInv' /\ FilesInv'
  BY <1>1, ExecEnded DEF FilesFail, counts
<1>3. TypeOK'
  <2>1. filesFailed' = [filesFailed EXCEPT ![r] = @ \cup {ExecOf(r)}]
    BY DEF FilesFail
  <2>2. ExecOf(r) \in [attempt : 0..MaxAttempts, mode : {"main", "onError"}]
    BY DEF IInv, TypeOK, ExecOf
  <2>3. filesFailed' \in
            [Requests -> SUBSET [attempt : 0..MaxAttempts, mode : {"main", "onError"}]]
    BY <2>1, <2>2 DEF IInv, TypeOK
  <2> QED BY <1>2, <2>3 DEF IInv, TypeOK, RetryPlugins, FilesFail, payload, time, counts
<1> QED BY <1>2, <1>3 DEF IInv

\* The cleanup will remove temporary files of this request.
LEMMA FilesDoneInv ==
    ASSUME IInv, NEW r \in Requests, FilesDone(r)
    PROVE  IInv'
<1>1. RetryPlugins' = RetryPlugins /\ MaxRetries(1)' = MaxRetries(1)
  BY SameLimits DEF FilesDone, core
<1>2. TypeOK'
  BY <1>1 DEF IInv, TypeOK, Places, FilesInv, Running, FilesDone, Goto, core,
     payload, time, counts
<1>3. CountInv'
  BY <1>1 DEF IInv, CountInv, Uncounted, Executing, FilesDone, Goto, core,
     counts
<1>4. LimitInv'
  BY <1>1 DEF IInv, LimitInv, Uncounted, Executing, FilesDone, Goto, core
<1>5. HandlerInv'
  BY DEF IInv, HandlerInv, Executing, FilesDone, Goto, core, counts
<1>6. FilesInv'
  BY DEF IInv, FilesInv, PathOf, PathIn, ExecOf, Running, FilesDone, Goto, core
<1> QED BY <1>2, <1>3, <1>4, <1>5, <1>6 DEF IInv

\* The execution ends before the command.
LEMMA RenderFailsInv ==
    ASSUME IInv, NEW r \in Requests, RenderFails(r)
    PROVE  IInv'
<1>1. ExecEnds(r, TRUE) /\ pc[r] \in Executing
  BY DEF RenderFails, Executing
<1>2. UNCHANGED <<conf, kind, mode, attempt, retryMap, written, tracked, disk, handlerRuns>>
  BY DEF RenderFails, files, counts
<1>3. /\ pc' \in [Requests -> Places]
      /\ errCommand' \in [Requests -> {"none", "exec", "limit", "template"}]
      /\ answer' \in [Requests -> {"none", "refused", "ok", "error", "hookFailed",
                                   "outputFailed"}]
      /\ commands' \in [Requests -> 0..MaxAttempts]
      /\ CountInv' /\ LimitInv' /\ HandlerInv' /\ FilesInv'
  BY <1>1, <1>2, ExecEnded DEF RenderFails, counts
<1>4. TypeOK'
  BY <1>3 DEF IInv, TypeOK, RetryPlugins, RenderFails, payload, time, counts,
     files
<1> QED BY <1>3, <1>4 DEF IInv

\* The files stay where they are, for the command or as the preview leaves them.
LEMMA RenderInv ==
    ASSUME IInv, NEW r \in Requests, Render(r)
    PROVE  IInv'
<1>1. /\ UNCHANGED <<conf, kind, mode, attempt, retryMap, files, handlerRuns, commands>>
      /\ pc[r] = "render"
  BY DEF Render, counts
<1>2. CASE kind[r] = "preview"
  <2>1. ExecEnds(r, FALSE) /\ UNCHANGED payload
    BY <1>2 DEF Render, payload
  <2>2. /\ pc' \in [Requests -> Places]
        /\ errCommand' \in [Requests -> {"none", "exec", "limit", "template"}]
        /\ answer' \in [Requests -> {"none", "refused", "ok", "error", "hookFailed",
                                     "outputFailed"}]
        /\ commands' \in [Requests -> 0..MaxAttempts]
        /\ CountInv' /\ LimitInv' /\ HandlerInv' /\ FilesInv'
    BY <1>1, <2>1, ExecEnded DEF Executing, files
  <2>3. TypeOK'
    BY <2>1, <2>2 DEF IInv, TypeOK, RetryPlugins, Render, files, payload, time,
       counts
  <2> QED BY <2>2, <2>3 DEF IInv
<1>3. CASE kind[r] # "preview"
  <2>1. Collect(r, "command") /\ Goto(r, "command") /\ UNCHANGED <<errCommand, answer>>
    BY <1>3 DEF Render
  <2>2. toStore' \in [Requests -> SUBSET Keys] /\ toStoreOnError' \in [Requests -> SUBSET Keys]
    BY <2>1, CollectType DEF IInv, Keys
  <2>3. TypeOK'
    BY <2>1, <2>2 DEF IInv, TypeOK, RetryPlugins, Places, Goto, Render, files,
       time, counts
  <2>4. RetryPlugins' = RetryPlugins /\ MaxRetries(1)' = MaxRetries(1)
    BY <1>1, SameLimits
  <2>5. CountInv' /\ LimitInv'
    BY <1>1, <2>1, <2>4 DEF IInv, CountInv, LimitInv, Uncounted, Executing,
       Goto
  <2>6. HandlerInv'
    BY <1>1, <2>1 DEF IInv, HandlerInv, Executing, Goto
  <2>7. FilesInv'
    BY <1>1, <2>1 DEF IInv, FilesInv, PathOf, PathIn, ExecOf, Running, files, Goto
  <2> QED BY <2>3, <2>5, <2>6, <2>7 DEF IInv
<1> QED BY <1>2, <1>3

\* The attempt has run its command.
LEMMA RunCommandInv ==
    ASSUME IInv, NEW r \in Requests, NEW ok \in BOOLEAN, NEW d \in Durations, RunCommand(r, ok, d)
    PROVE  IInv'
<1>1. ExecEnds(r, ~ok) /\ pc[r] \in Executing
  BY DEF RunCommand, Executing
<1>2. UNCHANGED <<conf, kind, mode, attempt, retryMap, written, tracked, disk, handlerRuns>>
  BY DEF RunCommand, files
<1>3. /\ pc' \in [Requests -> Places]
      /\ errCommand' \in [Requests -> {"none", "exec", "limit", "template"}]
      /\ answer' \in [Requests -> {"none", "refused", "ok", "error", "hookFailed",
                                   "outputFailed"}]
      /\ commands' \in [Requests -> 0..MaxAttempts]
      /\ CountInv' /\ LimitInv' /\ HandlerInv' /\ FilesInv'
  BY <1>1, <1>2, ExecEnded DEF RunCommand
<1>4. toStore' \in [Requests -> SUBSET Keys] /\ toStoreOnError' \in [Requests -> SUBSET Keys]
  BY CollectType DEF IInv, Keys, RunCommand
<1>5. elapsed' \in [Requests -> Nat] /\ spent' \in [Requests -> Nat]
  <2>1. d \in Nat /\ elapsed[r] \in Nat /\ spent[r] \in Nat
    BY ConstantsAssumption DEF IInv, TypeOK
  <2>2. elapsed[r] + d \in Nat /\ spent[r] + d \in Nat
    BY <2>1
  <2>3. CASE mode[r] = "main"
    <3>1. /\ elapsed' = [elapsed EXCEPT ![r] = elapsed[r] + d]
          /\ spent' = [spent EXCEPT ![r] = spent[r] + d]
      BY <2>3 DEF RunCommand
    <3> QED BY <2>2, <3>1 DEF IInv, TypeOK
  <2>4. CASE mode[r] # "main"
    BY <2>4 DEF IInv, TypeOK, RunCommand
  <2> QED BY <2>3, <2>4
<1>6. TypeOK'
  BY <1>3, <1>4, <1>5 DEF IInv, TypeOK, RetryPlugins, RunCommand, files
<1> QED BY <1>3, <1>6 DEF IInv

\* The attempt is still to be counted.
LEMMA PostHooksInv ==
    ASSUME IInv, NEW r \in Requests, PostHooks(r)
    PROVE  IInv'
<1>1. RetryPlugins' = RetryPlugins /\ MaxRetries(1)' = MaxRetries(1)
  BY SameLimits DEF PostHooks, core
<1>2. TypeOK'
  BY <1>1 DEF IInv, TypeOK, Places, PostHooks, Goto, core, files, payload,
     time, counts
<1>3. CountInv'
  BY <1>1 DEF IInv, CountInv, Uncounted, Executing, PostHooks, Goto, core,
     counts
<1>4. LimitInv'
  BY <1>1 DEF IInv, LimitInv, Uncounted, PostHooks, Goto, core
<1>5. HandlerInv'
  BY DEF IInv, HandlerInv, Executing, PostHooks, Goto, core, counts
<1>6. FilesInv'
  BY DEF IInv, FilesInv, PathOf, PathIn, ExecOf, Running, PostHooks, Goto, core, files
<1> QED BY <1>2, <1>3, <1>4, <1>5, <1>6 DEF IInv

\* A way out without error handler.
LEMMA PostHookFailsInv ==
    ASSUME IInv, NEW r \in Requests, PostHookFails(r)
    PROVE  IInv'
<1>1. RetryPlugins' = RetryPlugins /\ MaxRetries(1)' = MaxRetries(1)
  BY SameLimits DEF PostHookFails
<1>2. TypeOK'
  BY <1>1 DEF IInv, TypeOK, Places, PostHookFails, Goto, files, payload, time,
     counts
<1>3. CountInv'
  BY <1>1 DEF IInv, CountInv, Uncounted, Executing, PostHookFails, Goto, counts
<1>4. LimitInv'
  BY <1>1 DEF IInv, LimitInv, Uncounted, PostHookFails, Goto
<1>5. HandlerInv'
  BY DEF IInv, TypeOK, HandlerInv, Executing, PostHookFails, Goto, counts
<1>6. FilesInv'
  BY DEF IInv, FilesInv, PathOf, PathIn, ExecOf, Running, PostHookFails, Goto, files
<1> QED BY <1>2, <1>3, <1>4, <1>5, <1>6 DEF IInv

\* Counted, and no further attempt.
LEMMA LimitReachedInv ==
    ASSUME IInv, NEW r \in Requests, NEW i \in RetryPlugins, LimitReached(r, i)
    PROVE  IInv'
<1>1. /\ pc' \in [Requests -> Places]
      /\ retryMap' \in [Requests -> [RetryPlugins' -> 0..MaxAttempts]]
      /\ CountInv' /\ LimitInv' /\ HandlerInv' /\ FilesInv'
  BY AttemptCounted DEF LimitReached
<1>2. TypeOK'
  BY <1>1 DEF IInv, TypeOK, LimitReached, files, payload, time, counts
<1> QED BY <1>1, <1>2 DEF IInv

\* Counted, and no further attempt.
LEMMA RetryTemplateFailsInv ==
    ASSUME IInv, NEW r \in Requests, NEW i \in RetryPlugins, RetryTemplateFails(r, i)
    PROVE  IInv'
<1>1. /\ pc' \in [Requests -> Places]
      /\ retryMap' \in [Requests -> [RetryPlugins' -> 0..MaxAttempts]]
      /\ CountInv' /\ LimitInv' /\ HandlerInv' /\ FilesInv'
  BY AttemptCounted DEF RetryTemplateFails
<1>2. TypeOK'
  BY <1>1 DEF IInv, TypeOK, RetryTemplateFails, files, payload, time, counts
<1> QED BY <1>1, <1>2 DEF IInv

\* A further attempt, since the first plugin was within its limit.
LEMMA RetryWantedInv ==
    ASSUME IInv, NEW r \in Requests, NEW i \in RetryPlugins, RetryWanted(r, i)
    PROVE  IInv'
<1>1. /\ pc' \in [Requests -> Places]
      /\ retryMap' \in [Requests -> [RetryPlugins' -> 0..MaxAttempts]]
      /\ CountInv' /\ LimitInv' /\ HandlerInv' /\ FilesInv'
  BY AttemptCounted DEF RetryWanted
<1>2. TypeOK'
  BY <1>1 DEF IInv, TypeOK, RetryWanted, files, payload, time, counts
<1> QED BY <1>1, <1>2 DEF IInv

\* Counted, and no further attempt.
LEMMA NoRetryInv ==
    ASSUME IInv, NEW r \in Requests, NoRetry(r)
    PROVE  IInv'
<1>1. /\ pc' \in [Requests -> Places]
      /\ retryMap' \in [Requests -> [RetryPlugins' -> 0..MaxAttempts]]
      /\ CountInv' /\ LimitInv' /\ HandlerInv' /\ FilesInv'
  BY AttemptCounted DEF NoRetry
<1>2. TypeOK'
  BY <1>1 DEF IInv, TypeOK, NoRetry, files, payload, time, counts
<1> QED BY <1>1, <1>2 DEF IInv

\* The delay before the next attempt.
LEMMA SleepInv ==
    ASSUME IInv, NEW r \in Requests, Sleep(r)
    PROVE  IInv'
<1>1. RetryPlugins' = RetryPlugins /\ MaxRetries(1)' = MaxRetries(1)
  BY SameLimits DEF Sleep, core
<1>2. TypeOK'
  BY <1>1 DEF IInv, TypeOK, Places, Sleep, Goto, core, files, payload, counts
<1>3. CountInv'
  BY <1>1 DEF IInv, CountInv, Uncounted, Executing, Sleep, Goto, core, counts
<1>4. LimitInv'
  BY <1>1 DEF IInv, LimitInv, Uncounted, Executing, Sleep, Goto, core
<1>5. HandlerInv'
  BY DEF IInv, HandlerInv, Executing, Sleep, Goto, core, counts
<1>6. FilesInv'
  BY DEF IInv, FilesInv, PathOf, PathIn, ExecOf, Running, Sleep, Goto, core, files
<1> QED BY <1>2, <1>3, <1>4, <1>5, <1>6 DEF IInv

\* A failure that no error handler sees.
LEMMA FailWithoutHandlerInv ==
    ASSUME IInv, NEW r \in Requests, FailWithoutHandler(r)
    PROVE  IInv'
<1>1. RetryPlugins' = RetryPlugins /\ MaxRetries(1)' = MaxRetries(1)
  BY SameLimits DEF FailWithoutHandler
<1>2. TypeOK'
  BY <1>1 DEF IInv, TypeOK, Places, FailWithoutHandler, Goto, files, payload,
     time, counts
<1>3. CountInv'
  BY <1>1 DEF IInv, CountInv, Uncounted, Executing, FailWithoutHandler, Goto,
     counts
<1>4. LimitInv'
  BY <1>1 DEF IInv, LimitInv, Uncounted, Executing, FailWithoutHandler, Goto
<1>5. HandlerInv'
  BY DEF IInv, HandlerInv, FailWithoutHandler, Goto, counts
<1>6. FilesInv'
  BY DEF IInv, FilesInv, PathOf, PathIn, ExecOf, Running, FailWithoutHandler, Goto, files
<1> QED BY <1>2, <1>3, <1>4, <1>5, <1>6 DEF IInv

\* The error handler runs for the first time.
LEMMA BeginErrorHandlerInv ==
    ASSUME IInv, NEW r \in Requests, BeginErrorHandler(r)
    PROVE  IInv'
<1>1. RetryPlugins' = RetryPlugins /\ MaxRetries(1)' = MaxRetries(1)
  BY SameLimits DEF BeginErrorHandler, core
<1>2. TypeOK'
  BY <1>1 DEF IInv, TypeOK, Places, Keys, BeginErrorHandler, Goto, core, time
<1>3. CountInv'
  BY <1>1 DEF IInv, TypeOK, CountInv, Uncounted, BeginErrorHandler, Goto, core
<1>4. LimitInv'
  BY <1>1 DEF IInv, TypeOK, LimitInv, Uncounted, BeginErrorHandler, Goto, core
<1>5. HandlerInv'
  BY DEF IInv, TypeOK, HandlerInv, Executing, BeginErrorHandler, Goto, core
<1>6. FilesInv'
  BY DEF IInv, TypeOK, FilesInv, PathOf, PathIn, ExecOf, Running, BeginErrorHandler, Goto, core
<1> QED BY <1>2, <1>3, <1>4, <1>5, <1>6 DEF IInv

\* What the error handler saw is answered.
LEMMA EndErrorHandlerInv ==
    ASSUME IInv, NEW r \in Requests, EndErrorHandler(r)
    PROVE  IInv'
<1>1. RetryPlugins' = RetryPlugins /\ MaxRetries(1)' = MaxRetries(1)
  BY SameLimits DEF EndErrorHandler
<1>2. TypeOK'
  BY <1>1 DEF IInv, TypeOK, Places, Keys, EndErrorHandler, Goto, files, time,
     counts
<1>3. CountInv'
  BY <1>1 DEF IInv, CountInv, Uncounted, Executing, EndErrorHandler, Goto,
     counts
<1>4. LimitInv'
  BY <1>1 DEF IInv, LimitInv, Uncounted, Executing, EndErrorHandler, Goto
<1>5. HandlerInv'
  BY DEF IInv, TypeOK, HandlerInv, EndErrorHandler, Goto, counts
<1>6. FilesInv'
  BY DEF IInv, FilesInv, PathOf, PathIn, ExecOf, Running, EndErrorHandler, Goto, files
<1> QED BY <1>2, <1>3, <1>4, <1>5, <1>6 DEF IInv

\* There was no error.
LEMMA StoreSuccessInv ==
    ASSUME IInv, NEW r \in Requests, StoreSuccess(r)
    PROVE  IInv'
<1>1. RetryPlugins' = RetryPlugins /\ MaxRetries(1)' = MaxRetries(1)
  BY SameLimits DEF StoreSuccess, core
<1>2. TypeOK'
  BY <1>1 DEF IInv, TypeOK, Places, StoreSuccess, Goto, core, files, time,
     counts
<1>3. CountInv'
  BY <1>1 DEF IInv, CountInv, Uncounted, Executing, StoreSuccess, Goto, core,
     counts
<1>4. LimitInv'
  BY <1>1 DEF IInv, LimitInv, Uncounted, Executing, StoreSuccess, Goto, core
<1>5. HandlerInv'
  BY DEF IInv, HandlerInv, Executing, StoreSuccess, Goto, core, counts
<1>6. FilesInv'
  BY DEF IInv, FilesInv, PathOf, PathIn, ExecOf, Running, StoreSuccess, Goto, core, files
<1> QED BY <1>2, <1>3, <1>4, <1>5, <1>6 DEF IInv

\* There was no error.
LEMMA OutputPluginInv ==
    ASSUME IInv, NEW r \in Requests, NEW ok \in BOOLEAN, OutputPlugin(r, ok)
    PROVE  IInv'
<1>1. RetryPlugins' = RetryPlugins /\ MaxRetries(1)' = MaxRetries(1)
  BY SameLimits DEF OutputPlugin
<1>2. TypeOK'
  BY <1>1 DEF IInv, TypeOK, Places, OutputPlugin, Goto, files, payload, time,
     counts
<1>3. CountInv'
  BY <1>1 DEF IInv, CountInv, Uncounted, Executing, OutputPlugin, Goto, counts
<1>4. LimitInv'
  BY <1>1 DEF IInv, LimitInv, Uncounted, Executing, OutputPlugin, Goto
<1>5. HandlerInv'
  BY DEF IInv, TypeOK, HandlerInv, Executing, OutputPlugin, Goto, counts
<1>6. FilesInv'
  BY DEF IInv, FilesInv, PathOf, PathIn, ExecOf, Running, OutputPlugin, Goto, files
<1> QED BY <1>2, <1>3, <1>4, <1>5, <1>6 DEF IInv

\* There was no error.
LEMMA DefaultOutputInv ==
    ASSUME IInv, NEW r \in Requests, DefaultOutput(r)
    PROVE  IInv'
<1>1. RetryPlugins' = RetryPlugins /\ MaxRetries(1)' = MaxRetries(1)
  BY SameLimits DEF DefaultOutput
<1>2. TypeOK'
  BY <1>1 DEF IInv, TypeOK, Places, DefaultOutput, Goto, files, payload, time,
     counts
<1>3. CountInv'
  BY <1>1 DEF IInv, CountInv, Uncounted, Executing, DefaultOutput, Goto, counts
<1>4. LimitInv'
  BY <1>1 DEF IInv, LimitInv, Uncounted, Executing, DefaultOutput, Goto
<1>5. HandlerInv'
  BY DEF IInv, TypeOK, HandlerInv, Executing, DefaultOutput, Goto, counts
<1>6. FilesInv'
  BY DEF IInv, FilesInv, PathOf, PathIn, ExecOf, Running, DefaultOutput, Goto, files
<1> QED BY <1>2, <1>3, <1>4, <1>5, <1>6 DEF IInv

\* No other request has a file that is removed.
LEMMA UnwindInv ==
    ASSUME IInv, NEW r \in Requests, Unwind(r)
    PROVE  IInv'
<1>1. RetryPlugins' = RetryPlugins /\ MaxRetries(1)' = MaxRetries(1)
  BY SameLimits DEF Unwind, core
<1>2. \A q \in Requests : q # r => tracked[q] \subseteq disk \ tracked[r]
  <2> SUFFICES ASSUME NEW q \in Requests, q # r, NEW p \in tracked[q]
               PROVE  p \in disk /\ p \notin tracked[r]
    OBVIOUS
  <2>1. p.request = q /\ \A x \in tracked[r] : x.request = r
    BY DEF IInv, FilesInv
  <2> QED BY <2>1 DEF IInv, TypeOK
<1>3. disk' \subseteq disk /\ disk \ tracked[r] \subseteq disk'
  <2>1. PICK failing \in SUBSET tracked[r] :
            disk' = disk \ (tracked[r] \ failing)
    BY DEF Unwind
  <2> QED BY <2>1
<1>8. tracked' \in [Requests -> SUBSET disk']
  <2>1. tracked' = [tracked EXCEPT ![r] = {}]
    BY DEF Unwind
  <2> QED BY <1>2, <1>3, <2>1 DEF IInv, TypeOK
<1>9. TypeOK'
  BY <1>1, <1>3, <1>8 DEF IInv, TypeOK, Places, Unwind, Goto, core, payload, time, counts
<1>4. CountInv'
  BY <1>1 DEF IInv, CountInv, Uncounted, Executing, Unwind, Goto, core, counts
<1>5. LimitInv'
  BY <1>1 DEF IInv, LimitInv, Uncounted, Executing, Unwind, Goto, core
<1>6. HandlerInv'
  BY DEF IInv, HandlerInv, Unwind, Goto, core, counts
<1>7. FilesInv'
  BY DEF IInv, FilesInv, PathOf, PathIn, ExecOf, Running, Unwind, Goto, core
<1> QED BY <1>9, <1>4, <1>5, <1>6, <1>7 DEF IInv

\* No step, and no stuttering, leaves the invariant.
LEMMA StepInv == IInv /\ [Next]_vars => IInv'
<1> SUFFICES ASSUME IInv, [Next]_vars PROVE IInv'
  OBVIOUS
<1>1. CASE UNCHANGED vars
  <2>1. TypeOK' /\ CountInv' /\ LimitInv'
    BY <1>1 DEF vars, IInv, TypeOK, CountInv, LimitInv, Uncounted,
       RetryPlugins, MaxRetries
  <2>2. HandlerInv' /\ FilesInv'
    BY <1>1 DEF vars, IInv, HandlerInv, FilesInv, PathOf, PathIn, ExecOf, Running
  <2> QED BY <2>1, <2>2 DEF IInv
<1>2. ASSUME NEW r \in Requests, Refuse(r) \/ \E k \in {"run", "preview"} : Accept(r, k)
      PROVE  IInv'
  BY <1>2, RefuseInv, AcceptInv
<1>3. ASSUME NEW r \in Requests, Clone(r) \/ PostHooks(r) \/ PostHookFails(r)
      PROVE  IInv'
  BY <1>3, CloneInv, PostHooksInv, PostHookFailsInv
<1>4. ASSUME NEW r \in Requests, Exec(r) PROVE IInv'
  BY <1>4, PreHookFailsInv, TriggeredInv, TriggerEndsInv, WriteFileInv,
     FilesFailInv, FilesDoneInv, RenderFailsInv, RenderInv, RunCommandInv DEF Exec
<1>5. ASSUME NEW r \in Requests, Retry(r) PROVE IInv'
  BY <1>5, LimitReachedInv, RetryTemplateFailsInv, RetryWantedInv, NoRetryInv,
     SleepInv DEF Retry
<1>6. ASSUME NEW r \in Requests, Settle(r) PROVE IInv'
  BY <1>6, FailWithoutHandlerInv, BeginErrorHandlerInv, EndErrorHandlerInv,
     StoreSuccessInv, OutputPluginInv, DefaultOutputInv, UnwindInv DEF Settle
<1> QED BY <1>1, <1>2, <1>3, <1>4, <1>5, <1>6 DEF Next, Handle

\* The invariant holds in every reachable state.
THEOREM Invariance == Spec => []IInv
BY InitInv, StepInv, PTL DEF Spec
-----------------------------------------------------------------------------
(* What follows from it.                                                   *)

\* Every variable keeps its type in every reachable state.
THEOREM TypeCorrect == Spec => []TypeOK
<1>1. IInv => TypeOK
  BY DEF IInv
<1> QED BY <1>1, Invariance, PTL

\* A retry plugin may be asked again: it has not found its limit used up.
Open(r) == pc[r] \in {"new", "clone", "sleep"} \/ Uncounted(r)

\* What AttemptsAreBounded says of all plugins, and that those which may be asked
\* again are within their limits.
OwnLimitsOf(r) ==
    /\ \A i \in RetryPlugins : MaxRetries(i) # None =>
        /\ retryMap[r][i] <= MaxRetries(i) + 1
        /\ Open(r) => retryMap[r][i] <= MaxRetries(i)
    /\ errCommand[r] = "limit" => \E i \in RetryPlugins : LimitUsedUp(r, i)

OwnLimitsInv == \A r \in Requests : OwnLimitsOf(r)

\* The limits, and what the steps of r leave of the others.
OthersLimitsKept(r) ==
    /\ UNCHANGED conf
    /\ \A q \in Requests \ {r} :
        /\ pc'[q] = pc[q] /\ mode'[q] = mode[q] /\ attempt'[q] = attempt[q]
        /\ retryMap'[q] = retryMap[q] /\ errCommand'[q] = errCommand[q]
        /\ elapsed'[q] = elapsed[q]

LEMMA OwnLimitsByRequest ==
    ASSUME OwnLimitsInv, NEW r \in Requests, OthersLimitsKept(r), OwnLimitsOf(r)'
    PROVE  OwnLimitsInv'
<1> SUFFICES ASSUME NEW q \in Requests \ {r} PROVE OwnLimitsOf(q)'
  BY DEF OwnLimitsInv
<1>1. OwnLimitsOf(q)
  BY DEF OwnLimitsInv
<1>2. RetryPlugins' = RetryPlugins /\ \A i : MaxRetries(i)' = MaxRetries(i)
  BY DEF OthersLimitsKept, RetryPlugins, MaxRetries
<1>3. Open(q)' = Open(q)
  BY DEF OthersLimitsKept, Open, Uncounted
<1>4. \A i : LimitUsedUp(q, i)' = LimitUsedUp(q, i)
  BY <1>2 DEF OthersLimitsKept, LimitUsedUp
<1> QED BY <1>1, <1>2, <1>3, <1>4 DEF OwnLimitsOf, OthersLimitsKept

\* A step that asks no retry plugin.
Unasked(r) ==
    /\ UNCHANGED retryMap
    /\ Open(r)' => Open(r)
    /\ errCommand'[r] = "limit" =>
        errCommand[r] = "limit" /\ attempt'[r] = attempt[r] /\ elapsed'[r] >= elapsed[r]

LEMMA UnaskedLimits ==
    ASSUME TypeOK, OwnLimitsInv, NEW r \in Requests, OthersLimitsKept(r), Unasked(r),
           elapsed'[r] \in Nat
    PROVE  OwnLimitsInv'
<1>1. OwnLimitsOf(r)
  BY DEF OwnLimitsInv
<1>2. RetryPlugins' = RetryPlugins /\ \A i : MaxRetries(i)' = MaxRetries(i)
  BY DEF OthersLimitsKept, RetryPlugins, MaxRetries
<1>3. ASSUME errCommand'[r] = "limit" PROVE \E i \in RetryPlugins : LimitUsedUp(r, i)'
  <2>1. PICK i \in RetryPlugins : LimitUsedUp(r, i)
    BY <1>1, <1>3 DEF OwnLimitsOf, Unasked
  <2>2. conf.retries[i].maxElapsed \in Nat \cup {None}
    BY LimitsType DEF TypeOK
  <2>3. LimitUsedUp(r, i)'
    BY <1>2, <1>3, <2>1, <2>2 DEF LimitUsedUp, Unasked, OthersLimitsKept, TypeOK
  <2> QED BY <2>3
<1>4. OwnLimitsOf(r)'
  BY <1>1, <1>2, <1>3 DEF OwnLimitsOf, Unasked
<1> QED BY <1>4, OwnLimitsByRequest

\* A step that asks the plugins up to i, of which those before i are within their limits.
LEMMA AskedLimits ==
    ASSUME IInv, OwnLimitsInv, NEW r \in Requests, OthersLimitsKept(r), UNCHANGED attempt,
           NEW i \in RetryPlugins \cup {Len(conf.retries) + 1}, Reached(r, i),
           \/ pc'[r] = "settle"
           \/ pc'[r] = "sleep" /\ i \in RetryPlugins /\ WithinLimits(r, i),
           \/ errCommand'[r] # "limit"
           \/ errCommand'[r] = errCommand[r] /\ UNCHANGED elapsed
           \/ i \in RetryPlugins /\ ~WithinLimits(r, i) /\ UNCHANGED elapsed
    PROVE  OwnLimitsInv'
<1>0. OwnLimitsOf(r)
  BY DEF OwnLimitsInv
<1>1. mode[r] = "main" /\ pc[r] = "retry" /\ Uncounted(r)
  BY DEF IInv, TypeOK, HandlerInv, Reached, Uncounted, Executing
<1>2. RetryPlugins' = RetryPlugins /\ \A j : MaxRetries(j)' = MaxRetries(j)
  BY DEF OthersLimitsKept, RetryPlugins, MaxRetries
<1>3. /\ Len(conf.retries) \in Nat /\ RetryPlugins = 1..Len(conf.retries)
      /\ \A j \in RetryPlugins : MaxRetries(j) \in Nat \cup {None}
  BY LimitsType DEF IInv, TypeOK
<1>4. i \in Int
  BY <1>3
<1>5. \A j \in RetryPlugins : retryMap'[r][j] = CountedUpTo(r, i)[j]
  BY DEF IInv, TypeOK, Reached
<1>6. \A j \in RetryPlugins :
        retryMap[r][j] \in Nat /\ attempt[r] \in Nat /\ retryMap[r][j] < attempt[r]
  BY <1>1 DEF IInv, TypeOK, CountInv
<1>7. ASSUME NEW j \in RetryPlugins, MaxRetries(j) # None
      PROVE  /\ retryMap'[r][j] <= MaxRetries(j) + 1
             /\ Open(r)' => retryMap'[r][j] <= MaxRetries(j)
  <2>1. MaxRetries(j) \in Nat /\ retryMap[r][j] \in Nat
    BY <1>3, <1>6, <1>7
  <2>2. retryMap[r][j] <= MaxRetries(j)
    BY <1>0, <1>1, <1>7 DEF OwnLimitsOf, Open
  <2>3. retryMap'[r][j] = retryMap[r][j] + IF j <= i THEN 1 ELSE 0
    BY <1>5 DEF CountedUpTo
  <2>4. retryMap'[r][j] <= MaxRetries(j) + 1
    BY <2>1, <2>2, <2>3
  <2>5. ASSUME Open(r)' PROVE retryMap'[r][j] <= MaxRetries(j)
    <3>1. pc'[r] = "sleep" /\ i \in RetryPlugins /\ WithinLimits(r, i)
      BY <2>5 DEF Open, Uncounted, Executing
    <3>2. j < i => WithinLimits(r, j)
      BY DEF Reached
    <3>3. CASE j > i
      BY <1>3, <2>1, <2>2, <2>3, <3>1, <3>3
    <3>4. CASE j <= i
      <4>1. WithinLimits(r, j)
        BY <1>3, <3>1, <3>2, <3>4
      <4>2. CountedUpTo(r, j)[j] = CountedUpTo(r, i)[j]
        BY <1>3, <3>1, <3>4 DEF CountedUpTo
      <4> QED BY <1>5, <1>7, <4>1, <4>2 DEF WithinLimits
    <3> QED BY <1>3, <3>1, <3>3, <3>4
  <2> QED BY <2>4, <2>5
<1>8. ASSUME errCommand'[r] = "limit" PROVE \E j \in RetryPlugins : LimitUsedUp(r, j)'
  <2>1. \A j \in RetryPlugins : LimitUsedUp(r, j) => LimitUsedUp(r, j)'
    BY <1>2, <1>8 DEF LimitUsedUp, OthersLimitsKept
  <2>2. CASE errCommand[r] = "limit"
    BY <1>0, <2>1, <2>2 DEF OwnLimitsOf
  <2>3. CASE i \in RetryPlugins /\ ~WithinLimits(r, i)
    <3>1. CountedUpTo(r, i)[i] = retryMap[r][i] + 1
      BY <1>3, <2>3 DEF CountedUpTo
    <3>2. CASE MaxRetries(i) # None /\ ~(CountedUpTo(r, i)[i] <= MaxRetries(i))
      <4>1. attempt[r] > MaxRetries(i)
        BY <1>3, <1>6, <2>3, <3>1, <3>2
      <4> QED BY <2>1, <2>3, <3>2, <4>1 DEF LimitUsedUp
    <3>3. CASE conf.retries[i].maxElapsed # None /\ ~(elapsed[r] <= conf.retries[i].maxElapsed)
      <4>1. conf.retries[i].maxElapsed \in Nat
        BY <2>3, <3>3, LimitsType DEF IInv, TypeOK
      <4>2. elapsed[r] > conf.retries[i].maxElapsed
        BY <3>3, <4>1 DEF IInv, TypeOK
      <4> QED BY <2>1, <2>3, <3>3, <4>2 DEF LimitUsedUp
    <3> QED BY <2>3, <3>2, <3>3 DEF WithinLimits
  <2> QED BY <1>8, <2>2, <2>3
<1>9. OwnLimitsOf(r)'
  BY <1>2, <1>7, <1>8 DEF OwnLimitsOf
<1> QED BY <1>9, OwnLimitsByRequest

\* An execution that ends asks no retry plugin; only a command takes time.
LEMMA ExecEndsLimits ==
    ASSUME IInv, IInv', OwnLimitsInv, NEW r \in Requests, NEW err \in BOOLEAN,
           ExecEnds(r, err), pc[r] \in Executing,
           UNCHANGED <<conf, mode, attempt, retryMap>>,
           \/ UNCHANGED elapsed
           \/ \E d \in Durations : elapsed' = [elapsed EXCEPT ![r] = @ + d]
    PROVE  OwnLimitsInv'
<1>1. /\ \A q \in Requests \ {r} : pc'[q] = pc[q] /\ errCommand'[q] = errCommand[q]
      /\ pc'[r] \in {"done", "hooks", "handled"} /\ (pc'[r] = "hooks" => mode[r] = "main")
      /\ errCommand'[r] = errCommand[r] \/ errCommand'[r] \in {"exec", "none"}
  BY DEF IInv, TypeOK, ExecEnds, Goto
<1>2. /\ elapsed'[r] >= elapsed[r] /\ elapsed'[r] \in Nat
      /\ \A q \in Requests \ {r} : elapsed'[q] = elapsed[q]
  BY ConstantsAssumption DEF IInv, TypeOK
<1>3. OthersLimitsKept(r) /\ Unasked(r)
  BY <1>1, <1>2 DEF OthersLimitsKept, Unasked, Open, Uncounted, Executing
<1> QED BY <1>2, <1>3, UnaskedLimits DEF IInv

\* An execution that goes on.
LEMMA ExecutingLimits ==
    ASSUME TypeOK, OwnLimitsInv, NEW r \in Requests, NEW place, Goto(r, place),
           pc[r] \in Executing \cup {"hooks"}, place \in Executing \cup {"retry"},
           UNCHANGED <<conf, mode, attempt, retryMap, errCommand, elapsed>>
    PROVE  OwnLimitsInv'
<1>1. pc'[r] = place /\ \A q \in Requests \ {r} : pc'[q] = pc[q]
  BY DEF TypeOK, Goto
<1>2. Open(r)' => Open(r)
  BY <1>1 DEF Open, Uncounted, Executing
<1>3. elapsed'[r] >= elapsed[r] /\ elapsed'[r] \in Nat
  BY DEF TypeOK
<1>4. OthersLimitsKept(r) /\ Unasked(r)
  BY <1>1, <1>2, <1>3 DEF OthersLimitsKept, Unasked
<1> QED BY <1>3, <1>4, UnaskedLimits

LEMMA OwnLimitsStep == IInv /\ IInv' /\ OwnLimitsInv /\ [Next]_vars => OwnLimitsInv'
<1> SUFFICES ASSUME IInv, IInv', OwnLimitsInv, [Next]_vars PROVE OwnLimitsInv'
  OBVIOUS
<1>0. TypeOK /\ TypeOK'
  BY DEF IInv
<1>1. CASE UNCHANGED vars
  BY <1>1 DEF vars, OwnLimitsInv, OwnLimitsOf, RetryPlugins, MaxRetries, Open, Uncounted,
     LimitUsedUp
<1>2. ASSUME NEW r \in Requests, OthersLimitsKept(r), UNCHANGED retryMap, elapsed'[r] >= elapsed[r],
             errCommand'[r] = "limit" => errCommand[r] = "limit" /\ attempt'[r] = attempt[r],
             Open(r)' => Open(r)
      PROVE  OwnLimitsInv'
  BY <1>0, <1>2, UnaskedLimits DEF Unasked, TypeOK
<1>3. ASSUME NEW r \in Requests,
             Refuse(r) \/ (\E k \in {"run", "preview"} : Accept(r, k)) \/ Clone(r)
                \/ PostHooks(r) \/ PostHookFails(r)
      PROVE  OwnLimitsInv'
  <2> USE DEF TypeOK, core, time, Goto, Open, Uncounted, Executing, OthersLimitsKept
  <2>1. CASE Refuse(r)
    BY <1>0, <1>2, <2>1 DEF Refuse
  <2>2. CASE \E k \in {"run", "preview"} : Accept(r, k)
    BY <1>0, <1>2, <2>2 DEF Accept
  <2>3. CASE Clone(r)
    <3>1. OthersLimitsKept(r) /\ Unasked(r) /\ elapsed'[r] \in Nat
      BY <1>0, <2>3 DEF Clone, Unasked
    <3> QED BY <1>0, <3>1, UnaskedLimits
  <2>4. CASE PostHooks(r)
    BY <1>0, <2>4, ExecutingLimits DEF PostHooks
  <2>5. CASE PostHookFails(r)
    BY <1>0, <1>2, <2>5 DEF PostHookFails
  <2> QED BY <1>3, <2>1, <2>2, <2>3, <2>4, <2>5
<1>4. ASSUME NEW r \in Requests, Exec(r) PROVE OwnLimitsInv'
  <2>1. ASSUME PreHookFails(r) \/ FilesFail(r) \/ RenderFails(r) PROVE OwnLimitsInv'
    BY <2>1, ExecEndsLimits DEF PreHookFails, FilesFail, RenderFails, Executing, time
  <2>2. ASSUME NEW err \in BOOLEAN, TriggerEnds(r, err) PROVE OwnLimitsInv'
    BY <2>2, ExecEndsLimits DEF TriggerEnds, Executing, time
  <2>3. ASSUME NEW ok \in BOOLEAN, NEW d \in Durations, RunCommand(r, ok, d) PROVE OwnLimitsInv'
    BY <2>3, ExecEndsLimits DEF RunCommand, Executing
  <2>4. CASE Render(r)
    <3>1. CASE kind[r] = "preview"
      BY <2>4, <3>1, ExecEndsLimits DEF Render, Executing, time
    <3>2. CASE kind[r] # "preview"
      BY <1>0, <2>4, <3>2, ExecutingLimits DEF Render, time, Executing
    <3> QED BY <3>1, <3>2
  <2>5. CASE Triggered(r)
    BY <1>0, <2>5, ExecutingLimits DEF Triggered, core, time, Executing
  <2>6. ASSUME NEW f \in Files, WriteFile(r, f) PROVE OwnLimitsInv'
    BY <1>0, <1>2, <2>6 DEF WriteFile, TypeOK, core, time, Open, Uncounted, OthersLimitsKept
  <2>7. CASE FilesDone(r)
    BY <1>0, <2>7, ExecutingLimits DEF FilesDone, core, time, Executing
  <2> QED BY <1>4, <2>1, <2>2, <2>3, <2>4, <2>5, <2>6, <2>7 DEF Exec
<1>5. ASSUME NEW r \in Requests, Retry(r) PROVE OwnLimitsInv'
  <2> USE DEF TypeOK, time
  <2>0. ASSUME NEW i, Reached(r, i),
               UNCHANGED <<conf, mode, attempt, elapsed>>,
               \A q \in Requests \ {r} : pc'[q] = pc[q] /\ errCommand'[q] = errCommand[q]
        PROVE  OthersLimitsKept(r)
    BY <1>0, <2>0 DEF Reached, OthersLimitsKept
  <2>1. ASSUME NEW i \in RetryPlugins, LimitReached(r, i) PROVE OwnLimitsInv'
    <3>1. /\ pc'[r] = "settle" /\ Reached(r, i) /\ ~WithinLimits(r, i)
          /\ UNCHANGED <<conf, mode, attempt, elapsed>>
          /\ \A q \in Requests \ {r} : pc'[q] = pc[q] /\ errCommand'[q] = errCommand[q]
      BY <1>0, <2>1 DEF LimitReached, Goto
    <3> QED BY <2>0, <3>1, AskedLimits
  <2>2. ASSUME NEW i \in RetryPlugins, RetryTemplateFails(r, i) PROVE OwnLimitsInv'
    <3>1. /\ pc'[r] = "settle" /\ Reached(r, i) /\ errCommand'[r] = "template"
          /\ UNCHANGED <<conf, mode, attempt, elapsed>>
          /\ \A q \in Requests \ {r} : pc'[q] = pc[q] /\ errCommand'[q] = errCommand[q]
      BY <1>0, <2>2 DEF RetryTemplateFails, Goto
    <3> QED BY <2>0, <3>1, AskedLimits
  <2>3. ASSUME NEW i \in RetryPlugins, RetryWanted(r, i) PROVE OwnLimitsInv'
    <3>1. /\ pc'[r] = "sleep" /\ Reached(r, i) /\ WithinLimits(r, i)
          /\ UNCHANGED <<conf, mode, attempt, elapsed, errCommand>>
          /\ \A q \in Requests \ {r} : pc'[q] = pc[q]
      BY <1>0, <2>3 DEF RetryWanted, Goto
    <3> QED BY <2>0, <3>1, AskedLimits
  <2>4. CASE NoRetry(r)
    <3>1. /\ pc'[r] = "settle" /\ Reached(r, Len(conf.retries) + 1)
          /\ UNCHANGED <<conf, mode, attempt, elapsed, errCommand>>
          /\ \A q \in Requests \ {r} : pc'[q] = pc[q]
      BY <1>0, <2>4 DEF NoRetry, Goto
    <3> QED BY <2>0, <3>1, AskedLimits
  <2>5. CASE Sleep(r)
    BY <1>0, <1>2, <2>5 DEF Sleep, core, Goto, Open, Uncounted, Executing, OthersLimitsKept
  <2> QED BY <1>5, <2>1, <2>2, <2>3, <2>4, <2>5 DEF Retry
<1>6. ASSUME NEW r \in Requests, Settle(r) PROVE OwnLimitsInv'
  <2> USE DEF TypeOK, core, time, Goto, Open, Uncounted, Executing, OthersLimitsKept
  <2>1. CASE FailWithoutHandler(r)
    BY <1>0, <1>2, <2>1 DEF FailWithoutHandler
  <2>2. CASE BeginErrorHandler(r)
    BY <1>0, <1>2, <2>2 DEF BeginErrorHandler
  <2>3. CASE EndErrorHandler(r)
    BY <1>0, <1>2, <2>3 DEF EndErrorHandler
  <2>4. CASE StoreSuccess(r)
    BY <1>0, <1>2, <2>4 DEF StoreSuccess
  <2>5. CASE \E ok \in BOOLEAN : OutputPlugin(r, ok)
    BY <1>0, <1>2, <2>5 DEF OutputPlugin
  <2>6. CASE DefaultOutput(r)
    BY <1>0, <1>2, <2>6 DEF DefaultOutput
  <2>7. CASE Unwind(r)
    BY <1>0, <1>2, <2>7 DEF Unwind
  <2> QED BY <1>6, <2>1, <2>2, <2>3, <2>4, <2>5, <2>6, <2>7 DEF Settle
<1> QED BY <1>1, <1>3, <1>4, <1>5, <1>6 DEF Next, Handle

\* The limit of the first retry plugin bounds the attempts of every request, each of
\* the others its own retries, and a limit that is reached is used up.
THEOREM AttemptsBounded == Spec => []AttemptsAreBounded
<1>1. Init => OwnLimitsInv
  <2> SUFFICES ASSUME Init PROVE OwnLimitsInv
    OBVIOUS
  <2>1. \A i \in RetryPlugins : MaxRetries(i) \in Nat \cup {None}
    BY LimitsType DEF Init
  <2>2. \A r \in Requests : \A i \in RetryPlugins : retryMap[r][i] = 0
    BY DEF Init, RetryPlugins
  <2>3. \A r \in Requests : errCommand[r] = "none"
    BY DEF Init
  <2>4. ASSUME NEW r \in Requests, NEW i \in RetryPlugins, MaxRetries(i) # None
        PROVE  retryMap[r][i] <= MaxRetries(i) + 1 /\ retryMap[r][i] <= MaxRetries(i)
    BY <2>1, <2>2, <2>4
  <2> QED BY <2>3, <2>4 DEF OwnLimitsInv, OwnLimitsOf
<1>2. IInv /\ OwnLimitsInv => AttemptsAreBounded
  BY DEF IInv, LimitInv, OwnLimitsInv, OwnLimitsOf, AttemptsAreBounded
<1> QED BY <1>1, <1>2, OwnLimitsStep, Invariance, PTL DEF Spec

\* The error handler runs once for a request that fails, and for no other.
THEOREM ErrorsHandledOnce == Spec => []ErrorHandledOnce
<1>1. ASSUME IInv, NEW r \in Requests PROVE handlerRuns[r] <= 1
  BY <1>1 DEF IInv, HandlerInv
<1>2. ASSUME IInv, NEW r \in Requests, pc[r] = "done", kind[r] = "run", conf.onError # None
      PROVE  handlerRuns[r] = 1 <=> answer[r] = "error"
  BY <1>2 DEF IInv, HandlerInv
<1>3. IInv => ErrorHandledOnce
  BY <1>1, <1>2 DEF ErrorHandledOnce
<1> QED BY <1>3, Invariance, PTL

\* The files of a running execution exist, whatever other requests do.
THEOREM FilesAreKept == Spec => []FilesOutliveTheirUse
<1>1. IInv => FilesOutliveTheirUse
  BY DEF IInv, TypeOK, FilesInv, FilesOutliveTheirUse
<1> QED BY <1>1, Invariance, PTL

\* No step removes a persistent file: Unwind is the only one that removes any,
\* and the cleanups know of temporary ones only.
THEOREM PersistentFilesAreKept == Spec => PersistentFilesStay
<1>1. IInv /\ [Next]_vars => [\A p \in disk : p.file.absolute => p \in disk']_vars
  <2> SUFFICES ASSUME IInv, Next PROVE \A p \in disk : p.file.absolute => p \in disk'
    OBVIOUS
  <2>1. PICK r \in Requests :
            Refuse(r) \/ (\E k \in {"run", "preview"} : Accept(r, k)) \/ Handle(r)
    BY DEF Next
  <2>2. CASE Refuse(r) \/ (\E k \in {"run", "preview"} : Accept(r, k)) \/ Clone(r)
             \/ PostHooks(r) \/ PostHookFails(r)
    BY <2>2 DEF Refuse, Accept, Clone, PostHooks, PostHookFails, files
  <2>3. CASE Exec(r)
    BY <2>3 DEF Exec, PreHookFails, Triggered, TriggerEnds, WriteFile,
       FilesFail, FilesDone, RenderFails, Render, RunCommand, files
  <2>4. CASE Retry(r)
    BY <2>4 DEF Retry, LimitReached, RetryTemplateFails, RetryWanted, NoRetry,
       Sleep, files
  <2>5. CASE Settle(r) /\ ~Unwind(r)
    BY <2>5 DEF Settle, FailWithoutHandler, BeginErrorHandler, EndErrorHandler,
       StoreSuccess, OutputPlugin, DefaultOutput, files
  <2>6. CASE Unwind(r)
    BY <2>6 DEF Unwind, IInv, FilesInv
  <2> QED BY <2>1, <2>2, <2>3, <2>4, <2>5, <2>6 DEF Handle
<1> QED BY <1>1, Invariance, PTL DEF Spec, PersistentFilesStay
=============================================================================
