# AIS-Server in TLA+

Models of the core of AIS-Server (`src/ais_server`), checked with TLC on small instances. Every property that needs
no fairness is also proved with TLAPS, for every value of the constants.

1. [Inventory](#1-inventory) – the program's parts, their state, how they interact, what is hard about them
2. [Modules](#2-modules) – which module stands for which code, and how
3. [Runs](#3-runs) – what TLC checks, on which instances, and what that shows
4. [Fairness](#4-fairness)
5. [Proofs](#5-proofs)
6. [Where code and words differ](#6-where-code-and-words-differ)
7. [What is not modelled](#7-what-is-not-modelled)
8. [Plan](#8-plan)

## 1. Inventory

AIS-Server runs on a Raspberry Pi. Receiver nodes open TCP connections and send NMEA sentences; the server throws
copies away, puts the rest in time order and forwards it to configured endpoints. A web application shows and edits
everything. It is one process with about a dozen threads that share objects under locks:

    node sockets --> connection threads --> NodeRegistry (who is connected, counters)
                          |
                          v   on_sentence(sentence, key, ts)
                       Deduper --> ReorderBuffer --> output thread --> ForwarderManager.dispatch
                                                                             |  put
                                                                  endpoint workers --> TCP / UDP / HTTP
    listener thread (accept)      sync thread (table -> workers)      netcheck, diskcheck, maintenance threads
    main thread: web application, then shutdown      every long-lived thread runs under a SupervisedThread

| part (source) | state it keeps | operations | what makes it correct |
|---|---|---|---|
| duplicate detector (`dedup.py`) | a TTL cache with LRU eviction, two counters | `check` by every connection thread | a sentence passes once per ttl unless crowded out; a copy is refused for no other reason |
| jitter buffer (`reorder.py`) | a heap, a sequence counter, a condition variable, counters | `push` by connection threads; `pop_ready`, `wait_next` by the output thread | nothing lost or counted twice; chronological but for late items; no wake-up lost |
| pipeline (`pipeline.py`) | the two above, rate statistics | `on_sentence`, `output_loop` | the composition still loses and repeats nothing |
| endpoint worker (`forwarder.py:47-228`) | a bounded queue, a stop event, a socket or an HTTP batch, counters | `put` by the output thread; the TCP, UDP and HTTP loops; `stop` | order; no loss without a trace; a stop is seen whatever the loop is doing |
| forwarder manager (`forwarder.py:235-342`) | the map from endpoint to worker, a lock | `sync` by the sync thread, `dispatch` by the output thread, `stop_all` by main | workers and table agree; the hot path is never blocked for good |
| node registry (`ingest.py:39-212`) | the map from key to `NodeInfo`; connection threads hold `NodeInfo` objects beside it | `on_session_start`, `set_source_id`, `touch`, `on_session_end`, `prune_inactive` | counters survive renaming; a node counts the sessions on it and stays while there are any |
| listener (`ingest.py:341-427`) | the socket, the list of handlers, a stop event | `serve_forever`, `stop` | `max_clients`; nobody is left waiting |
| supervisor, main (`supervisor.py`, `__main__.py`) | a flag, an event, the threads | restart with back-off; signals; shutdown order | what ends is started again; what should end ends |
| self checks (`netcheck.py`, `diskcheck.py`) | a failure counter, the interface; a state, a cached snapshot | probe, bounce through nmcli; sample, show | the box heals itself; the dashboard tells the truth |
| store (`db.py`) | the SQLite file and its write-ahead log, one connection under a lock | CRUD of endpoints and users, checkpoint, vacuum, close | edits survive; backups hold them |
| maintenance loop (`__main__.py:85-135`) | three times of last runs | checkpoint, vacuum, prune | each task on its own schedule |
| configuration (`config.py`) | a file, the secret key that cookies are signed with | load, atomic write of the key | a key once used stays, through kills and losses of power |
| event bus (`events.py`, `web/sockets.py`) | two bounded deques, subscribers, a lock | `publish` by handlers and workers, `recent` by requests | a subscriber that hangs holds up one thread only |
| accounts (`db.py:141-207`, `web/auth.py`, `web/api.py:181-193`) | the user's row, the browsers' cookies | sign in, change the password, the first user | the well-known password never comes back unforced; changes are authorised |
| archives (`web/api.py:196-256`) | files named by the second | save, list, sort, remove by overlapping requests | as many as configured stay, and they are the newest |
| command line client (`cli.py`) | a cookie in a file; what the operator has listed | list, add, enable, disable, delete | a late request hits nothing else; what is printed is true |
| Wi-Fi helpers (`wifi.py`) | none; the interface is shared with `netcheck` | connect, forget, scan | see self checks |
| pages, front end, tools (`web/views.py`, `web/static/`, `tools/`) | none | requests | – |

The hard behaviours, each listed with its line under `hazards` in `PROJECT.json`:

* *interleavings*: a sentence is stamped, checked, numbered and pushed in four critical sections; `put` takes three
  separate steps on a queue the worker uses; `dispatch` feeds workers listed before `sync` stopped them; sessions
  hold `NodeInfo` objects that other sessions rename;
* *stale values*: the cutoff of `pop_ready`, the table read before `sync` has the lock, the snapshot of a request, the row a
  password was checked against, the list of archives another request prunes, the id an operator read before the row was deleted;
* *crashes*: power lost between writing, syncing and renaming the key, after a commit, in the middle of a checkpoint;
* *partial failure*: a send that fails after the bytes are out, a `join` that raises in the middle of `sync`, a
  `setsockopt` that takes the listener down, an nmcli call that fails half-way through a bounce;
* *bounds*: the heap, the cache, the queues and `max_clients` at their limit;
* *progress*: lost notifications, a stop during a back-off, a wake-up token in a full queue, locks held over joins.

## 2. Modules

Words in capitals are actions, operators or constants of the modules. `PROJECT.json` has the lines of every definition.

| module | code | stands for |
|---|---|---|
| `ReorderBuffer` | `reorder.py`, `pipeline.py:99-108` | the heap as a set; `Enter`/`Commit` are the two halves of `push`; `ReadClock` … `PopDone` are `pop_ready`; `WaitNext`, `Timeout` are `wait_next`; `Take` is the output loop's use of a batch |
| `Dedup` | `dedup.py` | `Arrive` is the time stamp of the connection thread, `Hit`/`Miss` are `check` under its lock; `Live`, `Kept`, `LeastUsed` are what `check` relies on of cachetools |
| `Pipeline` | `pipeline.py:55-108` | extends `Dedup` by an instance of `ReorderBuffer`, joined by `pushing`: sentences found new and not yet numbered; `TimeOf` is the choice of the time stamp. `Latest`, `Window`, `Underway`, `Ranked`, `Waiting`, `Out` map it to `AisStream` |
| `AisStream` | – | the abstract promise: take in once per window unless `MaxEntries` others were heard since the last copy, forward when due, once, drop only when a queueful waits |
| `WorkerQueue` | `forwarder.py:47-80` | the queue; `put` as `PutFirst`, `PutDiscard`, `PutAgain`; `stop` as `StopFlag`, `StopWake` |
| `TcpWorker`, `UdpWorker`, `HttpWorker` | `forwarder.py:83-228` | the three loops, one action per blocking call, on an external network; a `setsockopt` that fails leaves the TCP loop with its new socket, a `socket()` that is refused ends a UDP worker before its loop |
| `EndpointWorker` | `forwarder.py:47-228` | a worker of one of the three protocols, chosen at `Init` as a worker's is at its creation, with its caller and its network; `Pending` (hand, batch, queue without tokens, put under way) maps it to `LossyFifo` |
| `LossyFifo` | – | the abstract promise of a worker: a subsequence in order, but for retries; a step loses a run of sentences or delivers some of the first |
| `ForwarderManager` | `forwarder.py:245-315`, `__main__.py:75-82` | `Sync…` are the steps of `sync` under its lock, `Dispatch…` those of `dispatch`; workers are alive or not, told to stop or not |
| `NodeRegistry` | `ingest.py:39-212, 257-335` | `objects` are the `NodeInfo`s, `nodes` the map; a session's thread runs `Read` (a line under any name or none), `JoinNamed`/`Rename`/`MakeNamed` or `Raise` (the four ways of `set_source_id`, the last its `KeyError`), `Touch`, `End`, one registry call each; `Prune` takes nodes of any age; `mixed` is a history of the nodes that sessions met on |
| `Server` | `ingest.py:341-427`, `supervisor.py:42-54`, `__main__.py:62-72, 216-233` | `serve_forever` call by call, with an `accept` that may fail on an open socket too, `Resume` of the supervisor, `Signal`, `WebEnds` and the steps of `ingest.stop` in main's `finally` |
| `Store` | `db.py`, `__main__.py:85-135`, `web/api.py:196-204` | the database as commits in a log and the pages of a file; `Begin`, `CopyPage`, `CheckpointEnds` are SQLite's checkpoint, `Edit` the requests that write, `WakeUp` … `Vacuum` the maintenance loop, `BeginArchive` … the copy of the file for a backup; `Crash` is a kill or a loss of power |
| `NetCheck` | `netcheck.py`, `wifi.py:100-119` | the thread, a step per probe and per nmcli call (`Disconnect`, `Connect`); `JoinNetwork`, `ForgetNetwork` are the requests that use the same interface meanwhile |
| `DiskCheck` | `diskcheck.py`, `web/api.py:281-292` | the thread; `snapshot` of the thread as a reading (`Sample`) and a storing (`StoreSample`), that of a request as three steps: the free space (`PageReads`), the state (`PageReadsState`), the storing (`PageStores`) |
| `SecretKey` | `config.py:76-121` | `WriteKey` and `Replace` are the two halves of the atomic write; `settled` is what the disk has for certain; `Kill` and `PowerLoss` strike at any step |
| `Accounts` | `db.py:141-207`, `web/auth.py`, `web/api.py:181-193` | `rows` is the history of the user's row, a prefix of which a loss of power leaves; a change is `AskChange`, `ReadRow`, `Check`, `SetPassword` |
| `Backups` | `web/api.py:207-256` | a request is `Begin`, `OpenFile`, `FinishFile`, `ListFiles`, `SortFiles`, one `Remove` per file, `Respond`; a file is its name, its `mtime` and who wrote it |
| `Feed` | `events.py`, `web/sockets.py`, `pipeline.py:90-94` | where each thread stands: waiting for the lock, inside it, in a callback that may never return |
| `Aisctl` | `cli.py`, `web/api.py:63-113`, `db.py:227-283` | the endpoints table with its ids; a command's `Send`, what the server makes of the request (`Add` … `Redirect`), and `TakeAnswer` or `TimeOut` |
| `Periphery` | `__main__.py:145-205, 229-230` | instances of the seven above; a behaviour follows one of them, since they share no state but the stop flag, which `Stop` sets |
| `ReorderBuffer_proofs`, `Pipeline_proofs` (with `Dedup`), `EndpointWorker_proofs`, `ForwarderManager_proofs`, `NodeRegistry_proofs`, `Server_proofs`, `Store_proofs`, `Periphery_proofs` | – | theorems, see section 5 |
| `MCReorderBuffer`, `MCDedup`, `MCPipeline`, `MCNodeRegistry` | – | constants of the instances TLC checks |

Every module also defines, right before the definition concerned, the mutated forms under which its properties must fail.

Abstractions:

* A sentence is a key (canonicalising and hashing make equal copies equal). Some keys tell their own time
  (`Intrinsic`), as type 4 and 11 reports do.
* Time is counted in ticks and does not step back. Durations that no property speaks of (back-offs, time-outs of
  sends, the two seconds between syncs, probe intervals) are left out: the step may simply happen later.
* A behaviour of `Periphery` leaves the parts it does not follow at their initial state: the product of the seven would show
  nothing that their sum does not. The endpoints table alone is shared with another module, `ForwarderManager`, for which any edit may come at any time.
* A condition variable wakes a waiter by notification or time-out. Its lock is a step's atomicity, except where
  code runs other steps under it: then it is a program counter (`popping`) or a variable (`lock`).
* Counters are modelled where they guard something or a property relates them to the state; histories
  (`released`, `accepted`, `received`, `lines`, `probes`, …) are marked so where they are declared.

## 3. Runs

| run | question | instance |
|---|---|---|
| `reorder` | is anything lost, late or out of order? | 2 pushes in flight, 3 in all, room for 2, hold 2, skews from past-due to now, a starvation of 1 tick |
| `dedup` | what passes twice, and what is refused? | 2 threads, 3 keys, room for 2, ttl 2, 5 calls, clock to 3 |
| `pipeline` | does the composition keep the promise of `AisStream`? | 2 threads, 2 keys, one of which tells a time in the past; a cache for 1 and a buffer for 1 |
| `endpoint_worker` | what reaches the endpoint, and does the worker stop? | each protocol, 4 sentences, a queue for 2, batches of 2, one fault |
| `manager` | do workers and table agree, and does everybody get on? | 2 endpoints in 2 versions or off, one edit, one crash, joins that may raise |
| `join_raises` | do edits take effect where `join` raises? *(no)* | 2 endpoints, one edit, no crash |
| `registry` | are nodes, lines and sessions accounted for? | 3 connections, two from one host, 2 names that any line may carry, 4 lines |
| `server` | is `max_clients` kept and everybody answered, and does the listener come back? | 4 connections, places for 2, two exceptions, any signal and shutdown |
| `signal` | does SIGTERM end the server? *(no)* | 2 connections, one place |
| `store` | what can a loss of power, or a backup, lack? | two pages, two edits and the VACUUMs, intervals 3, 7 and 2, a log that overflows at 2, one failure, one crash, a clock to 11 |
| `periphery` | is the interface bounced rightly, does the box heal, is the dashboard right in the end; what survives of key, password and archives; who waits for a hung subscriber; what does a late command hit? | a threshold of 3; free space 0 to 3 with marks at 2 and 3, two failed readings; 3 keys, two failures of the write; two browsers, two good passwords and the default one, three states of the row; two saving requests, three archives of which one is kept, two seconds, one fault; two publishers, one reader; one name, two rows, three commands, two of them unanswered, one end of all sessions |
| `bounce_abandoned` | is a failed bounce tried again? *(no)* | `Periphery` following `NetCheck` only; no host configured in the counterexample |

What the properties say:

* `reorder`. `Conservation`: pushed = popped + dropped + queued in every state, and the heap keeps to its size.
  `LateOnly`: if an item leaves after a newer one, it was pushed after that one had left and past its own hold time –
  the exact sense in which the stream is chronological. `BoundedLatency`: an item outstays the end of its hold time
  by no more than the ticks for which the output thread was kept from running; without the `notify` in `push` it
  would also wait for the thread's own time-out. `Drains`: no item stays for ever.
* `dedup`. `OncePerWindow`: if a sentence passes twice within ttl, at least `MaxEntries` others were looked up since
  its last copy. `RefusedInWindow`: a refusal lies within ttl of the acceptance whose time is returned, and that is
  the latest acceptance: copies never prolong a window.
* `pipeline`. `EachInOnePlace`: each accepted sentence is in the hands of its thread, or numbered, or in the heap, or
  released, and only there; those missing are the ones the buffer counts as dropped.  `KeepsStreamPromise`: `Pipeline` implements `AisStream`.
* `endpoint_worker`. `NoSilentLoss`: each sentence put is in one place, received, or in one of the sets of sentences
  given up, each of which one line of the code fills. What a stopped worker leaves on its queue, or in its batch, counts as waiting: the code drops
  it with the worker, uncounted, and no property says otherwise. `KeepsFifoPromise`: repeats and
  overtaking come from the TCP retry only; otherwise the endpoint gets a subsequence in order (`LossyFifo`).
  `OneSendAfterStop`, `EndsWhenStopped`: a stop is seen in any state of the loop, token or not, after at most one more
  send; a worker that was not stopped does not end unless its address, or its UDP socket, is unusable. `QueueDrains`: what waits is sent or given up.
* `manager`. `ActiveIsMapped`: a worker nobody has told to stop is the one the table of the manager has – no
  endpoint is fed by two, none runs out of reach. `OnlyEditedAreStopped`: an edit interrupts no other endpoint.
  `DispatchProceeds`: the lock that `sync` holds over its joins always comes free. `Converges`: once edits cease the
  workers are those of the table, unless `join` raises or the server stops; a crashed worker keeps its place only while its endpoint stays unedited.
* `registry`. `Filed`: each node is under its own key, once. `CountsSurviveUpgrades`: every line counted is still
  counted by a node or went with a pruned one. `ExactUntilNamed`: it counts exactly for hosts that never sent a tag block.
  `ExactWhileUnmixed`: of each single node the count is the number of open sessions that began with it, through all its renames, until the
  node is *mixed*: an open session goes by its key that began with another, or one that began with it goes by another key. `NodeStays`:
  until then no prune, whatever the age of the node, and no rename takes it from under a session that goes by it, so that no upgrade raises a
  `KeyError`, which would cut the connection. Of mixed nodes neither is true (section 6).
* `server`. `AtMostMaxClients`: the handlers that run never exceed `max_clients`, although the list of handlers is
  out of date between `start` and `append`, keeps ended handlers until the next reaping and survives restarts.
  `EveryClientAnswered`: a connection the kernel took gets a handler or an end, even when the listener falls over
  somebody else's. `ListensAgain`: whatever ended the listener, it accepts again while the process lives.
* `store`. `LosesOnlyRecent`: a loss of power takes no commit older than `CkptInterval + Wake`, once more for each checkpoint that
  failed, although the loop notes the time of a checkpoint that failed and its rounds need not fit the intervals. `ArchiveHasOld`:
  nor does a backup lack one that was as old when it was begun, although it copies the file without its log and without the lock.
  Both hold only until a signal ends the maintenance thread. One unit less in the bound, and TLC finds both violated.
* `periphery`, self checks. `BouncedOnlyWhenDead`: the interface goes down only after `fail_threshold` failed probes with no
  success and no other bounce among them. `Heals`: with a configured host and a saved network, a wedged or disconnected interface
  comes back, although requests join and forget networks between the two calls of a bounce. `ShownCatchesUp`: if the free space stays at a positive amount, the
  snapshot shown ends up with it and with the state that belongs to it, although the thread stores the state of the round before and a request may overwrite a newer snapshot.
* `periphery`, what lasts. `KeyKept`: a start uses the key of the start before; another one only after a loss of power before the file had
  settled, and a part of one only if the `fsync` had failed too. `DefaultOnlyWhileForced`: whatever states of the row a loss of power
  brings back, the password of the README is in force only together with `must_change_password`. `ChangeAuthorised`: what a
  change replaces is the password its requester typed, or one that another request set in the meantime. `AtMostKeep`, `NewestSurvive`: requests
  that overlap leave no more archives than configured, but for those that did not come to their pruning, and a finished archive stays until that many others
  were written since – as long as names and times tell archives apart.
* `periphery`, who waits for whom. `OthersGoOn`: a callback that never returns keeps the thread that called it, and nobody else.
  `HitsWhatItMeant`: a request that is served late, or given twice, changes or removes no row but the one its operator saw under that id
  (`AUTOINCREMENT` never gives an id again). `ToldIsDone`: "ok" is printed of what was done only, a refusal or an empty answer only of what was not done and will not be.

Why the bounds are enough. In every run the limits are below what the actors can offer, so each limit is reached: three
pushes into a heap for two, three keys into a cache for two and two into a cache for one, four sentences into a queue for two, four connections
for two places. Two threads are enough for every race on one lock or queue, since each operation takes it at most
twice; one fault per behaviour puts a fault at every step, and where recovery from it matters (`server`,
the probes and the key of `periphery`) there is a second one during the recovery. Clocks run past the longest window or hold time, so that
expiry and lateness both happen. Counts such as `MaxCalls`, `MaxPush`, `MaxLines`, `MaxTime` bound histories and appear
only in guards of the environment's actions. Deadlock is checked in every run; where the bounds or the system let everything
end, the module says so with a stuttering disjunct of its own.

## 4. Fairness

* Threads run: weak fairness of the output thread, of a worker's loop, of the rest of a `put`, of the sync thread, of
  the listener under its supervisor, of main's `finally`, of the self-check threads and of a snapshot in progress.
* Time goes on (`ReorderBuffer`): weak fairness of `Tick`.
* The manager's lock: strong fairness of `SyncLock` and `DispatchSnapshot`. A Python lock is not fair, but
  `sync` takes it once in two seconds and `dispatch` gives it back at once, so a waiter always gets it.
* The world: a TCP endpoint comes back some day (weak fairness of the link), a second passes between two HTTP flushes again and again
  (strong fairness of the flush), an nmcli connect tried again and again works some time (strong fairness).
* The bus: its lock is not denied to one thread for ever (strong fairness of `Acquire`), and who has it goes on (weak fairness of `Leave`). Nothing is assumed of a callback.
* Nothing else: connections, sentences, edits, signals, crashes, probes' failures and the end of the web application may happen or not.

## 5. Proofs

| theorem | says |
|---|---|
| `ReorderBuffer_proofs!TypeCorrect`, `NothingLost`, `ChronologicalUnlessLate`, `NoLateWakeUp` | `TypeOK`, `Conservation`, `LateOnly`, `BoundedLatency` are invariants of `ReorderBuffer` |
| `Pipeline_proofs!TypeCorrect`, `CacheBounded`, `AtMostOncePerWindow`, `RefusalsJustified` | `TypeOK`, `Bounded`, `OncePerWindow`, `RefusedInWindow` are invariants of `Dedup` |
| `Pipeline_proofs!DetectorInvariance`, `NothingLostOnTheWay` | what holds of `Dedup` holds of it as a part of `Pipeline`; `EachInOnePlace` is an invariant |
| `Pipeline_proofs!PromiseKept` | `Pipeline` implements `AisStream` |
| `EndpointWorker_proofs!NothingIsSilentlyLost`, `StopIsPrompt`, `LoopsUntilStopped` | `NoSilentLoss`, `OneSendAfterStop`, and the half of `EndsWhenStopped` that needs no fairness, for all three protocols |
| `EndpointWorker_proofs!FifoPromiseKept` | a worker of any protocol implements `LossyFifo` |
| `ForwarderManager_proofs!TypeCorrect`, `ActiveWorkersAreMapped`, `OthersRunOn` | `TypeOK`, `ActiveIsMapped`, `OnlyEditedAreStopped` |
| `NodeRegistry_proofs!TypeCorrect`, `NodesAreFiled`, `LinesStayCounted`, `UnnamedCountsExact`, `UnmixedCountsExact`, `UnmixedNodesStay` | `TypeOK`, `Filed`, `CountsSurviveUpgrades`, `ExactUntilNamed`, `ExactWhileUnmixed` are invariants of `NodeRegistry`, and its steps keep to `NodeStays` |
| `Server_proofs!TypeCorrect`, `ClientsBounded` | `TypeOK`, `AtMostMaxClients` are invariants of `Server` |
| `Store_proofs!TypeCorrect`, `ArchivesHaveOld`, `OldCommitsSurvive` | `TypeOK`, `ArchiveHasOld` are invariants of `Store`, and its steps keep to `LosesOnlyRecent` |
| `Periphery_proofs!OnlyDeadIsBounced`, `SessionsSurvive`, `DefaultIsForced`, `ChangesAreAuthorised`, `RequestsHitTheirRow`, `AnswersAreTrue`, `RetentionHolds`, `NewestArchivesSurvive` | `BouncedOnlyWhenDead`, `KeyKept`, `DefaultOnlyWhileForced`, `ChangeAuthorised`, `HitsWhatItMeant`, `ToldIsDone`, `AtMostKeep`, `NewestSurvive` |

The types of `Dedup` and of `Store` are proved and not checked by a run. `NodeRegistry`, `EndpointWorker` and the
parts of `Periphery` have their types in their proof modules: they are among what the other invariants rest on.

The theorems hold for any number of threads, keys, items, clients, endpoints, sessions, pages and requests and for any limits. The assumptions are those of the
modules: bounds are natural numbers; `MaxQueue`, `MaxEntries`, `TTL`, `MaxWait`, `Capacity`, `BatchMax`, `FailThreshold` and `Keep` are not 0 (with `max_queue` 0 the code
pops from an empty heap); skews and the times that sentences tell are integers; intervals may be 0 (never), waits between rounds of maintenance are not;
hosts and tags are not each other's names (a receiver that names itself after an address is left out), and no tag is empty; the default password is too short to be set.
None of the properties is inductive as it stands:

* *ReorderBuffer.* `FreshSeqs`: numbers given out are below the counter and pairwise different, in the heap, in
  flight and released – without it (ts, seq) would not be a total order. `HeapAfterReleased`: whatever is in the heap
  stands behind every released item it did not come too late for; popping the least item keeps this, and a push adds an
  item whose `after` excuses it from what has left. `ReleasedDue`: released items were due, so who comes after them is late.
  `ConsumerInv`: what the output thread knows at each program counter – its cutoff is not in the future, a sleeping thread's time-out
  is not after the end of hold of any item in the heap, which is where the `notify` is needed. `Accounting`: the heap is finite and the counters add up.
* *Dedup.* `Finite`: the cache is. `Numbered`: acceptances have distinct numbers, up to the calls so far.
  `CacheMatches`: an entry carries the time and the expiry of the last acceptance of its key. `UseOrder`: what was looked up
  since the last use of an entry has been used later. `Forgotten`: a key that was accepted within ttl and is out of the
  cache was crowded out by as many others as the cache holds; that rests on `UseOrder`, since eviction takes the least used.
* *Pipeline.* Its steps are steps or stutters of `Dedup` (`DetectorStep`), so the detector's invariant comes with them. `Apart`: the number an
  acceptance gave a sentence is in one place only, and once there; `Known`: each number in a place is that of one acceptance; `Flow`: the batch the output thread
  works off is the end of what was released, and due. From these the conservation of `EachInOnePlace` is a count of finite sets.
* *Pipeline implements AisStream.* The abstract sentence is a key, its time and how many acceptances came before it (`Ranked`); that a
  step changes no rank but adds one is a lemma on finite sets of numbers. Accepting maps to taking in, a step of the output thread to forwarding or to a stutter, a
  push into a full heap to taking away the least. A copy that is
  refused maps to `Copy`: its entry ends when the window does (`EntryIsWindow`, from `CacheMatches`). The guard of `TakeIn` needs the detector: within ttl the key
  is still in the cache, or by `Forgotten` others crowded it out, as many as the cache holds, and the stream has heard them too. Nothing is asked of
  the number of keys.
* *Endpoint workers.* `Held`: a worker has a sentence in hand exactly in the steps that send it or put it back, only HTTP has a batch, one `put` is under way at most.
  `LastSend`: after a stop a send is counted once, and what follows leads to the loop's test. `NoSilentLoss` is inductive with these; each step moves
  one sentence between two of its sets (`Accounted`), whatever the protocol.
* *Endpoint workers implement LossyFifo.* What a worker has pending is four sequences joined. `OnlySentences`, the queue without
  tokens, is a recursive function of the queue; that it commutes with taking the first (`OnlyOfTail`) and with adding a last (`OnlyOfAppend`) is proved by
  induction over the places of the queue, from the rule `Induct`, which follows from the well-foundedness of finite sets that the library proves.
  The rest is where each step cuts the line: `Delivers`, `Loses`, `PutsBack`, `SendsTwice`, `Accepts`.
* *ForwarderManager.* `Joining`: the endpoints a `sync` still has to stop, or joins, have workers, and those it joins have been told. `Unedited`: a worker whose endpoint
  was not edited since the table was read for it has the configuration of the table, and the `sync` under way has read the same, although it read
  before it had the lock – so it stops only those that were edited.
* *NodeRegistry.* `Keys`: a session goes by its host until one of that host was named. `Base` joins the types, `Keys`, `Filed` and the three counts that
  do not depend on `mixed`; counters are sums over nodes, and the lemmas say how a sum changes when one of its terms does. For the other two
  the history `mixed` covers `Mixed`, the nodes of which it makes a difference now whether a session is asked for its key or for the object it began with. Of any other node
  the sessions that go by it are those that began with it, so `Start` and `End` change its count and its users alike, and one that has users counts them and is
  not prunable. The other steps only move nodes to other keys or make some that nobody began with (`NodesKept`).
* *Server.* `Listed`: `_active` holds every handler that runs but the one between `start` and `append`. `Room`:
  `_active` keeps to `max_clients` and, from the count to the `append`, is below it. Only the listener adds to the
  list and only it reaps, so no other thread can take the place it has counted.
* *Store.* The promise is one of time, so the proof follows the commits that some page of the file lacks (`Missing`). `Young`: none is
  old yet – that is what both promises need, but the clock breaks it unless `AfterLast` bounds their age by the last try of a
  checkpoint and `Schedule` the time since that try: the next round is less than one interval and one wait after it. A try that fails
  adds as much to the bound as it takes. `Closed`: once the connection is closed tries fail without being counted, but `_STOP`
  is set and time is not followed. `Locked`: nobody commits while a checkpoint runs, so pages never get older, and `OldInFile` holds
  of an archive whose pages are copied one after the other.
* *Periphery.* A step of it is a step of the part it follows or leaves that part alone, so each part has an invariant of its own. `NetInv`: the last results are as
  many failures as the counter says. `KeyInv`: what a power loss leaves is settled, so no second one changes it. `AccountInv`: a request to change the
  password that has checked the row saw it as it is, or the row has been written since it asked (`Sincere`). `IdsInv`: an id stands for one row ever, in the table, on the operator's
  screen and in requests. `AnswersInv`: a request on its way is not carried out, and the one answer waited for is of a request that is not on its way.
  `CountInv`, `LaterInv`: a request that prunes leaves no more than `Keep` beyond what requests that opened a file after its listing add, as those still busy or ended without pruning.
  `SurviveInv`: unless names or times were muddled, times follow the order of writing, and what a request is about to remove has been followed by `Keep` others.

Only model-checked: everything under fairness (`Drains`, `QueueDrains`, `EndsWhenStopped` but for the half above, `DispatchProceeds`,
`Converges`, `EveryClientAnswered`, `ListensAgain`, `Heals`, `ShownCatchesUp`, `OthersGoOn`), since the prover has no rules for
`ENABLED`. The three properties of the violation runs fail and have no proof.

## 6. Where code and words differ

With a run that shows it:

* `join_raises` – `forwarder.py:57` hides `Thread._stop` behind an event. Where the interpreter's `join` calls that method for
  an ended thread (CPython up to 3.12), `join` raises, `sync` ends early, and an edited endpoint is never served again.
* `signal` – SIGTERM sets a flag that nothing on the way out of `socketio.run` looks at (`__main__.py:65, 216`). So does
  the SIGHUP of `systemctl reload`, which leaves a server without endpoint sync and without maintenance.
* `bounce_abandoned` – after a failed connect there is no default route, and the bounce is not repeated (`netcheck.py:125`).

Seen while modelling; the properties above state what does hold:

* `dedup.py:40` calls the returned time that of the *earliest* copy; it is that of the copy that got the lock first.
* `README.md:71` says "strict timestamp order" and `reorder.py:14` that items are held at most `hold_ms`; late items
  and base station reports with clocks that are behind leave at once, after later ones (`LateOnly`), and latency adds to the hold (`BoundedLatency`).
* `ingest.py:56` calls `active_sessions` the number of sessions "currently open"; a receiver that reconnects and is named again leaves
  a session behind on its host's node (`ingest.py:136`), which is then never pruned, and at its end takes one from the named node, where it was never added.
  `ExactUntilNamed` and `ExactWhileUnmixed` say how far the count is right.
* `ingest.py:191-192` says "Currently-connected nodes are always kept regardless of last_seen"; so is what counts sessions, but a node whose count the
  end of another host's session has taken, and an old one that a session has just joined (`set_source_id` neither counts the session nor renews
  `last_seen`), can be pruned, or is shown as disconnected, with sessions on it (`NodeStays` stops at the mixing).
* `ingest.py:137` says "just return it" of a session that already goes by the name; if its node was renamed by another session, or pruned, line 138
  raises a `KeyError` that ends the connection (`Raise`). It takes a node that several sessions are on, and two names on one connection or a prune.
* `ingest.py:134` says an upgrade preserves counters. It does, but when one of two sessions of a host is named, the other still goes by the
  key that is gone: until it sends a tag block other than the new name, `touch` finds no node and its lines are counted nowhere, or by the node of a session of that host that came later, and its end leaves the renamed node one session too many
  (`CountsSurviveUpgrades` is about the lines that found a node).
* `forwarder.py:145` re-queues a failed sentence "so we don't lose it"; if `put` has filled the queue meanwhile it is dropped
  (the set `lost` of `NoSilentLoss`). `forwarder.py:65` speaks of dropping the oldest; `put` may also give up the new one (`refused`).
* The TCP retry repeats and reorders sentences (`KeepsFifoPromise` allows it after a retry only).
* `README.md:464` speaks of threads that are restarted; an endpoint worker that crashed is not, as long as its configuration stays.
* `forwarder.py:3-5` says the hot path never blocks; `dispatch` waits while `sync` joins (`DispatchProceeds`: not for good).
* `diskcheck.py:201` takes a disk without one free byte for `ok`.
* `README.md:441` says a power loss can never leave a half-written key; it can if the `fsync` failed as well, which is passed over
  (`config.py:92-95`), and an empty or partial file is then the key of every later start (`KeyKept`).
* `events.py:3-4` says a slow subscriber can never back-pressure ingest; callbacks run in the thread that publishes, so one that hangs
  keeps its connection handler or worker (`OthersGoOn` states that it keeps no other).
* `README.md:19` says the change of the first password is forced; the pages ask for it (`views.py:10-17`), the commands of `aisctl` work without.
* Two changes of the password that overlap both succeed, and the second replaces a password its requester never typed (`ChangeAuthorised`).
* `api.py:208` keeps "the newest" archives; two of one second overwrite each other, one that is still being written counts, a file that
  disappears during the sort ends the pruning of that request, and after a step back of the clock the newest are pruned (`NewestSurvive`, `AtMostKeep`).
* `README.md:367` and `cli.py:72, 82` speak of "Not logged in"; who is not signed in is redirected to the login page with status 200 in the end, so `_post`
  prints an empty answer and the others fail to parse the page (`ToldIsDone`). By the same way `aisctl backup` saves the login page as
  archive and prints "Server-side copy also saved." (`cli.py:264-274`), also when the server could not write it (`api.py:252`).
* `ingest.py:282` says a lone CR is tolerated; nothing splits on it, and the buffer of such a sender grows.
* `wifi.py` splits the lines of `nmcli -t` at every colon; nmcli escapes those within a name.
* `README.md:340` speaks of a full backup; it holds the database file without its write-ahead log, so recent edits are missing
  (`ArchiveHasOld`), and pages of two states may stand side by side if a checkpoint runs during the copy.

## 7. What is not modelled

* The statistics of `on_sentence` and the counters only shown: they follow the push and feed nothing back. The bus they are published
  on is modelled (`Feed`), but apart from `Pipeline`: a handler in a callback is one that takes its time with the next sentence.
* Parsing (`nmea.py`), scans (`wifi.py`), the merge of the configuration with its defaults (`config.py`) and the tools: sequential and without
  state of their own.
* `last_seen` (`NodeRegistry`): a node may be of any age when the registry is pruned. `node_max_age` is configured apart from the idle time-out,
  naming a node does not renew it, and the clock may be set. Bytes and invalid lines are counted like valid ones and left out.
* Of the command line client: status, Wi-Fi, restart, reboot, backup and the test of an endpoint, which change none of the modelled state.
  Restart and reboot are the kills of the other modules.
* Of the web application: pages and requests that only read, templates and scripts.
* A loss of power in `Aisctl`: it may take back the last rows and with them the count of ids, so that an id is given again; `Store` says how much may be lost.
* The pauses of the supervisor and the watchdog, which pings systemd whatever the other threads do.
* Operating system, SQLite, cachetools, nmcli and the network are external: modelled by what the code needs of them.

## 8. Plan

Done, in order of weight: the hot path (`ReorderBuffer`, `Dedup`, `Pipeline`), delivery (`WorkerQueue` …
`EndpointWorker`), its management (`ForwarderManager`), the registry, the life cycle (`Server`), the store, the self checks, and beside
them the key, the account, the archives, the bus and the command line client (`Periphery`); the proofs of every invariant, action property
and refinement that the runs check.

Next:

1. The safety that the liveness properties rest on, as invariants of their own: what a `ForwarderManager` that has the lock waits for, that a server which
   will not accept any more has told every client, that a thread of `Feed` waits for the lock only.
2. Types of the parts of `Periphery` that are in no invariant yet (`DiskCheck`, `Feed`).
