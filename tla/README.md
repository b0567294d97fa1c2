# Verification of ReCpp

ReCpp is a C++ library of reactive streams: publishers, operators and subscribers that call each other
(namespaces `publishers`, `processors`, `subscribers`, `subscriptions`, with the facade `rx`), and the
schedulers they can be given (namespace `async`). These TLA+ modules model both halves. TLC checks
small instances; TLAPS proves what matters most for every number of threads and tasks, of operators and of publishers.

## The system

| Component | State | Operations | Hard because |
|---|---|---|---|
| Scheduler queue: `Scheduler`, `SchedulableQueue`, `Schedulable` | a time-ordered multimap, `m_stop`, a mutex for the data and one for the condition variable | `schedule` (three overloads), `push`, `pop`, `blockingPop`, `canPop`, `tryPop`, `stop`, `notifyAll`, `cancel` | the clock is read before the mutex is taken; `notify_one` comes without `m_cvMutex`; several threads pop |
| `ThreadPool`, `ThreadPoolWorker` | the workers, each with `m_stop` and a thread | constructor, `run`, `stop`, destructor | the thread starts before `m_stop` is initialised; wake-ups can be missed |
| `WorkerThread` | one thread and `m_stop` | constructor, `run`, `stop`, destructor | `stop()` may come from a task, from a client and again from the destructor |
| `EventLoop` | `m_stop` | `run`, `runFor`, `stop` | the time left is computed from clock values that are stale when they are used |
| Publishers and their subscriptions | `m_completed`, `m_canceled`, `m_current`, `m_requested`, `m_running` | `subscribe`, `request`, `cancel` | `request()` calls `onNext()`, which calls `request()` or `cancel()` on the same object |
| `FilterSubscription`, `ForwardSubscription` | two `size_t` counters; a handle | `request`, `cancel`, `onNext(filtered)` | what was dropped must be requested again, once |
| Linear processors (20) | a counter, a flag, a result, the subscription | `subscribe`, `onSubscribe`, `onNext`, `onError`, `onComplete` | operators that end early cancel from inside `onNext()`; `observeOn`, `delay` and `subscribeOn` move calls to another thread |
| `DefaultSubscriber` and the gates of `create()` | `m_remaining`, `m_subscription`; `m_ended` | the four signals | the unbounded request is renewed; user code runs inside |
| `AndThen`, `FlatMap`, `SwitchOnError` | running publishers, whether the source has ended or failed | as above, for a second publisher | the two publishers' signals pass through one object, and end in any order |
| `MergeSubscription`, `MergePublisher` | `m_subscriptions`, `m_currentIndex`, `m_remaining`, `m_requested`, the ends | `request`, `cancel`, `tryRequest`, the signals of the source and of each publisher | publishers end and remove themselves while the list is walked; publishers come late; a scheduler delays every signal |
| `rx` facade: `Observable`, `Single`, `Maybe`, `Completable` | none: it composes the parts above | factories and operators | the class of a result promises how many values it has |

The parts of a pipeline share no lock and no queue: each signal is a virtual call made from inside
another. The two halves meet in `Scheduler::schedule()`: `interval`, `observeOn`, `subscribeOn`,
`delay` and `merge` hand tasks to a scheduler, whose thread then makes the calls. What makes each part
correct: tasks are dispatched in time and arrival order, run once and never lost, and a destructor
ends; operators emit what they promise and all of it, end once, give exactly as much as was asked for, and keep
what the class of their result promises; merge loses, repeats and reorders nothing and serves its publishers in turn.

## Modules

**Schedulers**

- `SchedulableQueue` - the queue, the three `schedule()` overloads, the blocking pops and the condition
  variable. A critical section of `m_dataMutex` is one step; reading the clock is a step of its own
  wherever the code reads it before the mutex, so time points used under the mutex may be stale.
  `m_cvMutex` is a variable. `step[c]` and `pc[w]` say where a caller is in a call and a worker is in
  its loop. A task is the copy of a `Schedulable` that one `schedule()` call hands over.
- `RunLoop` - the loop of `ThreadPoolWorker::run`, `WorkerThread::run` and `EventLoop::run` and the
  promises of all three (`OneOwner`, `NoneLost`, `CallerOrder`, `DispatchesInOrder`), with the
  inductive invariant `LoopInv`.
- `ThreadPool`, `WorkerThread`, `EventLoop` - each scheduler with its life cycle, from its constructor
  to the end of its destructor (the event loop: `run`, `runFor` and `stop` by one host thread).
- `Dispatch` - the abstract specification: a priority dispatcher without threads, mutexes or wake-ups.
  `RunLoop!Promise` is its instance under the refinement mapping (`waiting` is the multimap, `slot` what
  the workers hold, `key` the time points, `rank` the order of insertion).
- `RunLoopProofs` - the lemmas all three share; `ThreadPoolProofs`, `WorkerThreadProofs`, `EventLoopProofs` - the theorems of each.

**Streams**

- `Signals` - how parts call each other. A pipeline is a source at position 0, operators at
  1 .. `Depth` and a subscriber above them. `agenda[t]` is the call stack of thread `t`, laid out as the
  calls still to be made, innermost first: a handler takes the first and puts the calls it makes in its
  place, with one to itself where it goes on afterwards. So a nested `request()` or `cancel()` sees the
  members as they are in the midst of the outer handler. `pending` holds the tasks of the scheduler,
  taken in the order `CallerOrder` and `DispatchesInOrder` establish for the schedulers.
- `Sources` - every publisher but merge, with its subscription, and the gates (`ObservableSubscriber`,
  `SingleSubscriber`, `MaybeSubscriber`, `CompletableSubscriber`) given to `create()`. One turn of the loop of
  `RangeSubscription::request()` is one step; the turns left are the argument of the call. The user's method
  may make any sequence of calls with the given values, all of them inside `subscribe()` or all of them after it has returned (`MethodWaits`),
  by one task or several that call the subscriber it was given.
- `Streams` - the stream a sequence of signals makes: its values and its end.
- `Subscribers` - `DefaultSubscriber` and the user behind it: closures that request and cancel, and calls between. A user who leaves
  the requests to the subscriber (`m_autoRequest`) cancels only.
- `Processors` - the 23 operators, `ForwardSubscription` and `FilterSubscription`. A record per operator
  has its members, under common names (`m_result` stands for `m_max`, `m_min` and `m_current` too, `m_flag` for
  `m_gotFalse`, `m_gotTrue`, `m_gotValues`, `m_delayError`, ...); one action per operator has its handlers.
  `flatMap`, `andThen` and `switchOnError` have a second publisher, their `branch`: a range with the subscription
  it hands out, or one that fails; subscribed at once, or on the loop of the same thread when all handlers have
  returned. `andThen` gives it the subscriber below, `switchOnError` itself, as in the code, behind a `ForwardSubscription` that forgets the
  range with the first `cancel()`.
- `Promises` - what each operator makes of a whole stream, as functions on sequences, written without
  regard to how the operators do it; `PipelinePromise` folds them over the chain.
- `Facade` - the classes of `rx`: which of them each factory and each method makes, and what each promises.
- `Pipeline` - the composition `Sources` + `Facade` (with `Promises` and `Processors`) + `Subscribers`, and the
  properties of a chain.
- `Merge` - `MergePublisher` and `MergeSubscription` with a source of publishers below, the publishers it emits, and
  `Subscribers` above. `merge` has the members of the C++ object; one turn of `tryRequest()`'s loop is a
  step, so that what its `request(1)` calls comes between two turns. With a scheduler each signal of a publisher is
  a task. `cancel()` walks the list and calls publishers whose completion erases them from it: undefined in C++, in
  the model any part of the rest of the walk may be skipped.
- `Interleave` - the abstract specification of a merge: take the next value of any publisher; complete when all have
  completed; or fail with one of them. `Merge!Promise` is its instance under the mapping (`output` is where each value the
  subscriber was given comes from).
- `SubscribersProofs` - the types and calls of the subscriber and its user, for a chain and for a merge; `PipelineProofs` -
  the theorems about a chain; `DemandProofs` - that a chain loses no demand; `MergeProofs` - the index of a merge, its types, its turns,
  and what it gives its subscriber.
- `MCPipeline`, `MCMerge`, `MCThreadPool`, `MCWorkerThread`, `MCEventLoop` - values and symmetry sets for TLC.

Operators under a comment "a mutant" (or "Mutant form") are not part of the specification: each is
a plausible wrong version of the definition after it, and shows that a property can fail.

## Runs

| Run (`.cfg`) | Checks | Shows |
|---|---|---|
| PoolSafety | `TypeOK` `OneOwner` `NoneLost` `CallerOrder` `SomeWorkerAwake` `DispatchesInOrder` | two workers race for two tasks of two clients until the pool is destroyed: none is lost, run twice or taken out of order, and a missed `notify_one` never leaves all workers asleep |
| PoolLiveness | `DueTaken` `DestructorEnds` | due tasks are taken, the destructor joins every thread |
| Worker | `TypeOK` `NeverWaits` `DispatchesInOrder` `DueTaken` `DestructorEnds` | the single consumer never waits in `blockingPop`, and ends, whether the owner, the running task or the destructor calls `stop()`, and also when the owner cancels a task |
| Loop | `TypeOK` `NoneLost` `DispatchesInOrder` `LastsLongEnough` `RunForReturns` `StopEndsRun` | `runFor` lasts as long as it was asked to and returns; `stop()` ends `run()`, also when its wake-up is missed |
| PipelineStreams | `TypeOK` `EmitsPromised` `CompletesAsPromised` `KeepsClass` `EndsOnce` | every chain of two operators over every source, with tasks on a thread of their own: the stream is the promised one, and one its class allows |
| PipelineDemand | `WithinDemand` `DemandServed` `CountsDemand` `CancelStops` | over `empty`, `range` and `interval`: a user who requests and cancels inside closures and between ticks, or leaves the requests to the subscriber and cancels |
| PipelineEnds | `ComesToAnEnd` | the unbounded request is renewed as often as needed, by the subscriber, `ignoreElements` and `andThen` |
| Merge | `TypeOK` `IndexInRange` `WithinDemand` `PassesDemand` `EndsOnce` `TakesTurns` `Interleaves` `ComesToAnEnd` | three publishers, with and without a scheduler, under a user who requests and cancels: through all nested removals the index fits the list, demand goes round in turns and is never exceeded nor kept back, and the output refines `Interleave` |

Four more runs each end in a violation, and show where the code and its documentation part:

| Run | What happens |
|---|---|
| PoolFirstAvailable | the only worker reads `m_stop` before it is initialised and quits; an accepted task is never run |
| LoopStopsItself | tasks already due run after `EventLoop::stop()` |
| SingleEmitsOne | `just(1).anyOf(odd)` emits its answer twice |
| MergeOnScheduler | `merge(publishers, scheduler)` spends the unbounded request on the first publisher, turn by turn, before the task that would end it can run; the second is never asked. In the code these are 2^64 turns, and so they are without a scheduler for a publisher that answers later or never |

Seen while modelling, and no run of their own:

- `Schedulable::cancel()` has no effect once `schedule()` has put a copy in the queue (`Schedulable.h:30`).
- `interval(...).first()` never emits: `First` waits for a completion that `IntervalSubscription::cancel()` does
  not cause; the same holds of `elementAt`, `allOf`, `anyOf` and `noneOf`, and of a `create()`.
- `range(1, 3).observeOn(loop).first()` emits the last of the values under way when `First` canceled, not the first;
  `observeOn(loop).takeWhile(p)` emits again after it completed. Both leave the order of signals to a source that stops
  at once; `Answering` and `EndsOnce` name them as exceptions.
- `switchOnError` resets its flag when `subscribe()` returns. A fallback that fails only after that is taken for the source, and
  subscribed a second time.
- A `request()` from `onNext()` of an interval that has served its demand starts a second chain of ticks, from 0.
- `IntervalSubscription::request` adds without a limit: two requests whose sum exceeds `SIZE_MAX` leave a small demand.
- `flatMap` hands the request for its values to the source: an inner publisher without a value swallows it, and a
  subscriber that asks for one value may get none.
- `merge` counts a turn whose answer is a completion as served: `request(n)` may yield fewer than `n` values. An empty
  source completes the subscriber before it is given `onSubscribe()`. Two publishers that fail call `onError()` twice.
- `delay()` of `Observable`, `Single` and `Maybe` is typed on `int` whatever the element (`Delay<int, ...>`), as is
  `Maybe::ignoreElement()`; the model has one type of element and does not tell.

### Bounds

- Schedulers: at most two tasks, two clients and two workers, a clock up to `MaxTime` (0 or 1), so delays of 0
  and 1. Two tasks and two workers are enough for every race for one entry, every pair of time points, and a wake-up
  that is missed while the other worker takes another task. Tasks and workers are interchangeable in PoolSafety;
  no run with a liveness property uses symmetry.
- Chains: two operators (`map` among them, which hands everything on); inputs of up to four values, odd or even, so that filters accept and drop in
  every order; at most three calls of the user, of 1 or 2 values, and none in PipelineStreams; `MaxTicks` (4, in PipelineDemand 3) signals of an interval (the task after
  the last is left untaken). `SizeMax` is 15, more than any run counts, except in PipelineEnds, where it is 2 so that
  the counters wrap and `SIZE_MAX` values are reached. A chain of two is needed for a filter whose demand comes from
  another filter; three were not found to add a new interaction between neighbours, as a part only calls the two next to it.
  Counts (of `take`, `skip`, `elementAt`) are 0 and 2 in PipelineStreams, 1 and 2 in PipelineEnds, 1 in PipelineDemand.
  A second publisher has two values, none and a failure, or one value later.
- Merge: three publishers, the middle one with two values, the two around it each empty, of two values, `just`, one that
  fails, one that emits and fails, one that answers by a task, or `never`: so publishers end before, at and behind the
  index, and the list goes through every length. Two calls of the user; where the subscriber requests by itself, these are a `cancel()`. An unbounded request is `SizeMax` (15) turns
  where no answer comes at once: with a scheduler, and for a publisher that answers later or never.
- Merge has one thread: nothing in it is locked, and what it schedules runs when that thread has returned to its loop.
- The scheduler of a pipeline has one thread. `observeOn` over a `ThreadPool` of several promises no order.
- A user's own call is made from a closure or while no handler runs. Calls from other threads while a handler runs
  are data races on plain members, and not modelled.
- Closures of the user's `onError` and `onComplete` make no calls, nor does that of `onSubscribe` when the subscriber requests by itself. A
  user lets go of the subscription when the stream ends.
- A method given to `create()` calls its subscriber from one thread at a time, as the gate has no lock, and not while another of its calls is under way.

### Fairness

Threads are scheduled, tasks return, time passes: weak fairness on the steps of workers, of calls in progress,
of constructors and destructors and of the clock. Nobody has to schedule a task, stop or destroy
a scheduler, request or cancel. In a pipeline and in merge, weak fairness on the handlers of a thread (`Works`) and on the dispatch of a pending
task (`Takes`), which `DueTaken` establishes for the schedulers. The sleep of a worker is left by a
notification or its idle time-out (`wait_for` with `m_idleTime`), which `Work` includes.

### What the stream properties leave aside

The properties are stated for what the code does, with the exceptions it has:

- `allOf`, `anyOf`, `noneOf`, `first` and `elementAt` cancel and wait for the completion the source answers
  with (`Answering`). They do not work over an interval or a `create()`, nor behind `observeOn`, `delay` and `flatMap`.
- `DemandServed` and `CountsDemand` are stated for the operators that hand values down one by one (`Streaming`), and
  `CountsDemand` for chains without tasks.
- `EndsOnce` leaves aside operators that end early over a source that answers `cancel()` with a
  completion: `take` and `takeWhile` then complete twice. Two of them in one chain do so over any source. Behind `observeOn` and
  `delay`, values under way follow.
- A delay with `delayError == false` lets the error overtake the values, and `flatMap` the values of inner publishers
  that still run (`Overtakes`).
- `flatMap` goes on after an inner publisher has failed (`FailsEarly`), and operators that end early have their source
  complete after them. Below them `switchOnError`, or `andThen` and `flatMap` with a publisher of their own that emits
  later, go on a second time (`Resumes`), `just(x).anyOf(p).flatMap(later)` for one. `EndsOnce` leaves chains
  with both aside.
- `KeepsClass` is stated up to the first end, and for chains the types allow. PipelineEnds has no `flatMap`, whose
  demand is not renewed.
- No run of a property of the streams has a fallback of `switchOnError` that fails after `subscribe()` has returned.
- For merge, `EndsOnce` is stated for one error at most, `WithinDemand` for publishers that do not push on their own, and
  `ComesToAnEnd` without tasks (MergeOnScheduler shows what they do to it) and unless the user cancels: a canceled merge owes no end.
- `take(0)` completes with its source only, and drops values without asking for others.

## Proofs

| Module | Proved, for every instance | Theorems |
|---|---|---|
| `ThreadPoolProofs` | any tasks, clients, workers, clock | `PoolTypeCorrect` `PoolOneOwner` `PoolNoneLost` `PoolCallerOrder` `PoolSomeWorkerAwake` `PoolDispatchesInOrder` |
| `WorkerThreadProofs` | any tasks, clients, clock | `WorkerThreadTypeCorrect` `WorkerThreadKeepsTasks` `WorkerThreadDispatchesInOrder` `WorkerThreadNeverWaits` |
| `EventLoopProofs` | any tasks, clients, clock | `EventLoopTypeCorrect` `EventLoopNoneLost` `EventLoopDispatchesInOrder` `RunForLastsLongEnough` |
| `PipelineProofs` | any source, any number of operators, any calls of the user | `PipelineTypeCorrect` `PipelineCancelStops` `PipelineWithinDemand` `PipelineEndsOnce` |
| `DemandProofs` | as above, less `take(0)` | `PipelineDemandServed` `PipelineCountsDemand` |
| `MergeProofs` | any number and kind of publishers, with and without a scheduler, any calls of the user | `MergeIndexInRange` `MergeTypeCorrect` `MergeTakesTurns` `MergeInterleaves` `MergeEndsOnce` `MergePassesDemand` `MergeWithinDemand` |

These are all the invariants and refinements of the schedulers and of the merge that the runs check; of a chain, its types,
`CancelStops`, the three properties of its demand for the operators that hand values down, and `EndsOnce` for those that hand each signal
down where it comes.

The assumptions are those the modules declare: `QueueAssumption` (the sets of threads are disjoint, the special values are no
elements of them), `OwnerAssumption` (a client destroys the pool) and their likes for the other schedulers; `OperatorsAssumption` and
`InputsAssumption` (elements are natural numbers, counts are of `std::size_t`). Some theorems have hypotheses of their own.
`PoolSomeWorkerAwake` needs a worker: `ThreadPool()` takes its size from `hardware_concurrency()`, which may be 0, and such a pool
runs nothing. The theorems about a chain have `ClosuresTypeOK`: what the user's closures return is an element.
`PipelineWithinDemand` is about chains of the operators in `Handing`: `map`, `tap`, `filter`, `take`, `takeWhile`, `subscribeOn`, `observeOn`, `delay`.
`PipelineEndsOnce` is about chains of those in `Steady`: `map`, `tap`, `filter`, `defaultIfEmpty`, `subscribeOn`, and the ones that fold their stream
into one value (`Folding`).
`PipelineDemandServed` and `PipelineCountsDemand` need `0 \notin Counts` (no `take(0)`, see above) and `Modest`: whoever makes the requests for itself
asks for `SIZE_MAX` values in all at most. Neither can be dropped: TLC finds demand lost by a `take(0)` over a range, and by an interval that is asked for
more than its `m_requested` can hold. A `DefaultSubscriber` that requests everything is always `Modest`, however often it
renews its `SIZE_MAX`. PipelineDemand satisfies both. `PipelineCountsDemand` is about chains of the operators in `Streaming` over the sources in `Served`:
`empty`, `just`, `range`, `interval`, `error`, `defer`.

### Schedulers

None of the properties is inductive: that a task is taken once depends on where tasks in the middle
of a call are, and the order for one caller on the clock. `LoopInv` adds

- `HeldWell`: a worker holds a task exactly from the pop to the end of its run;
- `Placed`: a task being pushed belongs to its caller and is in no other place;
- `Ranked`: every accepted task has a rank below `inserted`, and each rank is somebody's;
- `Stamped`: no sampled time point is ahead of the clock, and a task's time point is at most the delay ahead of it;
- `Ordered`: the tasks one caller schedules with one delay have time points in the order of their ranks.

`RunLoopProofs` shows that each step of the queue and the loop keeps `LoopInv`. The steps that move no task are
quiet (`QuietKeeps`); the clock, the begin of a call, an insertion, a pop and the end of a task
have a lemma each. Refinement follows step by step: the pop is `Take` because the entry is the first due one
at a sampled time point not ahead of the clock, and every entry before it in the map would be due too.

On top of `LoopInv`, each scheduler has one argument of its own:

- *A pool's workers do not all sleep* (`SomeWorkerAwake`). Being awake is not preserved: a worker on its way to the wait may go on
  to sleep. What is preserved is that some worker *attends* (`Attends`): it is in no step of the wait, or in one of them with a task due
  that it will find there, by the clock or by the sample it has taken. Only a pop can take that task away from under it, and the worker that pops
  then attends.
- *A `WorkerThread` never waits in `blockingPop()`* (`NeverWaits`). `Steady` says at each place between `canPop()` and `tryPop()` that
  something is due, at the clock or at the sample taken: nobody else takes tasks, and the clock only moves on.
- *`runFor()` lasts long enough* (`LastsLongEnough`). It ends by `m_stop`, by its own look at the clock, or because `pop()` gave it
  nothing. The last is the hard one: the limit of the pop is computed from a sample older than the clock it is added to. `Lasting`
  says that the limit is not before the deadline, and that a due task the wait ended for is still there when `tryPop()` looks.

### A chain

`PipelineTypeCorrect` is by `TypesInv`, which is more than `TypeOK` says, because handlers rely on it: `reduce` has a result from
the start, a result is one value at most, a user's `method` call left to make has a number of at least 1, a source's index is within its
elements or one past them. `Handled(i)` is what every handler of operator `i` leaves - calls on parts of the pipeline, a typed
operator of the same name, a typed handle - and has one lemma per operator.

`PipelineCancelStops`: the property speaks of the stream, what makes it true is the shape of the call stack. `CancelInv` says that
over a `range` and under `map`, `tap`, `filter` and `take` all calls are on the client's thread, no task is pending, and a value is only ever
the innermost of the calls under way (`Led`); so when a nested `cancel()` has returned to the loop of `request()` no value is on its
way down, and after `m_canceled` none can be (`Silent`).

`PipelineWithinDemand`: what was given is compared with what was asked for at the other end of the chain, so everything between the
two has to be counted. A call owes the values it may yet lead to (`Owed`: `request(n)` is `n`, a value or a tick 1, a `filtered(TRUE)`,
after which a `FilterSubscription` may ask again, 1). A `FilterSubscription` owes what it keeps of its demand (`Spare`: `m_requested - m_waiting`,
modulo `std::size_t`, as both counters wrap around), and an `interval` its own `m_requested`. `CreditInv`: all of this and the values given
never exceed what was asked for. Each handler of an operator pays with its own call for those it makes, at once or as a task (`Pays`,
one case per handler); each of the source pays with its demand (`Spends`); the subscriber raises what was asked for before it asks.
A wrapped count only owes less (`PlusIsLess`). The types do not exclude a `request(0)`, to which a `just` gives
its value too: over a `just` it owes 1 (`Least`).

`PipelineEndsOnce`: a subscriber is called after its end if a second signal is somewhere in the chain when the end is made, in a loop
that a nested request has interrupted or on another thread. `EndsInv` excludes both. Until the source is `Running`, all there is
is one call or one task that subscribes (`Starting`). A `create()` may then be between two calls of its method (`Between`): that is a task, it is
all there is, and as a gate hands no subscription down, nobody can call back; on a thread, the method is the last of the calls (`Gated`). Else one thread at most has calls (`Alone`), as `subscribeOn` only moves the subscription to
another thread, and these are `Tidy`: before the source is over there is one signal at most, the innermost call (`Heads`); no
signal is behind an end (`Firm`); and after the end of the subscriber there is none. Each handler of an operator `Follows` this: it gives a
value before its other calls, no end without one, and nothing behind an end. An `interval`, whose ticks may run on two
threads, makes no end at all (`Unending`). With `observeOn` or `delay` two threads can be in the source's `request()` at once.

`PipelineDemandServed` and `PipelineCountsDemand`: that too little is given cannot be told from an upper bound such as `CreditInv`, so demand has an exact
account, and one for each place of the chain. What is due at part `j` (`Due`) is the source's `m_requested`, all that is on the way for it
(`Ahead(j)`: requests made before it, values, ticks, a `filtered()` it has not heard of), and what the filters before it keep of theirs
(`Before`). `DemandInv` says that in an `Open` stream, one that nothing ends, what the subscriber was given and what is due to it are what
was asked for (`Asked`); that `m_waiting` of each filter is what is due to it, up to a multiple of `SIZE_MAX + 1`, and that a filter which keeps
demand back still has a value to come (`Waits`); that a source has demand only while it is about to give (`Gives`). Only an open stream has
the account: `Closing` calls, a `take` that has run out (`Exhausts`) and a `cancel()` end it, and never begin it again.
Each handler of an operator keeps it (`LeadsTo`): what is due at the parts behind it changes by nothing, and at its own by what its
`m_waiting` does. The same is shown of a source (`Gathers`) and of the subscriber (`Progress`). At rest nothing is on the way. Then the
first filter that keeps demand back would have a value to come and nowhere to have it from (`SparesNone`), so none does, and all that was
asked for is given. For `CountsDemand` a stream at rest may have a tick pending (`TimersInv`: no other task), which counts the same at every
part; so the difference between a filter and the next is what the first keeps, and `m_requested` is what the next waits for. By `Modest`
no counter has wrapped around, and the congruences are equalities (`WrapsSame`).

### Merge

`MergeIndexInRange`: for every sequence of calls, `m_currentIndex` is a place of `m_subscriptions`, or 0. `IndexInRange` alone is not
inductive, as arithmetic on the index needs its type; `Walkable` adds that `m_subscriptions` is a sequence of publishers and
`m_currentIndex` a natural number, and nothing about the calls under way: so the index is safe at any
point at which a publisher may remove itself. `RemovalKeeps` is the heart, with `MovedIsInRange` the arithmetic of
`removePublisher()`.

`MergeTakesTurns`: `tryRequest()` asks no publisher again before each of those that were there the last time and still are. The list
moves under it: publishers come, and remove themselves between two turns or within one. `MergeInv` adds to the types and to `Walkable`

- `Single`: of the calls under way and the tasks pending, at most one can lead to a given publisher's joining the list, and a publisher
  for which there is one (`Held`) is not in it: so none is there twice;
- `Ordered`: whoever is to be asked before another by the history of turns also comes sooner going round the list from the place
  behind the index. It is kept by an append (`OrderedAppend`), by a removal at, before or behind the index, and by a turn.

What a merge delivers is proved of the calls under way, those of the thread and then those of the tasks, as one
`Queue`. A value makes three calls on its way to the subscriber, an end two (`Stage`). The invariant has two parts.

- `Always`: what is true of the calls themselves. `Prompt`: a call that must not be overtaken (a value for the subscriber, say) is
  never behind another. There is one call of the source at a time. `Sound`: each call fits the members - after `m_canceled` the
  subscriber is given neither a value nor a completion, a completion is under way only if `m_completed` and no end has come before.
- `Flow`, until something is canceled: one account for each publisher (`Account`). The values it has sent are those its subscriber
  was given and those on their way (`Marks`), in this order and with no gap; its end is behind the last one; whoever is not `Over` still
  has a call that makes it join, a place in the list, or its end on the way, and is counted in `m_remaining`. So when `m_remaining` is 0
  and the source has completed, everything has been given. `Demand`: whenever demand and a publisher to pass it to are there, a call that does is under way.

`MergeInterleaves` and `MergePassesDemand` follow: the first value on its way has the ordinal after those taken, which is the step
`Give`. After a cancellation the account is lost, but then only an error can reach the subscriber, the step `Fail`; and what is left to run
of a completed merge (`Tame`) gives it nothing.

`MergeEndsOnce` is by `FailsOnce`: if one publisher, or the source, can fail, then no two calls under way both lead to an error (`Fatal`: the
error on its way, or what has yet to be asked of the one that fails), and after an end none is left.

`MergeWithinDemand` is by `Asked`: the values given, what the calls under way may still lead to (`Load`: a `request(n)` is `n`, a turn or a value 1)
and `m_requested` together never exceed what was asked for. `m_requested` may wrap around; it then only becomes less.

### Only model-checked

- Liveness, and everything that depends on fairness: out of the prover's reach.
- `EmitsPromised`, `CompletesAsPromised`, `KeepsClass`: a promise is a fold of recursive functions over the stream, and what these
  compute for every stream takes induction over data, which the provers cannot be given.
- `EndsOnce` of a chain with operators outside of `Steady`; its exceptions (above) are about these.
- `DemandServed` and `CountsDemand` of a user who is not `Modest` but never has more than `SIZE_MAX` values to come, and `CountsDemand` over `never` and
  `create()` or with an operator outside of `Streaming`: no run goes as far, nor does a theorem.
- `WithinDemand` of a chain with an operator that gives values of its own, for
  which no value comes in: `defaultIfEmpty`, the ones that reduce a stream to an answer, and those with another publisher. They
  answer to an end, which no request pays for, and it takes the whole past of the chain to see that somebody asked.
- `MergeEndsOnce` and `MergeWithinDemand` have the conditions the properties have: one error at most, and no publisher that pushes. What
  happens without them is known (above), and no theorem.

## Not modelled

- A second subscription to the same chain: processors keep counters and results from the first one.
- Publishers of a merge or a `flatMap` that emit on several threads at once: every access to their counters is then a
  data race.
- A merge within a chain of operators, and `request(n)` on a `flatMap` whose inner publishers are asked piecemeal: it asks each of them for everything.
- `defer()` of `Single`, `Maybe` and `Completable`: as that of `Observable`, which is.
- RsCpp, an external library: its handles are virtual calls, an empty handle does nothing.
- More than one subscription in `filter`, `take` and `takeWhile`, which keep a list of them: an operator of the model keeps one `link`. A second
  `onSubscribe()` takes `flatMap` or `switchOnError` in front of them, and it matters only if both subscriptions still run.
- Exceptions thrown by user code; copies of a gate, each with an `m_ended` of its own.

## Plan

1. Demand in a chain: `WithinDemand` with `defaultIfEmpty`, `CountsDemand` with operators outside of `Streaming`.
2. A second subscription to a chain.
