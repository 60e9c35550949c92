# Session scheduler: TLA+ models, checks and proofs

The session scheduler is a Go web application for the design sessions of a
conference. People register, propose discussions and say how interested they
are in those of others; administrators moderate, set up locations and the
timetable, and let a heuristic assign discussions to slots and locations. This
directory models how the program keeps its data: the operations of package
`event`, the statements and locks on SQLite beneath them, the scheduler, the
web requests that call them, the sessions that say for whom, and the server
process around it all.

Paths below are relative to `src/`.

## 1. The system

| Component | State | Operations | What makes it correct |
|---|---|---|---|
| tables (`event/event.sql`, `event/eventdb.go`) | eight tables with keys, unique columns and foreign keys | `txLoop` runs a function in a transaction and again when SQLite is busy | a step is a whole transaction or nothing |
| users (`event/user.go`, `event/event.go`) | accounts, interest | register, create the administrator at start, verify, set interest, delete | deleting leaves nothing that refers to the account |
| discussions (`event/discussion.go`) | discussions, the slots they are restricted to | create, edit, reassign, approve, delete, restrict | third parties see approved texts only; restrictions mean what the form shows |
| locations (`event/location.go`) | locations | add, delete | a location in use stays |
| timetable (`event/timetable.go`) | days, slots, their break and lock flags | set a whole timetable, add and delete a day, set the locks | slots are numbered without gaps; a locked slot and what is in it stay |
| scheduler (`event/schedule.go`) | the schedule, and the plan in the memory of each run | snapshot, plan, write | no place is used twice, breaks and locked slots are left alone, everything once |
| request handlers (`handle_*.go`, `middleware.go`, `display.go`) | for each request: its copy of the account and of the discussion | one per form of the site | who may change what, although the copies are old |
| transactions (`event/eventdb.go`, the loops in `event/*.go`) | open transactions and their table locks | `txLoop`, loops around single statements, transactions in transactions | an operation is atomic for its caller, or fails; a call returns |
| sessions (`sessions/`, `handle_session.go`, `middleware.go`) | sessions and their cookies | sign in, register, sign out, expiry | a request acts for the user that the browser was told, and for no deleted one |
| flags (`keyvalue/`, `handle_admin.go`) | key-value table | `Get`, `Set`, `Unset`, `Exchange`, `setstatus` | as transactions |
| server (`serve.go`, `main.go`) | serve lock, shutdown lock | start, shutdown | one server per database; no request meets a closed database; a shutdown ends |
| commands (`cmd_editTimetable.go`, `main.go`) | none: they open the same database | `schedule`, `editTimetable` | as the operations they call |

Components meet in the database only. Requests run concurrently in one server,
and the `schedule` and `editTimetable` commands are processes of their own, so
anything can happen between two transactions of one actor. The hard part is what
an actor carries from one transaction into the next:

* `MakeSchedule` plans from a snapshot and writes the plan in a second
  transaction (`event/schedule.go:246`), while slots are locked, removed or
  turned into breaks and discussions are deleted or scheduled by another run;
* a form lists the slots there were when it was made
  (`event/discussion.go:325`, `event/timetable.go:77`);
* an edit writes back the owner that it has read before
  (`handle_discussion.go:257`), with the rights that it has read before that;
* deleting slots, days, users and discussions has to clean up, in the right
  order, whatever refers to them;
* `txLoop` may run a function several times, and gives up in the end; a function
  may open a second transaction inside its own, or use none at all;
* a request looks its user up up to three times, while sessions begin, end and
  expire and accounts are deleted;
* the serve lock and the shutdown lock decide between processes and requests that
  may die at any moment.

`PROJECT.json` lists these hazards at their lines with the properties that
are about them.

## 2. The modules

| Module | Models | State and actions |
|---|---|---|
| `EventDB` | the tables, `openDb`, queries that are shared | a table with a primary key is a function from keys to rows, one without is a set of rows; the variables have the names of the tables |
| `Users` | `user.go`, `handleAdminPwd` | `NewUser`, `handleAdminPwd`, `SetVerified`, `SetInterest`, `DeleteUser` |
| `Discussions` | `discussion.go` | `NewDiscussion`, `DiscussionUpdate`, `DiscussionSetPublic`, `DeleteDiscussion`, `DiscussionSetPossibleSlots`; the form, `possibleSlotsDBToDisplay` |
| `Locations` | `location.go` | `NewLocation`, `DeleteLocation` |
| `Timetable` | `timetable.go` | `TimetableSet` with everything it calls, `NewDay`, `DeleteDay`, `TimetableSetLockedSlots` |
| `Schedule` | `schedule.go`, the two transactions | `makeSnapshot`, `scheduleSet`, `scheduleFail`; the planning between is a contract, `IsPlacement` |
| `EventStore` | package `event` | composes these six: `Spec` interleaves all operations of any number of actors; the safety and action properties |
| `Heuristic` | `makeScheduleHeuristic`, `placeDiscussions` | one step per iteration of the loop; shown to meet the contract of `Schedule` |
| `SchedulerRuns` | two runs of `MakeSchedule` with the real choice of slots | `EventStore`, restricted to the plans that the loop of `Heuristic`, run to its end on the snapshot, can give; for the run `two_schedulers` |
| `WebHandlers` | `handle_discussion.go`, `handle_user.go`, `handle_admin.go` | each request is at a stage and holds copies; the steps are reading the account, reading the discussion or user, the decision, and each call of package `event` |
| `Statements` | what each operation of `event`, `keyvalue` and `sessions` asks of SQLite | no state: for each of 44 operations the statements in order, with connection, loop, tables read and written |
| `AtomicOps` | the promise: an operation happens in one step, or fails and changes nothing (`Exchange`, whose commit is not checked, may also be lost) | abstract specification of `TxLoop` |
| `TxLoop` | `eventdb.go` and SQLite's table locks | per caller a call with its position, counts and what it has seen, and the locks of its connections; `Call`, `Exec`, `Refused`, `CallbackError`, `Error`, `Commit`, `CommitRefused`, `Return`, `Tick`, `OtherProcess` |
| `Server` | `serve.go`, `main.go`, the lock in `middleware.go` | processes with their stage, method and signal handler; start, `handleAdminPwd`, `handleServeLock`, listen, signal, shutdown, kill, and the read lock of each request |
| `Sessions` | `session.go`, `session_store.go`, `handle_session.go`, the user lookups of `middleware.go` | the session table, the cookie of each browser and what it was last told, requests at stages; each statement on a store is a step that may fail |
| `MC...` | | the instances for TLC |
| `EventStoreProofs`, `TimetableProofs`, `ScheduleProofs` | | theorems about `EventStore`, each module on top of the one before |
| `WebHandlersProofs` | | theorems about `WebHandlers`, on top of these |
| `HeuristicProofs` | | theorems about `Heuristic`, and lemmas on sums and finite sets |
| `TxLoopProofs`, `ServerProofs`, `SessionsProofs` | | theorems about `TxLoop`, `Server`, `Sessions` |

Abstractions. A `Title` stands for title and description. Passwords, profiles,
names of locations and days, and times of day are left out: no operation that is
modelled decides by them. A submitted timetable has, for each day, the break
flags of its slots, and whether the day passes the checks on its name and times.
`generated` holds every id handed out: `id.GenerateID` returns random strings, and
the model takes it that they do not repeat. `listed` holds every slot that a
form could have listed, so that a form may be as old as the database. An
operation that returns an error has rolled back its transaction: it is a
disabled action. `txLoop` is not in the modules on package `event`: there an
operation commits once or not at all, which is what `AtomicOps` says and `TxLoop`
is shown to implement. `Schedule` leaves open which slot the heuristic chooses (`IsPlacement`):
what holds for any choice holds for that one, and where the choice matters, `SchedulerRuns`
has it. Breadth of a step: where an operation is one transaction (or one
statement) it is one action; where it is two (`MakeSchedule`; an
administrator's edit, which saves the text and then the slots) it is two.

`WebHandlers` models one flag, `requireVerification`. The other flags turn whole
pages on and off. A request fails, or is not about the database, by `Respond`,
which may come at any stage, except between snapshot and writing, where
`scheduleFail` is the failure.

`TxLoop` knows a statement by its tables. All connections of one process share a
cache, so a statement that meets a table lock of another connection is refused
at once with LOCKED, without waiting; a transaction holds its locks until commit
or rollback. Another process is seen only through `busy`, by which any statement
or commit of a writer may be refused. `Tables` contain values, and an operation
writes `Outcome(op, t, v)`, an unknown function of what it has seen: the modules
above say what each operation computes, this one says that it computes it from
one state. Listings (`discussionIterateQuery`) load each discussion in a
transaction inside the one that made the list. They are left out of the
refinement, since between two inner transactions another table may change;
`NoTornRead` and `CallbackOnce` say what does hold for them. The callback of a listing
may return an error of its own, also one that makes `txLoop` repeat the listing
(`CallbackError`); those of `display.go` return nil. Two things are taken for granted or
exempted. A try that was rolled back leaves nothing in the variables of the
caller, since `sqlx`'s `Get` and `Select` are taken to replace what is there (`SawBefore`). And
`Exchange` is promised less than the others, since it ignores the error of its commit:
when another process has the file at that moment, it returns the old value and no error, and
nothing is written (`Unnoticed` in `AtomicOps`, `keyvalue/keyvalue.go:141`). The statements of an
operation must fit (`Fits`), and TLC evaluates for all 44 that they do.

In `Sessions`, `told` is what the browser's last answer said about being signed in;
it is nothing certain while requests that sign in or out overlap. A session id is
generated once. Passwords are left out: a sign-in names a user and may be refused.
`Server` has the two keys of the configuration that matter for it, the locking method
and the address.

## 3. What TLC checks

Passing runs:

| Run | Properties | What it shows |
|---|---|---|
| `directory` | `TypeOK`, `Moderated` | three accounts, two names, two discussions and two texts: registering, verifying, reassigning, approving, deleting, in every order; a text of an unverified owner never shows by itself |
| `timetable` | `ForeignKeys`, `SlotsContiguous`, `LockedStable`, `BreakKept`, `CheckedSlotsHonoured` | timetables that grow, shrink, drop a day and turn a session into a break and back, set one over the other, with days added and deleted, locks, restrictions, and two schedulers whose plans are written late |
| `once` | `ScheduledOnceUnlessOverlap` | two schedulers, timetables that add and drop a slot and make one a break: in every behaviour without overlapping runs and without an entry in a break, a discussion is scheduled once |
| `heuristic` | `LeftOutForPopular`, `PlanMeetsContract`, `PlanMade` | every interest (0 to 2) of two users in three discussions, no, one or two locations (one numbering with a gap), an empty schedule or one that a former run left, locked or not |
| `requests` | `WebTypeOK`, `OnlyTrustedPublish` | two requests at any stages that register, propose, edit, reassign, approve, verify and delete, and the two commands beside them (with locations: one request) |
| `txloop` | `TypeOK`, `NoTornRead`, `ImplementsAtomic`, `CallbackOnce`, `CallReturns`, `StatementReturns` | a reader (a listing, a read with its last statement outside of the transaction, an exchange of a flag) and a writer (a long transaction, a single statement) and another process that takes the file whenever it likes |
| `server` | `ServerTypeOK`, `NoRequestOnClosed`, `LockExcludes`, `ShutdownCompletes`, `WaitTakesOver` | two processes on one database with all locking methods, signals, kills and fatal errors at every point, two requests |
| `sessions` | `SessionsTypeOK`, `ActsAsTold`, `DeletedNeverActs`, `OneUser` | one browser with two requests at once that sign in as two users, register, sign out or act, while stores fail, answers are lost, sessions expire and accounts are deleted |

One would like that no discussion is scheduled twice (`ScheduledOnce`) and none in a break
(`NoEntryInBreak`). Neither is so: see `two_schedulers`, and the FIXME at
`event/timetable.go:387`. `ScheduledOnceUnlessOverlap` and `BreakKept` say how much of it is
true. A discussion is scheduled twice in no other ways than these two, and a plan never
touches a break, also one that has entries.

Runs that find what a document, comment, page or error message says not to hold (each is a
finding in `PROJECT.json`, with the line it contradicts):

| Run | Property | What happens |
|---|---|---|
| `two_schedulers` | `ScheduledOnce` | two discussions, two locations: A plans both into the only slot; a second slot is added; B plans one into each, since the heuristic favours the emptier slot, and writes; then A writes, and clears only the slot that it knew. With one discussion nothing happens, as the heuristic takes the first of equal slots; so the run uses the plans that the heuristic makes (`SchedulerRuns`) |
| `schedule_page` | `SchedulePageApproved` | the schedule page shows the current title, approved or not |
| `stale_owner` | `OnlyAdminReassigns` | an edit read before and committed after a reassignment undoes it |
| `sign_out` | `SignedOutStays` | the session cannot be read, because its table is locked, so nothing is deleted, and the page says that the browser is signed out |

Seen while modelling, and without a run of their own: the owner of a discussion
is made interested (`event/discussion.go:171`) but may set the interest to zero
(`event/user.go:141`); `DeleteDay` of a day that is not the last leaves a gap in
the days, against `event/event.sql:48`; an account named `admin` need not be an
administrator, if the administrator is deleted and the name registered before
the next start (`README.md:64`); a slot that becomes a break keeps its entries
(`event/timetable.go:387`); a timetable that makes the only slot of a restricted discussion
a break makes the form show all boxes checked, while the scheduler, which counts the row,
has no slot for the discussion (`event/discussion.go:284`, `event/schedule.go:177`); a form with
two slots, one checked, that is saved after the checked one became a break has as many
boxes checked as there are slots, so nothing is stored and the unchecked slot may be used
(`event/discussion.go:325`); a slot that a discussion is restricted to
cannot be removed although it is not locked (`event/timetable.go:303`); the number of empty places is added to
the score of a slot and can outweigh it (`event/schedule.go:370`). In the key-value
store, a retry compares the error with `sqlite3.ErrBusy` itself, which it never is
(`keyvalue/keyvalue.go:49`), `Exchange` drops the error of its commit
(`keyvalue/keyvalue.go:141`, against the doc at 122), and `OpenFile` notes that it should close its file only when
opening failed. `setstatus` tells that a flag was changed when the exchange failed
(`handle_admin.go:143`). The locking method `error`, which `README.md:84` says exits,
logs and goes on (`serve.go:104`). The serve lock is kept by a local variable, and
goes when that is collected (`serve.go:91`). Pages that `middleware.go:79` calls "only when
active, or for admins" are there for anyone who is signed in. `getSearchDuration` looks
at its error the wrong way round (`main.go:155`). In a listing, the owner's account and
the schedule of one discussion may be newer than those of the one before.

### Bounds

Ids are model values, two or three of a kind; the operations compare them and
nothing else, so those of a kind are symmetric. Two actors are what the races
above need: one that read, one that changes. One discussion is enough where a
property is about each by itself (`timetable`, `once`, `requests`); two that want the same
title are in `directory`, discussions that compete for a slot are in `heuristic` and `two_schedulers`, and `OnePerPlace`, which needs two,
is proved for any number. Two slots let one be locked, or a break, while the other is
planned (`once`); three slots allow a form to be one slot off
and a timetable to add a slot after one was removed. Every shape change of a
timetable (more or fewer slots, more or fewer days, a flag flipped, a day refused)
is in some set of timetables of `MCEventStore`. `maxDiscussionsPerUser` is small
enough to be reached. `MaxDays` and `MaxLocations` bound integer keys: at the
bound `NewDay` and `NewLocation` are disabled. `RequestBound` lets the run
`requests` have two requests at once until there is a location, and one, beside
the commands, from then on: what two requests do to each other's rights does not
depend on locations, and overlapping plans are what the run `timetable` is for.

In `txloop` the list has two discussions, so that the inner loop ends and begins
again, and `minTxRetries` is 1, so that a loop both repeats and gives up. The count
saturates at the limit and time is one bit per loop, `late`. Two callers conflict
in every way that there is: read with write, write with read, write with write, and
an operation with its own second connection. In `server`, two processes and two
requests let one wait for the other of each kind; two addresses let both listen. In
`sessions`, two session ids are one to replace the other, and two users one to be
taken for the other; requests and ids are symmetric.
The theorems below have none of these bounds.

Deadlock is checked except for `Heuristic`, where `MakeSchedule` comes to its
end.

### Fairness

`Heuristic` assumes weak fairness of its next-state relation, for `PlanMade`. It is
one goroutine that works on memory of its own and waits for nothing.

`TxLoop` assumes weak fairness of the steps of each call and of time passing. The Go
scheduler runs every goroutine in the end, and SQLite answers at once, with
success or an error. Nothing has to fail, nobody has to call anything, and another
process may keep the file for ever: `CallReturns` holds all the same, because
`txLoop` gives up. The loops without a limit do not, so `StatementReturns` asks that
the others come to rest.

`Server` assumes weak fairness of what a process does by itself and of its signal
handler. Starts, signals, kills and requests need not happen, and a handler need not
come to its end: the HTTP server has no timeouts (`serve.go:186`), handlers read and write
under the read lock, and the loops around single statements have no limit
(`event/user.go:86`). So `ShutdownCompletes` has the condition `HandlersEnd`, that no handler
stays inside for ever. What is left to show is that new requests, of which one may
always come in before the last one leaves, do not hold the shutdown up.

No liveness is claimed of requests in `WebHandlers` and `Sessions`: a request may
be abandoned at any stage.

## 4. What is proved

With TLAPS, for every value of the constants: any ids, timetables and number of
schedulers; any interests, slots and locations; any number of callers, tables and operations; any number of processes,
requests, browsers, sessions and users.

| Module | Theorem | States |
|---|---|---|
| `EventStoreProofs` | `TypeCorrect` | `Spec => []TypeOK` |
| | `ForeignKeysHold` | `Spec => []ForeignKeys` |
| | `OnePerPlaceHolds` | `Spec => []OnePerPlace` |
| | `ModeratedHolds` | `Spec => Moderated` |
| `TimetableProofs` | `SlotsContiguousHolds` | `Spec => []SlotsContiguous` |
| | `LockedStableHolds` | `Spec => LockedStable` |
| | `BreakKeptHolds` | `Spec => BreakKept` |
| `ScheduleProofs` | `CheckedSlotsHonouredHolds` | `Spec => CheckedSlotsHonoured` |
| | `ScheduledOnceUnlessOverlapHolds` | `Spec => ScheduledOnceUnlessOverlap` |
| `HeuristicProofs` | `LeftOutForPopularHolds` | `HeuristicSpec => []LeftOutForPopular` |
| | `NeverTooMany` | `HeuristicSpec => [](no slot has more rows than there are locations)` |
| | `PlanMeetsContractHolds` | `HeuristicSpec => PlanMeetsContract` |
| `WebHandlersProofs` | `WebTypesHold` | `WebSpec => []WebTypeOK` |
| | `HandlersImplementStore` | `WebSpec => Spec`, the refinement of `EventStore` |
| | `ProgramKeepsData` | `WebSpec` implies `[]ForeignKeys`, `[]OnePerPlace`, `[]SlotsContiguous`, `LockedStable`, `BreakKept`, `Moderated`, `CheckedSlotsHonoured` |
| | `OnlyTrustedPublishHolds` | `WebSpec => OnlyTrustedPublish` |
| `TxLoopProofs` | `TxTypesHold` | `Spec => []TypeOK` |
| | `NoTornReadHolds` | `Spec => []NoTornRead` |
| | `CallbackOnceHolds` | `Spec => CallbackOnce` |
| | `ImplementsAtomicHolds` | `Spec => ImplementsAtomic`, the refinement of `AtomicOps` |
| `ServerProofs` | `ServerTypesHold` | `ServerSpec => []ServerTypeOK` |
| | `NoRequestOnClosedHolds` | `ServerSpec => []NoRequestOnClosed` |
| | `LockExcludesHolds` | `ServerSpec => []LockExcludes` |
| `SessionsProofs` | `SessionsTypesHold` | `SessionsSpec => []SessionsTypeOK` |
| | `ActsAsToldHolds` | `SessionsSpec => []ActsAsTold` |
| | `DeletedNeverActsHolds` | `SessionsSpec => []DeletedNeverActs` |
| | `OneUserHolds` | `SessionsSpec => []OneUser` |

The assumptions are the named `ASSUME`s of the modules: `AdminUsername` is a
user name, `NoTitle` is not a title, `NoPlan` not a plan, the bounds are natural
numbers, and a timetable is a sequence of at most `MaxDays` days; the statements of
an operation fit (`Fits`) and what it writes is a value; the "none" values are not
values of their kind. `Heuristic` adds that there are finitely many ids of users and
slots, since sums over them are taken; `id.GenerateID` makes strings of a fixed length.

No theorem about package `event` has a further condition on the constants.

The arguments:

* *References and places* (`RefInv`). `ForeignKeys` and `OnePerPlace` are not
  inductive: the plan that `scheduleSet` writes was made in another state.
  `PlansFit` is what survives of that state. Every entry of a plan is in one of
  the plan's slots, and no two entries are in one place. `scheduleSet` checks
  those slots again and first deletes all that is in them, so what it writes
  refers to slots that are there and cannot collide with what it leaves. The
  discussions and locations of the plan may be gone: there the foreign keys of
  the table itself refuse the plan (`ScheduleSetOK`).
* *Numbering* (`SlotInv`). Between a day's slots there is no gap because a new
  timetable keeps a prefix of them, or all and adds the positions after the last.
  For that the slots it adds must be new: the invariant has
  `DOMAIN event_slots \subseteq generated`. It is about slots only; days may
  have gaps.
* *Locks and breaks* (`FixedKept`). Given `RefInv`, each operation is looked at. `TimetableSet` and
  `DeleteDay` refuse to drop a locked slot. `scheduleSet` wants all slots of the
  plan to be unlocked and no breaks now, and by `PlansFit` it adds entries to those slots only.
  Deleting a discussion or its owner takes its entries out, and nothing else.
* *Moderation* (`PublicIsApproved`). When an unverified owner edits a public
  discussion, third parties go from seeing its title to seeing its approved text.
  That this is the same text needs the invariant that a public discussion's title
  is the approved one.
* *Once* (`OnceInv`, `PlanOnce`). A plan has one place at most for a discussion,
  because the left join of the snapshot gave the discussion one row, and that rests on
  `ScheduledOnce` itself. An entry that the discussion has when the plan is written was there
  at the snapshot, since by `NoOverlap` nobody else adds entries meanwhile, and it is in a slot
  that the plan replaces, or the discussion had no row. The step from the snapshot
  needs `NoEntryInBreak`: an entry in a break is in no slot of the plan, and yet its discussion is
  planned. `OnceInv` is inductive for the steps that keep both conditions, which is what the
  temporal theorem asks for.
* *Restrictions*. `DiscussionSetPossibleSlots` stores nothing when as many slots are
  checked as there are slots that are not breaks. On a current form the checked slots are
  among these, so for finite sets equal counts mean equal sets. `FiniteSlots` is
  inductive because `TimetableSet` adds one slot for each of finitely many positions.
* *The heuristic* (`LoopInv`). Per slot the rows are where they may be, none is in two
  places, none that is still to do is more popular, and the slots of those left out are full
  of rows as popular. The part that needs arithmetic is that a slot with a place left
  is found: the delta of a score is never negative (`ScoreGrows`), as the sum over
  users of a maximum that only grows, so with the empty places added it is above zero,
  and among finitely many slots there is a first with the highest score (`BestExists`).
  For the plan, `LocationRanks` shows that the j-th location exists and that the
  numbering is one to one and in order whatever gaps the ids have. Sums are folds of
  the community modules, and facts on them are proved by a least
  counterexample (`WFMin`) in place of an induction rule.
* *Requests* (`WebInv`, `PublishInv`). A request at a stage has the copies of that
  stage, and at "edit" its copies gave the right to edit (`EditAllowed`). Each step
  is then one operation of `EventStore` or changes no table, which is the refinement.
  The copies may be old when the edit commits. Nobody but an administrator profits: the edit
  of another user writes that user as owner, and `DiscussionUpdate` reads anew
  whether the owner is verified.
* *Atomicity* (`LoopInv`). Two parts carry it. `Exclusion`: no two connections hold
  locks on one table of which one is a write lock. `PlainOK`: what a transaction
  has seen is exactly what is now in the tables of its statements so far, because
  it holds locks on them. So at the commit, or at the last statement when there is
  nothing to commit, it has seen one state of all of its tables, the present one, and
  that is the moment at which the operation happens. `Fits` is needed here: a
  statement on a connection of the pool must come last and after nothing that was
  written. For a listing `ListOK` keeps this for the table of the list alone.
* *No callback twice*. A step moves a call backwards only when a loop starts over.
  Apart from an error of the callback, the outer loop of a listing does so only
  before the list is read, since later
  statements are repeated by inner loops, whose giving up is not an error to repeat for,
  and since nothing is written, no commit can be refused. The inner loop goes back to
  the beginning of the discussion it is at.
* *Server* (`ServerInv`). `LockExcludes` needs that whoever went past the lock has it
  (`LockInv`), which every end of a process must preserve.
* *Sessions* (`SessionsInv`). A session that was generated never changes hands: it is its
  user's, or ended (`BoundTo`). What a browser was told, what a request found in the
  middleware and what the answer under way says are each bound to the session of
  their cookie in this way (`Sound`), and so agree. That an answer may be believed needs
  `RivalsOK`: of requests that sign one browser in or out at once, all count as
  contested, and the one without a rival still has the browser's cookie.

Only model-checked: `PlanMade`, `CallReturns`, `StatementReturns`, `ShutdownCompletes` and
`WaitTakesOver`, as liveness is out of the prover's reach. Every invariant and action
property of a passing run is a theorem, and so is `ScheduledOnceUnlessOverlap`. `OnePerPlace` and
`NeverTooMany` are only proved.

## 5. Plan

Done, in this order: `EventDB` and the operations, `EventStore`, `Heuristic`,
`WebHandlers`, the proofs about `EventStore`; `Statements`, `AtomicOps` and `TxLoop`,
`Server`, `Sessions`, and the proofs about these three; the proofs about the
scheduler, the heuristic and the request handlers.

Next:

1. The steps of the liveness properties that are safety: that every loop of `TxLoop`
   and the loop of `Heuristic` count down a measure.
2. What a signed-in request of `Sessions` and a request of `WebHandlers` have in
   common, so that `OnlyTrustedPublish` speaks of the browser's user.
3. `editTimetable` as read, edit and write, with the conversion to and from the
   edited text, instead of any timetable at any time.

## 6. Not modelled

Templates, static pages, time zones and rendering have no state. Passwords and
their hashing, profiles, and the random generator of the ids, are not about order or
consistency. The test mode and `testdata.go` make up data. The contents of the
verification code are left out: a registration or a "verify" form either has it or
not. The creation of the tables (`openDb`, `newKVStore`) happens before anything else
and is not interleaved with anything. Reading of the configuration and the command
line is left out, apart from what a start does to the database
(`handleAdminPwd`) and the keys that `Server` reads. What another process writes is not
seen by `TxLoop`, which has it only as an obstacle: the connections of one process read
through one cache. `setstatus` is four exchanges; each flag is read by itself, and no property
relates them.
