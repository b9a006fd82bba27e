# nostdb-server in TLA+

A model of `nostdb-server`, the NostDB per-user local daemon: TLA+ modules
translated from the Rust source, TLC configurations that check them on small
instances, and proofs of their safety properties for every instance.
Source lines are those of the crate's `src/` (`serve.rs:299`).
`PROJECT.json` gives, for every definition, the lines it stands for.

## The system

| part | state | operations |
|---|---|---|
| daemon lifecycle (`lib.rs`, `main.rs`) | process, stop flag, detached threads | `start`, `is_running`, `accept_until_shutdown`, exit |
| single-instance lock (`lock.rs`) | the lock on `daemon.lock`, the run directory's mode | `acquire`, drop of `Guard` |
| endpoint (`endpoint.rs`) | the socket file, the listening socket | `bind`, drop of `Listener` |
| connection loop (`serve.rs`) | outstanding request ids, the reply in hand | `serve_connection`, `dispatch`, `run_one` |
| transaction region (`serve.rs`) | one transaction, its own outstanding ids | `run_transaction_region` |
| sessions (`session.rs`) | at most one session per connection, the next id | `open`, `resolve`, `close` |
| messages (`message.rs`) | none | `decode_hello`, `negotiate`, `decode_request` |
| framing (`frame.rs`) | none | `read_frame`, `write_frame` |
| catalog (`catalog.rs`) | the document `catalog.json`, temporary files | `load`, `insert`, `remove`, `store` |
| Engine (`nostdb-core`, external) | the databases | open, begin, run, commit, roll back |

A process takes the lock, binds the socket and accepts. Each connection gets a
detached thread that runs `serve_connection`: a handshake, then a loop of read,
decode, dispatch, reply. `begin` enters a nested loop, the region, which owns
the transaction until `commit`, `rollback` or the end of the connection. The
threads share no memory but the stop flag; they meet in the databases and in the
catalog file, which other processes change too. A thread that served `shutdown`
sets the flag and connects to the daemon's own address, because the accept loop
is blocked and looks at the flag only when a connection arrives.

What is hard here, and what must hold nevertheless:

- *Connections interleave* between begin, commit and reply. A reply must be true
  of the database when it is written (`ReplyTruth`), and a database must change
  by one transaction's whole write set at a time, on request
  (`PublishedByRequest`).
- *Clients fail anywhere*: they disconnect in a transaction, stop reading, send
  half a frame. A transaction belongs to the region and ends with it
  (`RegionOwnsTransaction`); the thread ends too (`GoneClientIsCleanedUp`).
- *What was read may be stale*: a session id from before a close and reopen, in a
  `begin` or a query on its own (`SessionIdNamesOneDatabase`), a catalog that another process replaces while a
  session opens (`OpenSeesCatalog`).
- *Processes start, probe, stop and crash at once*, and the file they share is
  removed by name. Nobody may remove a live daemon's socket (`SocketOwned`), a
  dead one's may not block a start (`AddressFree`), and none may be reachable
  through an inherited wide directory (`EndpointRestricted`).
- *Stopping* needs a wake-up, and the accept loop must not be left waiting for one that
  nobody will make (`WakeUpComes`, `ShutdownStops`), whatever the client that asked, and
  the other connections, do (`ShutdownHonoured`). The one exception is the code's own: an
  error of the waking `connect` is ignored (`lib.rs:142`), and the daemon then stops only
  when somebody connects.
- *The catalog is shared by processes that die*. A reader must see one whole document
  or the other, nothing that this build does not know may get lost in a rewrite, and
  a document it refuses must be left alone (`ImplementsRegister`); its names must be
  ones the protocol lets through (`NamesAreSendable`), and a refusal must say what to
  mend (`FixableInTwoPasses`).
- *Bytes arrive in pieces*, and stop anywhere. What is read may depend on the bytes
  only (`BytesDecide`), and the end must be noticed (`EndIsReached`).

The full list, line by line, is under `hazards` in `PROJECT.json`.

## Modules

| module | extends | content |
|---|---|---|
| `Naming` | | the catalog's and the protocol's rule for names, over characters |
| `Message` | `Naming` | decoding and negotiation, over records of the members the decoder reads |
| `Serve` | `Message` | connection loop, dispatch, region, sessions; any number of connections |
| `Lifecycle` | | lock, endpoint, accept loop, exit and crash; any number of processes |
| `Daemon` | `Serve`, instance of `Lifecycle` | the connections of `Serve` in the threads of the processes of `Lifecycle` |
| `Catalog` | `Naming`, instance of `Register` | the document, and the processes that load, change and store it |
| `Register` | | abstract: a register that is read and replaced as a whole |
| `Frame` | | one direction of a connection as bytes |
| `MCServe`, `MCDaemon`, `MCCatalog`, `MCFrame` | | the messages, catalogs, documents and byte conversions of the TLC instances |
| `ServeClaims`, `LifecycleClaims`, `DaemonClaims`, `CatalogClaims` | | statements of comments, tests and `README.md` that the code contradicts |
| `Naming_proofs`, `Lifecycle_proofs`, `Frame_proofs` | the module they are about | theorems |
| `Serve_proofs`, `ServeSessions_proofs`, `ServeTruth_proofs` | `Serve`, each the one before | theorems: types and region; ids, catalogs and publication; replies |
| `Catalog_proofs` | `Catalog`, `Naming_proofs` | theorems, the refinement of `Register` among them |
| `Daemon_proofs` | `Daemon`, `ServeTruth_proofs`, instance of `Lifecycle_proofs` | theorems about the composition |

Definitions marked *mutant* change one definition the way a plausible bug would;
each is there to show that a property notices it, and no specification uses one.

### Message

A frame body is a record. A member that is absent, or has the wrong JSON type,
is `None`, as it is for the code, which reads every member through `as_str` or
`as_u64`. `decode_request` returns the first rule the body breaks, in the order of
the code's early returns. Strings are members of small sets, except database names,
which are sequences of characters (`Naming`), so that `path_shaped` is the code's rule
and not a partition by fiat. `bulky` marks a
request whose echoed strings make its reply exceed the maximum frame (JSON
escaping and the reply's own members can make a reply longer than its request).

### Serve

`pc[c]` is where connection `c`'s thread is. Reads are at `handshake`, `loop` and
`region`; `opening` and `loaded` are the two points inside `open_session` at which
the catalog may change; `auto` is `run_one` between its run and its commit; `reply`
is every call of `send`. The value `Ended` that `serve_connection` returns is the
last `pc`.

One action is one stretch of a handler between two points at which other actors
can be noticed: a request that only answers is one step, and its reply another,
because other connections commit, and its client leaves, in between. `out[c]`
holds the reply with the two things the code decides about it: whether a failed
send ends the connection (`must`, the difference between `is_err()` and `let _ =`)
and where the thread goes next (`then`). `Send` fails when the client is gone or
the reply does not fit (`large`).

`outstanding[c]` is the set in scope: the loop's, and inside a region the region's
own. The loop's is empty whenever a region runs, because `begin`'s id is removed
before the region is entered (`serve.rs:154-165`), so one variable serves both.

The Engine is external. A database is the sequence of the write sets committed to
it; a write is a fresh number. `Transaction::begin` may find any generation up to
the current one, since each session has a handle of its own. `commit` publishes
the whole write set over the generation it is based on, or fails; a transaction
that wrote nothing leaves the generation as it is. `run_cancellable` may fail, by
deadline too, having written or not. This is the contract `serve.rs` relies on, not
a model of `nostdb-core`.

`opened` and `seen` are history variables. They record what was opened under which
id on a connection, and which catalog documents were in place while an
`open_session` was served; no guard reads them.

Panics are not modelled: a panicking thread drops its stream, slot and transaction,
which is `ReadFailed`'s effect at another point.

### Lifecycle

Processes run `run` or `status`. `pc[p]` walks through `lock::acquire`,
`endpoint::bind`, the accept loop and the drops at the end of `main`, one file-system
call per step, and each may fail (`StartFails`, `AcceptFails`; a failed removal in
`DropListener`, which the code ignores, leaves the file) or be the last before a crash
(`Crash`). `sock` is the file at the address: absent, left over (`stale`), or
the socket of a process. `main.rs:43` binds `address` and `listener` and leaves the
guard in the scrutinee of the `match`, so the listener is dropped first: `drop`, then
`release`, then `exit`. Threads are detached and end with the process.

A connection's thread is reduced to `serving`, `asked` (it returned
`ShutdownRequested`), `stored` (it set the flag) and `none`. `Wake` is its connection
to the address, which reaches whichever process then listens there, or fails. The code
ignores the failure, so only the history variable `lost` knows of it; no guard reads it.

### Daemon

Connection `<<p, t>>` of `Serve` is thread `t` of process `p` of `Lifecycle`, whose
variables appear under their own names (`proc` for `pc`). `Accept` of one is `Connect`
of the other; the step with which `serve_connection` returns is the one with which the
thread learns its result (`InThread`); when the process ends or dies all its threads end
where they are (`EndThreads`), without a commit. Every other step of one leaves the
other's variables alone. Two daemons can thus be at the same databases, one of them
stopping: see `claim_one_instance`.

### Catalog, Register and Naming

A JSON object is a function from its members (`With` inserts one, `Over` all of another
object's), so that "an unknown member replaces a
member of the same name" and "a member that is taken out" mean in the model what they
mean in the code. `Torn` is a text that is no JSON object (half a document, too); `Bare`
is a value of the wrong kind, and as a `catalog_version` anything but a positive integer.
`Refused` and `parse` are the two results of `Catalog::parse`. A problem names the
document, one of its members, a name, or the entry under a name; the entry under a bad
name is not looked at (`BadEntries`), as the `continue` at `catalog.rs:238` has it. Paths are absolute or
not; `displayed` is what is left of a path in the text of `Path::display`, the same path
unless it is not UTF-8.

A process loads (`Load`), changes its `Catalog` any number of times (`Insert`, `Remove`)
and stores it: `WriteStarts` leaves a torn temporary file, `WriteEnds` completes it,
`Rename` moves it into place. Each may fail, and the process may end anywhere (`End`);
a later process may get its id and find its leftover. The commands that do this are in
another repository; the order load, change, store is that of the tests
(`catalog.rs:569`). There is no power failure: `store` does not `fsync`, so what a
rename that reached the disk before the data would leave is outside this model.

`FixableInTwoPasses` compares a refusal with what a hand edit does (`Mended`): an entry
under a bad name gets one of the `Spare` names and keeps its content, a bad entry gets a
good path. `catalog.rs:34` wants one such pass to be enough. It is, except for an entry
whose name and content are both bad (`Hidden`), which needs a second.

`Register` knows no documents, versions, temporary files or failures. Its value says
where each name points and which further facts are recorded; a process takes it,
points or forgets names, and puts it back. `ImplementsRegister` maps the file to
that value through `load` itself, so it holds only if `parse` and `to_document` are
inverse to each other in every respect a reader can notice, and the file is never
anything but whole. It allows one process to put back what another has since changed,
as the code does: see `claim_serialized`. `Serve` reads and replaces the catalog in one
step each; this refinement is what entitles it to.

### Frame

The writer is either `write_frame`, whose bytes the system takes in pieces, or a peer
that emits any bytes; it may be cut off between any two. The reader fills the prefix and
then a buffer of the declared size, in pieces of any size. The conversions between a
`u32` and the bytes of the prefix are constants that undo each other, which is all that
`frame.rs` relies on; the instance (`MCFrame`) has the big-endian ones. For
`from_utf8` a byte is ASCII, a lead byte or a continuation byte, so a character can lie
across two reads but not across two bodies. An interrupted read is made again and is no
step. `starts` and `begins` are history variables, the places in the stream where the
frames written and the frames read begin; no guard reads them.

## Runs

| run | instance | distinct states |
|---|---|---|
| `serve_one` | 1 connection, 2 databases, 2 catalog documents, 31 messages, 2 sessions, 2 writes | 296 000 |
| `serve_two` | 2 connections (symmetric), 1 database, 8 messages, 2 writes | 305 000 |
| `lifecycle` | 2 processes, 2 threads each, backlog 2, fairness | 46 000 |
| `daemon` | 1 process, 2 threads, backlog 1, 4 messages, 2 catalog documents, fairness | 234 000 |
| `catalog` | 2 processes (symmetric), 12 initial files, 2 names and 3 paths to insert | 39 000 |
| `frame` | bytes of 3 values, prefix of 2, maximum 3, streams of up to 7 bytes, fairness | 57 000 |

- `serve_one` covers everything one client can say, in any order, including every
  way a message can fail to decode. Two sessions and two names are what a stale
  session id or catalog document needs; two writes are what a transaction needs to
  be published in part; `MaxResultRows` is 0 and statements return 0 or 1 rows, so
  both sides of the ceiling occur. A second connection would add nothing to what
  one connection's `slot`, ids and catalog do, since those are not shared.
- `serve_two` covers what is shared: two transactions on one database based on the
  same or on different generations, commits between a commit and its reply, clients
  leaving in between. A third connection can only act as the second does.
- `lifecycle` has two processes that race for the lock and the address, and two threads
  so that two shutdowns overlap and fill the backlog. Its invariants are proved for any
  number of either; the instance is there for `ShutdownStops`.
- `daemon` has a connection with a session and perhaps a transaction beside one that
  asks for shutdown, in every order of arrival, with crashes and restarts. What the
  connections do to the databases is not different here from `serve_two`. The messages
  are a hello, `open_session`, `begin` and `shutdown`: with a query the run takes longer
  than is useful, and `auto`, the point a query adds, waits for nobody.
- `catalog` starts from a file that is absent, empty, in use (with unknown members at
  both levels), torn, of another version, or wrong in each way `parse` can tell, in several
  documents more than one at once, a bad name over a bad entry among them. The names inserted are a good one and one with a separator,
  the paths an absolute one, one that is not UTF-8, and a relative one. Two writers are
  what any race over one file needs.
- `frame` has a maximum below what the prefix can state, so that lengths at, above and
  below it occur; two frames fit into a stream, one of them possibly empty, and
  every character can be cut.

Bounds are guards: `MaxSessions` (ids minted on one connection), `MaxWrites`,
`Threads`, `MaxBacklog`. A client at a full backlog waits, as `connect` does; a
process with all its threads busy lets connections wait.

`MaxStream` bounds the bytes of one direction.

Deadlock is checked in every run but `frame`; none occurs, since a client can always
come back and a process can always be started. A byte stream ends, and so does `Frame`.

### Fairness

`daemon`: a thread that does not wait for its client keeps running (`Unblocked`); a
write to a client that is gone fails instead of blocking, as the socket reports the
closed peer; a client that is gone left finitely many frames, so its connection's
reads reach the end of the stream (strong fairness of `ReadClosed`, since in between
the thread handles those frames; `EndIsReached` of `Frame` is the same statement for
bytes). Nothing is assumed of a client that is merely slow: the stream has no timeouts,
so a thread may wait on one for ever, and no property says otherwise. `ShutdownHonoured`
therefore speaks of a shutdown whose reply was written or whose client is gone.

`daemon` and `lifecycle`: the main thread of a process (`Main`) and the threads of its
connections keep running once they need not wait for anyone, and a waiting connection is
accepted. Nothing is assumed of commands,
clients, failures or crashes. `ShutdownStops` and `ShutdownHonoured` except a process in
`lost`, one of whose threads could not connect; otherwise they rely on the wake-up
reaching the process that is to stop, and `SocketOwned` is why it does.

`frame`: the reader runs and the system delivers what was sent. Nothing is assumed of
the writer.

### Statements the code contradicts

Each of these has a run in which TLC finds the contradiction, and an entry in
`findings` quoting the line.

| run | says | does |
|---|---|---|
| `claim_outstanding` | `message.rs:299`: the set of ids in flight | a query without a statement leaves its id in the region's set |
| `claim_failures` | `serve.rs:79`: every failure is sent or recorded | a reply that does not fit is dropped and the connection goes on |
| `claim_sessions` | `session.rs:182`: a request naming another session is refused | the region never resolves the id |
| `claim_running` | `lib.rs:48`, `lib.rs:149`: a daemon is running | a status probe holding the lock is taken for one |
| `claim_one_instance` | `README.md:17`, `main.rs:54`: one instance as long as the daemon runs | a detached thread commits after the lock is released, while the next daemon listens |
| `claim_serialized` | `README.md:23`: serialized catalog mutation | a store reverts what another process stored since the load |

Smaller ones, visible in a single line of the code and without a run: `query` ignores
the database it names (`message.rs:156`, `serve.rs:259`); `close_session` inside a
region is refused where `message.rs:154` says that it rolls back (`serve.rs:436`);
`status` counts its own connection's session only (`message.rs:164`, `serve.rs:238`);
every failed handshake is answered with the version code that `message.rs:80` gives to
the version refusal alone (`serve.rs:100`); the address in `AlreadyRunning` is reachable
only once the holder of the lock has bound it (`lib.rs:54`, `lib.rs:78`). A statement's
writes are committed before its rows are compared with the ceiling, so a reply that
names `max_result_rows` can follow a durable write (`serve.rs:493`, `serve.rs:523`). A
path that is not UTF-8 is stored as its lossy display and read back as another path
(`catalog.rs:332`). The comment at `catalog.rs:381` wants no partial file left on a
failure; a write that fails leaves one (`catalog.rs:377`). A refusal of a catalog is to
list "every problem" (`catalog.rs:33`, `catalog.rs:168`) so that the document is "fixable
in one pass"; after a bad name the entry is skipped (`catalog.rs:236-239`), and a relative
path in it is reported only once the name is mended. The connection that wakes the accept
loop may fail, and that is ignored (`lib.rs:142`): the daemon then goes on accepting
nothing, told to stop, until somebody connects.

## Proofs

Every invariant and every safety property that a run checks is also a theorem, for every
value of the constants: any sets of connections, databases, catalogs, messages, processes,
threads, files, names and paths, any prefix width, maximum and stream. The assumptions are
`NamingAssumption`, `MessageAssumption`, `ServeAssumption`, `LifecycleAssumption`,
`DaemonAssumption`, `CatalogAssumption` and `FrameAssumption`, which TLC evaluates in
every run: an absent value is not one of the values; a sign is not a letter or digit;
messages, catalogs and the names in accepted files are well formed; the bounds are
naturals; the conversions of a `u32` undo each other. `Catalog_proofs` has one hypothesis
more, `TokensApart`: the values that stand for "no file", a torn text and a value of the
wrong kind are not JSON objects. In the instance they are model values, and TLC can
compare a model value with a function but cannot ask whether it is one, so it is
written in the theorems and not as an assumption.

**`Serve_proofs`.** `TypeCorrect` and `RegionOwnership`, the theorems
`Spec => []TypeOK` and `Spec => []RegionOwnsTransaction`. The second is not inductive
alone: that a thread in `auto` answers for a decoded request, or that a reply to
write exists exactly at `reply`, is needed to know what the next step builds. `Stages`
says this, and `Inv == TypeOK /\ Stages /\ RegionOwnsTransaction` is inductive. The
types of the replies are lemmas, one per constructor; preservation has one step per
action. The step that matters is that no action outside the region changes `slot`
while `txn` is set, which is why the refusal of `close_session` and `open_session`
inside it (`RegionOther`) is needed and not only tidy.

**`ServeSessions_proofs`.** `IdsNameOneDatabase`, `OpensWhatWasSeen` and
`PublicationIsRequested`. `KnownInv` ties the history to the state: every id of `opened`
is below the next one to be minted, the session in hand is among them, and the catalog a
thread has loaded is one of those `seen` since the request arrived. Minting is therefore
fresh, and an id keeps its database through every close and reopen: a `begin`, or a query
on its own, that names a kept id reaches that database or is refused. (A query inside a
region is not resolved, see `claim_sessions`; the property does not speak of it.) The two others are
action properties: from `KnownInv`, the few steps that change a session or a `log` do
what the property says, and all others leave it alone.

**`ServeTruth_proofs`.** `RepliesAreTrue`. A reply is written some time after the step it
reports, so the invariant has to say what cannot happen in between: in `TruthInv`
(`Fresh`) no write is in two of the open transactions, the databases and the replies that
give it up, and (`Spoken`) every reply not yet written finds its write set where it claims. What
other connections do then touches none of it, because the numbers they add are new and
`log` only grows. `PublishDurable` and `GivesUp` are the two steps that move writes.

**`Lifecycle_proofs`.** `TypeCorrect`, `SocketOwnership`, `AddressStaysFree`,
`EndpointStaysRestricted` and `WakeUpIsOnItsWay`. All rest on the lock. `LockHeld` says that the process
between `acquire` and the drop of its guard is the one holding it, so the points of
two processes between them never overlap; `DirNarrow` that the directory is narrow
once `bind` has restricted it, which no other process undoes. `Inv` is the
conjunction of these with `TypeOK`, `SocketOwned` and `AddressFree`.
`ThreadsAreOfThisRun`: a process that is not yet accepting has no connection threads.
`WakeUpIsOnItsWay` is the safety half of `ShutdownStops`. It needs `SocketOwned`, so that
the connection of a thread reaches its own process while that accepts, and `StopsServing`
(the flag is set only in a process that has been accepting), so that none comes to its
accept loop with the flag already set.

**`Daemon_proofs`.** `DaemonIsLifecycle`: the composition implements `Lifecycle`, so what
is proved there holds here (`DaemonOwnsAddress`, `DaemonIsWoken`) without being proved again. For
`Serve` there is no such refinement, since the end of a process does to many connections
at once what no step of `Serve` does. Instead every step of the composition either is a
step of `Serve`, or leaves its variables alone, or is `EndThreads`; and `EndThreads`
keeps `TruthInv` (`EndsTruth`), because it drops transactions and replies and touches no
`log`. That gives `DaemonTellsTruth`, `CrashPublishesNothing` and
`DaemonOpensWhatWasSeen`. `DaemonTypes` needs `Tied`, that connection and thread start and
end in the same step, and `Unthreaded` from the other side.

**`Catalog_proofs`.** `RoundTrip` is the lemma all rest on: `parse` accepts what
`to_document` makes of a catalog, and returns that catalog with its paths as
`Path::display` spells them. Its premise `Good` (names and paths are acceptable, no
unknown member hides a known one) is kept by `parse`, `insert` and `remove`. `Inv` says
that catalogs in memory, and the one in a file that is accepted, are good, and that a
process at `written` has exactly its own in its temporary file. From it follow
`TypeCorrect`, `SendableNames` (with `NamesAreNotPaths`), and `FileIsRegister`, the
refinement of `Register`, in which `Rename` is the only step that changes the abstract
value. `FixableTwice` says of every document, not only of those of the instance, which
edits make it acceptable: `MendedFaults` computes what is wrong after an edit, `MendedOnce`
applies it to the first refusal and `MendedAgain` to the second, by when no name is bad.

**`Naming_proofs`.** `NamesAreNotPaths`: a string that `name_problem` of the catalog
accepts is not one that `path_shaped` of the protocol refuses, for strings of every
length over any alphabet. It is the reason `NamesAreSendable` holds of every document.

**`Frame_proofs`.** `TypeCorrect`, `OnlyBytesDecide` and `MessagesArrive`. `Spells` says
byte by byte what stands where in the stream, so that a stream that grows keeps it
(`StreamGrows`) and no step needs an induction over a sequence. `Taken` and `Writing`
place every frame read and every frame written; `Reading` and `Ending` say what the frame
in hand has taken and why an error was returned; `Agreeing` is that, with `write_frame`
at the other end, both are at the same frame. It follows from the others at the moment
the prefix is complete: the same bytes stand at the same place, and a prefix states one
length.

Checked by TLC only, on the instances above: the liveness properties
`GoneClientIsCleanedUp`, `ShutdownHonoured`, `ShutdownStops` and `EndIsReached`, since temporal reasoning under fairness and `ENABLED` are out of the
prover's reach; that big-endian conversions undo each other, which needs an induction over
the width of the prefix; and the statements the code contradicts, which are
counterexamples.

## Not modelled

- The Windows endpoint (it reports `Unsupported`), help texts, the spelling of
  diagnostics, the test suites, `scripts/verify-repository.sh`.
- JSON syntax: a frame body or a document is what `serde_json` makes of it, or torn.
- A client that keeps its connection open and reads nothing: `write_frame` blocks for
  ever (`serve.rs:619`). The model has the behaviour (`Send` may never happen), and no
  property can promise better.
- Loss of power: nothing here calls `fsync`.
- Other users: `peer_is_another_user` is never raised by the code; the mode of the
  directory is what keeps them out.
- The Engine's storage, its recovery and its query language.
- An abstract store that `Serve` implements was considered and left out: with the write
  sets of `log` in the model already, it would restate `PublishedByRequest` and
  `ReplyTruth`.

## Plan

The components, their compositions and the safety properties are done. What could still
be added, in this order:

1. The safety half of `GoneClientIsCleanedUp`, as an invariant a proof can reach: a thread
   whose client is gone holds nothing that needs another actor to be released.
2. That `Frame` gives `Serve` the reads it assumes: a refinement of one connection's
   direction to a queue of messages.
