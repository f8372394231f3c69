# TailProduce, verified

TailProduce keeps typed streams of entries in LevelDB: publishers append, listeners
follow. This directory holds TLA+ models of its core, the TLC runs that check them on
small instances, and proofs, checked by TLAPS, of what matters most for every
instance. Paths below are relative to `src/src/` of the repository.

## The system

| Component | State | Operations | What is hard |
|---|---|---|---|
| Publisher (`publishers.h`, `stream.h`) | `stream.head` in memory; head and entries in the storage | `Push`, `PushHead`, `GetHead…` | two writes that are not atomic, exceptions between them, restarts, a secondary key that wraps |
| Listener (`listeners.h`) | cursor, end, iterator, flags | `HasData`, `ReachedEnd`, `ProcessEntrySync`, `AdvanceToNextEntry` | iterators that read snapshots, are dropped and recreated behind the cursor while entries arrive |
| AsyncListener (`listeners.h`) | a thread, `terminating`, `cycles` | the loop of the thread, `WaitUntilCurrent`, destructor | the mutex is released between the listener's calls |
| Order and storage keys (`order_key.h`, `config_values.h`, `fixed_size_serializer.h`) | none | compose, decompose | the order and the intervals of the strings |
| Storage (`storage_leveldb.*`) | a `leveldb::DB` | `Get`, `Has`, `Set`, `SetAllowingOverwrite`, iterators | writes are not synced |
| Stream creation (`stream_manager_params.h`) | streams to create | `CreateStream`, `Apply` | failure halfway; a look and a write that are not atomic |
| Static framework (`static_framework.h`, `tailproduce.macros`) | declared streams, publishers, exporters | construction, destruction, `HandleRequestSync` | exceptions in constructors; frameworks constructed side by side; requests before the members exist and after they are gone; heads read once from a storage that others write |
| TCP server (`tcp_server_singleton.h`) | an accepter and a handler per port | open, (un)register, a thread per request | handlers outlived by requests; clients that never send or receive; a mutex held while one is refused; exceptions that end the process |
| ClientThreadsRespecter (`client_threads_respecter.h`) | a count, a flag, a mutex | register a client, end it, destructor | the destructor racing new clients |
| Subscriptions (`event_subscriber.h`) | a set of subscribers | (un)subscribe, `PokeAll` | the set changes while it is walked |
| Dispatcher, serialization (`dispatcher.h`, `serialize.h`) | none | serialize, deserialize and process | entries cut off to a base class; versions of the program that list or register other classes |
| Byte order (`byte_order.h`, `tp_endian.h`) | none | `as_msb`, `msb_to_host_order` | |

A framework owns streams; a stream has one mutex (`StreamBase::lock_mutex`), which
`Push`, `PushHead` and each call of a listener hold from the first statement to the
last. Everything a listener learns of a publisher goes through the storage: `PokeAll`
follows each push but all the `Poke` functions are empty. User code runs outside the
mutex, in the thread of an AsyncListener, and may push.

What should be true: a publisher never reuses a key or goes back, whatever fails and
after any restart; a listener delivers each entry of its range once, in order, and says
correctly whether there is more; an AsyncListener catches up, can be waited for and
ends; streams that share a storage do not meet; a framework that fails to be
constructed leaves nothing behind but streams, and takes none back to its beginning unless another
creates the same one at the same time; the head in memory is that of the storage, unless that
happened; a client that is silent holds up nobody else; an entry is processed as the class it was
pushed as; the destructor of a ClientThreadsRespecter waits.

## The modules

    OrderKey <- Publisher <- Listener <- AsyncListener
                    ^           ^  \__ INSTANCE TailLog (abstract)
             PublisherProofs <- ListenerProofs <- AsyncProofs
    OrderKey <- KeySchema <- KeySchemaProofs      TCPServer <- StaticFramework <- FrameworkProofs
                    \__ INSTANCE StreamStore (abstract)
    Numerals <- KeySchema, ByteOrder              ByteOrder <- KeySchemaProofs
    Subscriptions <- SubscriptionsProofs      Serialization <- SerializationProofs
    ClientThreadsRespecter <- RespecterProofs

- **OrderKey**: keys, their order, and `NewHead`, the arithmetic of
  `PushHeadUnguarded`. Widths are the constants `MaxPrimary` and `SecondaryModulus`; the
  increment of the secondary key wraps as the unsigned integer of the code does.
- **Publisher**: `push` is the call that holds the mutex. `Push` is `Lock`, `MoveHead` (the Put
  of the head and the assignment of `stream.head`) and `SetEntry`; `RejectBackwards`,
  `MoveHeadFails` and `SetEntryFails` are the ways an exception leaves it.
  Between any two steps the process may end (`Crash`) or the machine (`PowerLoss`, which
  takes the storage back to `durable`, what `Flush` last wrote back). Flushing writes back all
  that was written so far, at any time, as a log that is appended to is. Entries are
  represented by their keys.
- **Listener**: each public call holds the mutex throughout and is one step. `Remaining` is what
  the listener's iterator shows, created on the spot if it has none; `Looked` is the listener
  after `HasDataUnguarded`. An iterator is the set of keys left in its snapshot. `begin` and
  `consumed` are history.
- **TailLog**: the promise, an append-only log with readers, in 70 lines. `ImplementsLog` in
  Listener is the refinement: the log is `stored.data`, a reader has read what its listener
  has advanced past.
- **AsyncListener**: `ThreadFunction` statement by statement around Listener's actions, and the
  owner who creates, waits and deletes. `cycles` is abstracted to whether it differs from
  `safe_cycles`; `beyondInt` says that it no longer fits the `int` it is copied to, which may
  come about with any cycle. `ProcessEnds` takes the process, its listeners and threads, at any
  point: so does an exception of a processor.
- **KeySchema**: the strings, character by character, as they decide what lies in an
  iterator's interval; several streams, whose names continue one another, in one storage.
  Names are C++ identifiers, as the macros make them from the names of types. `CreateStream`, `PushHead` and `Push` are a step each, what can come between
  their writes being Publisher's matter: a push that fails halfway is a `PushHead`.
- **Numerals**: numbers as strings of digits. The number of digits is counted by comparing with
  `Largest(base)[d]`, 99...9 in base ten; `Rest` divides by the base again and again. And `Before`, the
  order of strings.
- **StreamStore**: the promise of the schema, each stream as if alone in the storage: a head and the
  keys of entries. It is what Publisher and Listener take a stream for. `ImplementsStore` in KeySchema is
  the refinement; `StreamsInStorage` reads the streams from the strings of the storage alone.
- **Subscriptions**: the set of subscribers, and the threads that walk and change it. A push is
  `BeginPush`, `LockStream`, `UnlockStream` and a `PokeNext` for each subscriber. `Construct` to
  `Return` is the factory, `Destroy` to `UnregisterSubscriber` the destructor. An insertion or
  removal takes from one step to another, in which the listener is in `changing`: a walk
  in between is a data race, and the model goes on as if it were not.
- **TCPServer**: one port, its serving thread, and the threads of requests. What a handler does
  with a request is left to the module of the handlers. `handler_mutex_` is held for a step but when
  a client is refused: from `Dispatch` to `Refused`, while "500" is written, nobody can register
  (`HandlerMutexFree`). The thread of a request is "reading" until its client sends (`Send`), and
  "answering" until the client has taken the answer (`Receive`); a client need never do either. A
  request whose handler is gone while it runs is "lost": the code's behaviour is undefined there.
- **StaticFramework** extends TCPServer, the handlers of which are the frameworks: their
  construction (`Begin` to `Constructed`), what undoes it (`DestroyMember`,
  `UnregisterHandler`), pushes, by which the heads in `storage` and in memory move, and
  `ProcessEnds`, which leaves the storage and nothing else. Each framework is constructed and
  destroyed by a thread of its own. To create a stream is two steps, `ApplyLooks` and `ApplyPuts`,
  as `Set` looks and writes with nothing held in between; `ApplyFails` is each way `Apply` can throw.
  `together` is history: two frameworks had a stream to create in common at the same time. A request
  that looks for its exporter while one may be added (`AddsExporter`), or finds one that is gone, is lost.
- **Serialization**: an entry is its class. `DispatchTo` is RuntimeDispatcher; `SerializedAs` the
  class of the copy that is serialized, `seen` that of the object the processor is called with.
  `Upgrade` starts another version of the program, with other lists, on the same storage. JSON and
  binary differ in the archive only; a stream of a fixed type has an empty list.
- **ByteOrder**: `as_msb` on the bytes of an integer, which are its digits in base `Radix`, as pure
  operators. TLC compares them with the order of the integers as an assumption of MCSerialization.
- **ClientThreadsRespecter**: each access to `ref_count_`, `destructing_` and the mutex is a step.
  `late` (a client was counted when the count had come to zero) and `unheld` (a thread without
  a client registered one) are history.

Operators whose comment begins with "A defect" are variants of the operator below them,
with a bug someone could have written. No specification uses them; putting one in the
place of the original makes TLC violate the property it is paired with in
`PROJECT.json`, which shows that the property depends on the code.

## The runs

| Run | Instance | Shows |
|---|---|---|
| `publisher` | 3 primary keys, 5 secondary, 4 moves of the head, streams created at zero and past it | memory and storage agree on the head, entries never past the head, no overwrite, no hole after a power failure, the head goes forward, keys in the order of pushes |
| `publisher_head_goes_back` | 2 primary, 2 secondary keys, 4 moves | violation: the head goes back when the secondary key wraps |
| `listener` | 2 primary, 4 secondary keys, 3 moves; a listener with one of 4 ranges at a time | nothing skipped, the next entry is shown, the second `HasData` is exact, the end is final, and the refinement |
| `listener_has_data` | the same | violation: one `HasData` may miss an entry |
| `async` | 2 moves, 1 AsyncListener | the worker never throws and processes the next entry; two waits are a barrier, while `cycles` fits an `int`; it catches up, waits return, deletion returns |
| `async_wait` | the same | violation: one wait is no barrier |
| `key_schema` | 3 names, base 2, 4 keys in the storage | intervals and order of the strings, heads read back, streams as if each had its own storage |
| `respecter` | 3 threads with up to 2 clients, any of which start with one | the count is that of the clients there are; the destructor waits unless a client comes late, none does if clients are registered by threads with clients, and it returns |
| `respecter_destructor` | the same | violation: without that the destructor does not wait |
| `framework` | 2 frameworks of 4 members, 2 streams moved once, 2 requests | the handler is the right one; heads in memory are those in the storage and streams are not taken back, unless two frameworks create one together; requests are answered beside silent clients; constructions and destructions end |
| `subscriptions` | 2 owners, 2 listeners | walks race with other threads' listeners only; subscriptions exclude one another and pushes; the destructor returns |
| `serialization` | a class, one derived from it and one from that; 5 versions; 2 entries | what is stored can be read, is processed as the dispatcher finds, and nothing is cut off |

Why the bounds are enough. A hazard of Publisher needs a call that fails, one that
succeeds on the same primary key, one on a larger, and a power failure that loses a suffix:
four moves have all of it, and fewer secondary keys than moves make it wrap. A listener's
needs an entry before its iterator, one after it, and one past the end: three moves, with
ranges whose end lies before, at and past them. Listeners share nothing that
they write; the run of two (2.8 million states) was made by hand and found no more, and the
proofs are for any number. The thread of an AsyncListener shows all it does with two entries,
one stored while the thread is between any two of its statements. Base 2 gives numbers of
several digits with few keys; `SizeInBytes` and the packing take the base as a parameter.
The names A, A0 and AA have characters below and above the delimiter after a common prefix.
The first client, the last client and one in between need three threads. One framework that is
complete and one that fails need two, and the second stream, created or not, decides which; one move of a head makes it differ from a
new stream's and from one that was read before, and the run with two moves (225 thousand states) was made
by hand and found no more. A silent client and one that it could hold up need two requests. Two owners and two listeners have a walk meet
a listener of the same thread, of another, and that of the walking worker, behind and ahead of
it; the run of three listeners (253 thousand states) was made by hand and found no more. A chain
of three classes has a pair in either order of the list, and two entries may differ in the
version that pushed them.
CHECK_DEADLOCK is off for ClientThreadsRespecter only: a destroyed object has no next step.

Fairness. Threads are scheduled, so steps of a thread that can go on are weakly fair. For the
AsyncListener the properties add a hypothesis, `Quiet`: from some time on no push holds the
mutex. `std::mutex` is not fair, and a publisher that pushes without end could keep a listener
from the mutex for ever; nothing in the code prevents it. `OthersQuiet` in Subscriptions is the
same of all threads but the one the destructor waits for. User code is taken to return:
processors, and the code of clients, which is told to look whether it is time to tear down.
`Accept` is strongly fair, since the system's queue of connections is first in, first out.
Clients are not fair at all: one may connect and never send a line, or never take its answer, and
`RequestsAnswered` counts neither as the server's to end. That `Refused` is fair is no assumption
on the client: the four bytes of "500" fit the buffer of a socket that was just accepted, and a client
that has gone makes the write fail, which ends the process. `ConstructionEnds` excepts clients that
connect again and again, for the sake of the same mutex that need not be fair.
Owners need not ever destroy anything, and publishers need not push.

## Findings

Four of the runs show the code doing other than its comments or tests say: the secondary key
wraps under "Order keys should only be increasing" (`publishers.h:49`); `HasData` may answer
false when "more data is available" (`listeners.h:81`); one `WaitUntilCurrent` is not the barrier
the tests take it for (two in a row are, until after 2^31 cycles: `listeners.h:235` copies a `size_t`
to an `int`); and the destructor of a ClientThreadsRespecter does not wait for a client counted between its last
release and its end (`client_threads_respecter.h:10`).

## The proofs

Eight modules hold the theorems, which TLAPS checks for all values of the constants: widths of
keys, names of streams, numbers of moves, listeners, threads, clients, classes, versions, frameworks,
requests. Every safety property of the runs that expect to pass is among them. The
assumptions are those of the modules on their constants, which TLC evaluates in the runs. The
theorems of Publisher but `TypeCorrect` and `HeadsAgree`, and those of Listener and AsyncListener, also
need `NoWrap`: that no initial head is within `MaxMoves` increments of the secondary key's wrap. It
is a hypothesis of each theorem and not assumed, since without it they are false, as
`publisher_head_goes_back` shows. Each component has an inductive invariant, at the end of its module,
of which its properties are parts or consequences; TLC found all of them invariant before they
were proved.

*Publisher.* `IInv` is `TypeOK`, `MemoryAgreesWithStorage`, `EntriesNeverPastHead` and
`PowerLossLeavesNoHole`, strengthened by two facts. `NextEntryIsPastAll`: between the two writes
of a push the new head is past every entry, not merely not before; that is what the Set relies on,
and it needs the mutex, for nobody else may store in between. `HeadsWithinBudget`: every head,
the durable one included, is so far from wrapping that the remaining moves do not suffice; it has
to speak of the durable head because a power failure makes it the current one. From `IInv`
follow `HeadCorrect`, `NoOverwrite`, `NoHole`, and for steps `HeadMonotonic` and
`KeyOrderIsPushOrder`.

*Listener.* The properties are not inductive, as they do not say what iterator and cursor have to
do with each other. `LInv` adds `CursorOnEntry`, the cursor is an entry once it has moved, and
`IteratorShowsPrefix`: what an iterator shows is ahead of the listener, and comes before all that
is ahead and not shown. A new iterator shows all that is ahead (`NewIteratorShowsAll`); an old one
a prefix, as entries are appended past the head (`GoodWhileAppending`, from Publisher's
`IInv`); so the first it shows is the first ahead (`RemainingFirst`). `ListenerInvariance` is
`IInv /\ LInv`; from it follow `NothingSkipped`, `ShowsNext`, `SecondHasData`, `EndFinal`, and the
refinement, `Refinement`, step by step in `LogStep`.

*AsyncListener.* Steps of the workers are steps of Listener, so `IInv /\ LInv` carry over; `AInv` says
what a worker knows at each statement, the mutex having been released since it learnt it. `ShowsAtStatement`:
past `HasData` the listener still has an iterator that shows an entry, as publishers only append and
nobody else calls this listener; hence `NeverThrows`. `ProcessedIsConsumed`: what the processor was
given is what the listener advanced past, plus the entry at hand between the two calls. For
`TwoWaitsSuffice` the invariant follows the cycles. The first wait may end with a cycle that found no
data before the wait began; the cycle after that has looked since, so at its end, which the second
wait needs (`CycledSince`), all that was due is processed (`SecondCycleLooked`).

*Subscriptions.* `SubInv` says which steps are taken holding the mutex (`HoldersHoldMutex`), where threads of
owners and workers can be (`InTheirPlaces`), and that an owner is busy with one listener at a time
and what its own step tells of that (`BusyWithOne`): a listener is being added before its worker
starts and removed after it exited. So subscriptions exclude one another and pushes (`Exclusion`), and
a listener that changes under a walk is neither the one that walks nor of the owner that walks
(`ForeignRaces`).

*Serialization.* Dispatching twice is dispatching once (`DispatchTwice`): the first class of the list that fits
an entry also is the first that fits the copy cut off to it. It is the entry's own class when the list
has it, derived classes first (`FaithfulIsExact`). `SerInv` says that each entry is stored as its version
dispatched it, and seen as this version dispatches that (`History`).

*ClientThreadsRespecter.* `ref_count` is the number of clients, the cardinality of `Counted`, kept step by step. As long
as no client is late, the mutex is held while the count is not zero; the count comes to zero once,
and of the threads and the destructor exactly one is about to unlock then (`OneUnlocks`). A
destructor that gets the mutex thus has no clients left. `HoldersAreCounted` has it that a
thread with a client keeps the count from zero, so none of its registrations is late.

*StaticFramework.* Any number of frameworks are under construction and destruction at a time. The one that the
server has as its handler is the only one with members (`Right` of FrameworkProofs has the
invariant framework by framework), so another has no heads that could be out of date when its
publishers move them (`HeadsOfRegistered`, `RegisteredSteps`). What could still move a head under it
is a late `Put` of another's `Apply`. `CreatorsApart`, no two frameworks have a stream in common yet
to create, is kept by `Begin` because it records in `together` when that ends; and with it
`PutsAreNew`, a stream that was found not to exist does not until it is put there, since nobody
else would create it. That is what `HeadsAreCurrent` and `HeadsAreKept` need, and both say so by
their condition: without it TLC finds one framework look, another one create the stream, register and push,
and the first one put the stream back to its beginning. A step of one framework leaves the
others right (`StepOfOne`), and requests disturb none.

*KeySchema.* `SchemaInv` says what strings the storage holds: the heads that memory has and the entries
that were pushed, each under the key made of it, and that a name without a head has no entries. The
rest is about strings. Functions defined by recursion are first shown to compute what they say
(`RecursionDefines`: a function on 0 .. n exists for each n, they agree, and their values at n are the
function), with induction from the library's theorem that every set of numbers has a least
element (`LeastOf`, `Induction`). So `Rest`, `Largest` and `NumberOf` can be unrolled (`RestIs`,
`LargestIs`, `NumberOfIs`), the width of a type is enough for its largest number (`WidthSuffices`, `NumbersFit`), and numbers and
their digits determine each other (`NumberOfDigits`, `DigitsOfNumber`): `HeadReadBack`. For the order it
is enough to know where two strings first differ (`DifferAt`, `BeforeWhereDiffering`). Two numbers of
one width do at their largest differing quotient, whose digits decide which number is smaller
(`DigitsOrdered`), so two keys do in the primary or the secondary part (`EntriesOrdered`):
`StringsOrderedAsKeys`. Two names differ in a
character, or one ends and the delimiter stands against a character of the other; neither the
delimiter nor its successor, which ends the interval, is in an identifier, so that both ends of the
interval lie on the same side of the other stream's key (`OthersApart`). Heads begin with another
character (`HeadKeysApart`). That is `IntervalIsTheStream`, and that no two keys are one string
(`EntryKeysDiffer`), from which the refinement, `StreamsAreApart`, follows step by step in `StoreStep`:
what Publisher and Listener say of one stream holds of many that share a storage. The lemmas on digits
are for any base, so they serve the bytes of integers as well: a converted integer has the digits of
the integer in memory, the first one first (`MemoryOfConverted`), hence `IntegersOrderedAsBytes`.

Only model-checked: liveness, which is out of the prover's reach.

## Not modelled

LevelDB itself (its operations are described by how `storage_leveldb.cc` uses them; a Put that
reports an error has written nothing); the in-memory storage of the tests; the contents of entries
and their JSON or binary layout, which is the work of cereal; sockets, but for
who waits for whom and the exceptions that end the process; ports beside one, which share nothing; `HTTPResponseHandler`,
which keeps no state; listing streams for creation (`CreateStream`), which is over before the framework
exists; what `RunClientCode` returns; `FromCommandLineFlags`, which is declared only;
`UNUSED_Delete`; the `PushHead` of an order key, which does not compile when it is used; what a request that streams
does between its exporter's destruction and its framework's end. Data races on
plain members (`terminating`, the references `GetHead` returns) are undefined
behaviour; the models take such accesses to be atomic, and `PROJECT.json` lists them as hazards.
Two races are modelled: that of the subscribers, of which Subscriptions says who takes part in it, and that of
the map of exporters, after which a request is "lost".

## Plan

1. Done: all modules above, their inductive invariants and the proofs of their safety properties.
2. Models left: readers of the head, member by member, beside Publisher; an abstract specification
   of ClientThreadsRespecter, a lock of many holders, and `RunClientCode` with client code that
   throws; the exporter's listener in StaticFramework.
3. Proofs left: the abstract specification of ClientThreadsRespecter as a refinement, from `RespecterInv`.
