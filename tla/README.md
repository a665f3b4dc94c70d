# A specification of masqr

TLA+ modules for the core of masqr, model-checked with TLC and, for the parts it
matters most for, proved with TLAPS. masqr carries chosen traffic of a Windows
machine through a MASQUE tunnel: an adapter takes what is routed into it, an
engine keeps a tunnel open over HTTP/3 or HTTP/2, a resolver answers the
machine's names, and what it answers is what is routed. Source paths below are
those of the repository (`src/core.rs` and so on).

## The system

| Part | Code | State | Operations | Talks to |
| --- | --- | --- | --- | --- |
| Leases | `dns/lease.rs` | address → expiry | record, touch, expire, evict | written by the resolver and the sweep, renewed by the pump, read by routing |
| Routing | `core.rs`, `tun/mod.rs` | set asked for, v6 wanted and measured, rows installed | set_routes, set_wants_ipv6, set_carries_ipv6, install_union, apply | called by the pipe, the resolver, the sweep and the engine |
| Engine | `engine.rs`, `transport/carrier.rs`, `transport/connect_ip.rs` | phase, failures in a row, short lives in a row, HTTP/3 parked | connect, probe, pump, judge, back off, upgrade | queue and adapter on one side, endpoint on the other; woken by line changes and reconnects |
| Names | `names.rs`, watch in `dns/server.rs` | a rule in the registry, one watched name | claim and prove, give back, sweep | pipe, start and stop, Windows |
| Resolver | `dns/server.rs`, `line_source` in `core.rs` | policy in force and its lock, permits, addresses of the line by destination | install, answer, expire | policy, upstreams, asker, leases |
| Policy | `dns/policy.rs` | none | build, decide | resolver |
| Upstreams | `dns/upstream.rs` | a client per resolver | ask, ask again over TCP | resolver |
| Who asked | `dns/asker.rs` | a port table per protocol, images by process id | of_port | resolver |
| Packet queue | `queue.rs` | buckets, two service lists, CoDel's state | push, pop_batch, drop_stale, close | adapter's reader, engine |
| HTTP/3 | `transport/quic.rs`, `http3.rs`, `varint.rs` | per stream the bytes read and not yet a frame, settings seen, a oneshot for them, a watch for why the connection ended, who holds the connection | connect, the task of the control stream, send, recv, probe | engine |
| HTTP/2 | `transport/tcp.rs`, `capsule.rs`, `handshake.rs` | what is left of the ClientHello, capsules staged and granted room for, bytes read and not yet a capsule, the window, a ping in flight | connect, send, recv, probe | engine |
| Enrolment | `warp/enrolment.rs`, `identity.rs`, `api.rs` | identity on disk, device in use, time of the last registration | load_or_register, refresh | engine, start and stop |
| Adapter and session | `tun/mod.rs`, `tun/sys.rs` | the adapter's name, a session of Wintun, the thread that reads it | create, start, read, stop_reading, end | queue, start and stop, Windows |
| Control pipe | `control.rs` | none | one request at a time per connection, any number of connections | all of the above |
| Start and stop | `main.rs` | none | sweep the names, run, give the names back, hand the adapter over | all of the above |
| Line | `link.rs` | a registration with Windows | report a change | engine, `line_source` |

What is hard here, and is what the modules are about:

* Tokio runs the callers of the pipe, the queries, the sweep and the engine on
  several threads; each changes a part of what ought to be routed and then asks
  for a pass over the table (Routing).
* A request or a line report wakes only what waits for one at that moment; it is
  not queued (Engine).
* A link that drops HTTP/3 must cost its timeout once, and one that stops
  dropping it must be noticed (Engine).
* The thread inside the adapter's driver fills a queue that a pump empties, when
  there is a pump; neither may wait for the other, and no flow for another
  (PacketQueue).
* Windows keeps the rule and the cache when the core dies (Names).
* Windows may refuse any one row or any one write (Routing, Names).
* A question is asked under a read guard that is held across the upstream, by
  tasks that share a number of permits, and on the word of tables of ports,
  images and addresses that are looked up now and then while the machine changes
  (Resolver, Askers).
* The endpoint's bytes are cut anywhere, an end has two accounts, QUIC's and the
  one this side recorded, and tasks nobody waits for hold on to the connection
  (H3, H2).
* The thread that reads the adapter is inside the driver while the session must
  not end, a report is in delivery while the watch must not be freed, a
  registration is between two requests and a file, and the process can be killed
  at any of these points (Process).

What makes each part correct is stated at the head of its module's properties
and summarised under *Runs* below; `PROJECT.json` lists the hazards line by line.

## Modules

| Module | What it is |
| --- | --- |
| `Leases` | the lease table: an answer taken in address by address under the write lock, packets renewing, the sweep, eviction, the clock |
| `LeaseHistory` | `Leases` with a record of what was asked for each address; its properties |
| `RouteSet` | the promise of routing, abstractly: rows follow what is due, and at rest differ only by rows refused |
| `Routing` | `Leases` and its four kinds of writer, `install_union` read by read under the routing lock, `Routes::apply` row by row; implements `RouteSet` |
| `Engine` | the loop of `run`, the futures of `pump`, the choice and parking of carriers, and around them the line, the pipe and the adapter's reader |
| `Names` | the rule and the watch write by write, for requests that overlap and a core that starts, stops and is killed |
| `PacketQueue` | the buckets, the two service lists, the ceiling and the thinning of `queue.rs`, the thread that pushes and the pump that pops |
| `Policy` | what a policy may be, the index built from it, and `decide`; beside it the walk down the list of rules that the index must agree with |
| `Askers` | who holds a port and what a process runs, as Windows has it and as the core's tables remember it |
| `Resolver` | `Policy` and `Askers` under the tasks that answer questions, the policy's lock, the permits, the line's addresses, and the caller that installs a policy |
| `Varint` | integers of QUIC as bytes |
| `H3Frames` | frames over HTTP/3, the reader that finds them in pieces, the rules of SETTINGS and of the control stream, datagrams |
| `ConnectIp` | what both carriers share: how an attempt may fail, statuses, the hop limit |
| `H3` | one tunnel over HTTP/3, from the handshake to the last holder of the connection |
| `FrameHistory` | `H3` over streams as the endpoint means them, with what was read of each |
| `H2` | one tunnel over HTTP/2: the ClientHello, capsules out and in, the ping |
| `Process` | starts of the process on one machine: enrolment, adapter, session and reader, the watch on the line, the stop, the kill |
| `MC…` | the instances TLC checks, with the history variables their properties need (`Process` is checked as it is, `MCProcess` adds the time since a replacement) |
| `Leases_proofs`, `Routing_proofs`, `Process_proofs`, `Names_proofs`, `Engine_proofs`, `Carriers_proofs`, `Resolver_proofs`, `PacketQueue_proofs` | the theorems |

`Resolver` extends `Askers`, which extends `Policy`: a question passes through
all three. `FrameHistory` is `H3` with a record of what its readers have given,
over streams known by what an endpoint means by their bytes; `MCCarriers` puts it
and `H2` side by side, over the `Varint` and `ConnectIp` they share. A lease is one variable of `Resolver` and a module of its
own below `Routing`; what the two agree on is that an address is leased before its
answer is given, and that whoever finds it new has it routed.

How state and actions correspond to the code is in `PROJECT.json`, "map", one
line range per definition. In short:

* **Leases.** `held` is the map under the `RwLock`; `writer` is who has it for
  writing, with `left` and `changed` that call's locals. `Renew` is `fetch_max`.
  Time is a number of steps, `Tick` stops before a sweep would be more than
  `SweepEvery` late.
* **Routing.** Each task has a program counter. `AskFamily`/`AskSet` are the two
  stores of a `routes` request, `InstallPolicy` a `dns` request, `Learn` to
  `Learned` a query answered, `Sweep` the timer, `Measure` the engine's probe.
  All end in `install_union`: `TakeLock`, four reads, then `RemoveRow`,
  `AddRow` or `RefuseRow` until nothing is left to try, and `Release`. An address
  stands for its host route.
* **Engine.** `at` is where `run` is; `answering` and `upgrading` are the futures
  of `pump` that have a state of their own. `tunnel` is what is true of the one
  in hand: it carries, it hangs, or it broke. A broken one tells so itself (`Fails`:
  an error of sending, receiving or asking); of one that hangs the code learns only
  by asking and getting no answer, through `IntervalEnds` or `LineWakes` and
  `Settled`, then `Unanswered`. A line that changes may do any of this to it
  (`Suffers`), and Windows may report as often as it likes (`Report`). `told` is what
  woke a waiting future and has not been acted on. Durations are left out: a timer is
  set and unset where the code does it, and may go off whenever it is set; a tunnel's
  life is short or not.
* **Names.** `rule` is what of the rule is in the registry, `wrote` the claims
  whose open key is still the one there, `at` where each task is in `take_over`,
  `release` or `claim`. `used` is whether Windows acts on the rule, which it
  takes up when it likes. `GoesAway` is the end of the process at any step.
* **PacketQueue.** `packets`, `bytes`, `deficit` are the fields of each `Flow`,
  `listed` the buckets whose `listed` is set, `fresh` and `backlogged` the two
  lists, `total` and `count` the counters of `Inner`. A push is `Push`, then
  `DropFattest` until there is room, `Admit`, and `Notify` after the lock. A batch
  is `Lock`, then `Rotate`, `Serve` or `RunDry` per turn of `dequeue`'s loop, and
  `Hand`, `Finish` or `Wait` and `Await`; `permit` is what `Notify` stores. `Leave` is the pump
  dropped where it awaits. `Serve(n)` drops any `n` heads that `codel` could drop.
* **Policy.** A name is the sequence of its labels, `Lowered` what makes two
  spellings one. `Refused` is every early return of `build`, `Built` the two
  maps and the list of the rest with the number each rule has in the list,
  `Decide` the lookup, `Walk` what it promises.
* **Askers.** `owner` and `running` are the machine's, `reading`, `age` and
  `images` the core's. A table is read again once `age` reaches `TABLE_TTL`, an
  image only when the table of images was cleared.
* **Resolver.** `task[t].at` is where a task is between two awaits: its permit,
  the asker, the guard, the source of the address to ask from, the upstream, the
  second try over TCP, leases, routes. `readers` and `queue` are tokio's lock,
  first come, first served, a writer in the queue holding up the readers behind
  it. `pending` is what the caller of the pipe is installing. `lineAddress` is
  the truth of which `line` is the report and `sources` the memory.
* **H3.** `connect.at` is where `connect_at` is, stage by stage; each stage can
  fail by its timeout, by the connection, or by what the endpoint said. `peer[s]`
  is the task that reads a stream, its `FrameReader` and what is still to arrive;
  a chunk is any number of bytes of it. `offered` is the oneshot, `ended` the
  watch, `holders` the futures and halves whose drop closes the connection.
* **H2.** `hello` is what `HandshakeStream` has left to write and the segments
  written so far; the socket takes any number of bytes of a write. `staging`,
  `writing` and `capacity` are a run of packets on its way through flow control,
  `chunks` and `pending` the way back, `window` what is granted for it.
* **Process.** `pc` is where the start is, `enrol` the registration beside it,
  `reader` the thread in the driver, `calling` a report in delivery. `file` can be
  torn: `fs::write` empties it first. `adopted` is a record, for the properties, of the
  device last adopted, whichever start did it. `Exit` is the end of the process with the
  adapter not closed, which Windows then removes when it likes.

## Runs

| Run | Expect | What it shows |
| --- | --- | --- |
| `leases` | pass | an address leaves before its answers and packets allow only alone, to make room in a full table, and none that was held was asked for less long (`LeavesInTurn`); it is gone a sweep after they stop (`LetGoInTime`), and the table stays within its bound |
| `routing` | pass | what the core believes installed is installed (`BookkeepingIsExact`), neither half erases the other, edits that stop are followed, and `RouteSet` is implemented (`KeepsPromise`) |
| `routing_resolvers` | violation | the resolvers of a policy reached through the tunnel are not routed (`TunnelledResolversRouted`) |
| `engine` | pass | a link that drops HTTP/3 pays once, a take-over is silent, a tunnel that hangs without a word is found out whatever is reported meanwhile (`DeadTunnelNoticed`), the engine ends up on a carrier the line lets through, and back on HTTP/3 when it can |
| `names` | pass | a claim not carried is undone before it is refused, a proved one has made the machine forget, what a killed core marked is swept by the next, a core stopped with no claim still writing gives the names back |
| `names_proof` | violation | a claim whose watch was replaced is answered as proved (`ProvedNotAssumed`) |
| `queue` | pass | the counts follow every packet in and out and stay under the ceiling, buckets with packets are served in turn, thinning leaves two acknowledgements and the order, neither of two backlogs gets further ahead of the other than what makes good its overdraft, and a packet, and the consumer does not sleep over a packet |
| `resolver` | pass | the index answers as the list would (`FirstMatchWins`), a question is asked from an address the line had since the last report (`AskedFromTheLine`) and laid to a process that held its very port (`NamedHeldThePort`), every question ends, what is leased is routed, and a policy gets in beside questions that never stop coming |
| `resolver_install` | violation | a policy ready to be put in force waits for a question that is with its upstream (`InstallDoesNotWait`) |
| `carriers` | pass | over HTTP/3: a rule the endpoint broke is what the connection is closed with and told (`RuleBrokenIsTold`), no task outlives the connection or holds it up (`NothingOutlives`), frames come out whole and packets are those sent for this request (`GivenAsMeant`), an attempt returns, and a goodbye ends the tunnel. Over HTTP/2: the first segment of a split hello does not hold the name, a packet goes out once, packets come out of capsules whole (`PayloadsAsWhole`), the endpoint is heard through a window smaller than it says |
| `process` | pass | the session ends with the reader outside the driver (`EndedOutsideDriver`), the adapter is closed in order (`ClosedInOrder`), no start goes back to a device that was replaced (`NeverGoesBack`), and a stop ends |
| `process_replaced` | violation | a device registered in place of a refused one is registered again within the interval (`ReplacedSparingly`) |

Each violation is a finding: `PROJECT.json` quotes the line it contradicts. In
each, the passing run beside it states what does hold: `NeitherHalfErasesTheOther`
beside `routing_resolvers`, `UndoneBeforeRefusal` and `ForgottenOnceProved` beside
`names_proof`, `PolicyGetsIn` beside `resolver_install` (it waits, but gets in),
`NeverGoesBack` beside `process_replaced`.

### Seen in the models, and not run

The models show more places where the code does other than it says, or than one
would like. No run is kept for them; each is a short step from a definition.

* A full lease table drops whatever expires soonest, and packets renew a lease
  for no longer than `MIN_LEASE`: an address in use can go before one never used.
  `lease.rs:183-184` and `docs/reference/dns.md:86` say the idlest goes (`Soonest`). In
  an answer with more fresh addresses than there is room for, it can be one learnt a
  moment before. `LeavesInTurn` is what holds: it is one asked for least long.
* A pass reads the leases and the set asked for one after the other
  (`core.rs:295-296`): an address that passes from one to the other in between is
  in neither reading and loses its row until the next pass (`ReadLeases`,
  `ReadAsked`). `NeitherHalfErasesTheOther` is what holds.
* A claim that is under way when the core gives the names back writes its rule
  after that, and leaves it (`main.rs:526`; `names.rs:15` promises otherwise). The
  next start sweeps it.
* A flow that runs dry is taken off both lists (`queue.rs:433`), where the comment
  at 409-411 moves it to the back of the backlogged ones: two flows of single
  packets, always new, can starve a third. With `RunDry` written as the comment
  has it, they cannot.
* A reconnect ends the tunnel in hand early, which counts as a short life, and can
  park HTTP/3 again at once (`engine.rs:198`), though a reconnect is meant to let
  it be tried (`carrier.rs:148`).
* Of two questions with the same answer only the first finds the addresses new
  (`server.rs:342`); the second is answered without waiting for the first one's
  pass over the table, so that an answer can be out before its route is in.
  `LeasedIsRouted` is what holds: the route comes.
* A failed handshake is explained by the strategy and name selected when it failed
  (`tcp.rs`, `quic.rs`), which a request may have changed since it was begun
  (`control.rs:192`).
* Two of the places where a tunnel over HTTP/3 comes to its end give QUIC's account
  even where a reason was recorded: waiting for room (`quic.rs:424`) and the
  response (`quic.rs:249`); the other places look (`quic.rs:149-150`).
* `main.rs:549-550` has the reader parked on handing over a packet. A push never
  blocks; what keeps the reader from its quit event is only that it looks at it
  when the ring is empty. `StopEnds` holds because the hand-over has a limit.
* `identity.rs:80` writes the identity in place, and empties the file first. When the
  save of a replacement fails after that (`SaveBegins`, `ReplaceFails`), the core
  serves on with a device that is on disk no more, though `enrolment.rs:47` has the
  file be what it is kept in; when the core is killed there, nothing is left of it. The
  file fails every later start (`LoadTorn`), until somebody removes it and another
  device is registered. `NeverGoesBack` promises nothing against this: it says that no
  start presents an older device, and a start that fails presents none.
* Any masqr command sweeps the names when it starts (`main.rs:95`), those of a
  running core among them.
* An image is remembered until there are too many of them (`asker.rs:15-17`): a
  process id given to another program keeps the first one's name. `NamedHeldThePort`
  speaks of the process and not of its program for this reason.

### Bounds, and why they are enough

* `leases`: three addresses over a table of two, so that it overflows and there
  is a choice of whom to drop; times to live below, between and above the two
  bounds they are clamped to; answers of up to two records; six instants against
  a longest lease of four, so that leases run out, are renewed and run out again.
* `routing`: one task of each kind. Any two of them overlap; more tasks of a kind
  add only waiting for the same lock, and the theorems of `Routing_proofs` hold
  for any number. One v4 address, which can be leased and asked for, one v6
  prefix, which an earlier process may have left. A lease that falls due at once.
* `engine`: two sources, a run of two short lives rather than three, two steps
  of back-off, one reconnect, two changes of the line, and reports that change nothing without
  bound. Two changes are needed for
  a line that stops carrying and carries again; a run of two already tells "in a
  row" from "ever".
* `names`: two requests, which overlap at every pair of steps, and three lives of
  the core, so that one is killed, the next finds what it left and is killed too.
  The requests are interchangeable.
* `queue`: two buckets and five packets, one bucket shared by two connections,
  acknowledgements of numbers up to 8 on both sides of the wrap, packets of half
  a quantum and of one, a ceiling of two quanta and batches of two. The ceiling is
  met, credit is overdrawn, a bucket rotates, runs dry and is listed again, there
  is more than a quantum behind a head, and acknowledgements pile up three deep.
  Nothing bounds how often a packet is pushed or a tunnel comes and goes.
* `resolver`: two datagrams that overlap at every pair of steps and a connection
  that asks again, over two permits, so that somebody is turned away. Two policies,
  one of them with every kind of matcher and a rule for one program, and one
  input for each way a policy is refused. Two events, of policies, leases and the line
  (two changes are needed for a report that comes after the next change), or
  instead two changes of the machine with two processes over one port and a table
  of one image: the two do not meet but in which rule decides.
* `carriers`: two streams of the endpoint, a control stream that keeps the rules,
  cut in three pieces anywhere, and one that breaks each of them; a second stream
  that is another control stream, QPACK's, or unknown; every answer to the
  request. Over HTTP/2 five packets in runs of two, a window of three bytes under
  fourteen bytes of capsules, five strategies and a hello that holds the name, none,
  or is too short to be cut. `connect_ip::connect` waits for one carrier at a
  time, and the halves of HTTP/2 look at nothing of each other's, so that each is
  looked at by itself (`side`).
* `process`: three starts and three devices: one start leaves something, the next
  finds it and leaves something else, and a third finds that.

### Fairness

* `routing`: weak fairness of each task that has begun (tokio schedules it and
  the lock it waits for is held for a bounded time). Nobody is assumed to ask for
  anything. `AgreesWhenEditsStop` excludes edits without end.
* `engine`: weak fairness of each timer, which is enabled only while it is set: the
  interval (`PING_EVERY`), the settling, the question with its `PING_TIMEOUT`
  (`Check`), the parking; of attempts (bounded by `CONNECT_TIMEOUT`); of futures that
  have been woken; and of a broken tunnel's error reaching the pump. That a tunnel that
  hangs is found out is not among these: with the wait begun anew after a report in
  place of the question (`SettledAsleep`), reports that keep coming hide it for ever.
  Nothing is assumed of the line, of who reports or asks, nor of QUIC's own idle
  timeout.
* `names`: none; its properties are of safety.
* `queue`: weak fairness of the thread between the start of a push and its end,
  and of the pump's next step while there is a pump; strong fairness of the pump
  for the lock, since the thread lets go of it and waits for the adapter between
  packets. No packet and no tunnel is assumed to come.
* `resolver`: weak fairness of each task's next step, since every exchange has its
  `QUERY_TIMEOUT`, and of the installer's once it has begun. No answer, no policy
  and no report is assumed to come.
* `carriers`: weak fairness of the steps of `connect_at`, each of which has a
  timeout; of the branches of the receiver's `select`; over HTTP/2, of reading what
  has arrived and of the network delivering what the window admits. The endpoint
  need not say anything more.
* `process`: weak fairness of the main task once it is stopping, whose one wait
  has the limit `READER_HANDOVER`; of writing and adopting an identity; of a
  report in delivery. Nothing is assumed of the endpoint, and packets may never
  run out.

## Proofs

`Leases_proofs` proves the properties of `leases` for every set of addresses,
every lifetime bound and sweep interval. The invariant `HInv` adds to the
properties what they need to be inductive: nothing is remembered of an address
that is not held, what is remembered is of the past, no expiry is later than the
answers and packets account for (`NotTooLong`), and every lease outlives the last
sweep (`SweptAll`), which is never more than `SweepEvery` ago. An expiry is just the
one that answers and packets asked for (`ExpiryAsAsked`): what expires soonest
was asked for least long, and a sweep takes only what is asked for no more. `LeavesInTurn` follows step by step: a
record taken in lets go of one address at most (`RoomIsMadeInTurn`), a sweep of what
has fallen due (`SweepIsFair`), nothing else of any. The bound on the table needs a
second invariant over cardinalities, proved apart.

`Routing_proofs` proves that the table agrees with what is due at rest
(`AgreesAtRest`), that the bookkeeping is exact, and that `Routing` implements
`RouteSet`, for any number of tasks. Agreement at rest is not inductive: the
argument is in `IInv`. A task that has changed an input and not begun its own pass
*owes* one; while nobody owes, every reading the current pass has made is still
current (`ReadingsFresh`), and with no pass under way either the table already
agrees (`AgreesUnlessOwed`). A writer disturbs the readings only by coming to owe.
`NeitherErases` adds, over the record of what each half has held on to since the
pass began (`KeptAndRead`), that whatever has been held on to is in the union as far
as the pass has put it together.

`Process_proofs` proves the safety of `process` for any number of starts and of
devices. `StagesOK` ties the session, its reader and the watch to where the main
task is: each is put away by one stage and never comes back, so that the reader
was seen to leave (`HandedOver`) before the session ends, and a report has ended
(`Cancelled`) before the reader is asked to leave. `DevicesOK` adds that a
registration about to be adopted is on disk, and that neither the file nor the core
is behind the device last adopted, which is why no start goes back to one before it.

`Names_proofs` proves the properties of `names` for any requests and any number of
starts. `RulesOK` says of a claim whose writing still stands how much of the rule is
there, by how far the claim has come; the writing of one claim stands until another
creates the key again, so that a claim that finds its own mark also finds what it
wrote before it. `CanariesOK` ties a canary that came to the rule and the watch of
the claim that asked for it, `SweepOK` the sweep to what it has looked at. That a
quiet stop gives back (`QuietOK`) is about the history of the stop: the release sees
every rule a finished claim wrote, and no claim is left to write another.

`Engine_proofs` proves the types of `Engine`, for any waits, bounds and addresses,
that a take-over is silent, and that HTTP/3 is paid for once. What the first needs is
that a tunnel in hand, or on its way over, and the phase agree at every step
between (`HandoverOK`); the second is about the reason remembered for the parking.

`Carriers_proofs` is, over HTTP/3, about every endpoint, whatever it says and wherever that is cut.
`HoldersOK` gives who holds the connection by the stage of connecting, and that it is
closed once nobody does: no connection outlives its tunnel. `RecordOK` says that
what the streams recorded stays, and is recorded before the close that makes others
ask for it; so whoever finds a connection closed for a rule the endpoint broke
finds the record (`SaidOK`).

`ReadAsMeant` is about `FrameHistory`, and every set of streams as endpoints mean them
(`Meant`): a type, and frames that are as long as they declare, or are to be read and
declare more than is waited for, cut anywhere and left off anywhere. What the reader
holds of a stream and what is still to come, without what is left to skip, are the
frames after those taken (`ReadTo`): a turn of the loop gives the next, or skips it, or
stays (`PassAsMeant`, `LookReads`), and a chunk moves bytes from the one to the other.
What is discarded of an unknown frame leaves the same behind, whether its payload has
arrived or not (`DiscardKeeps`), which is what keeps a frame out of the payload of
another. Of datagrams the integers in front are read back, so that one which has a
packet for this request is, byte for byte, that packet sent for it (`PacketIsOfThis`).

Over HTTP/2 it is about every ClientHello and every run of packets. The first segment
hides the name since the cut, where there is one, falls inside its first occurrence,
and a buffer without a cut holds no name or is too short for it (`CutHidesTheName`);
`HelloOK` carries that to the segment that left. `SentOnceInOrder` is about bytes put
end to end: what was written, and the run that waits, are the capsules of the packets
handed over. For this `FlattenSeq` is first shown to be what its recursion says, by
counting up to the length (`Joins`, `JoinExists`): an induction over naturals whose
step is a set, and so within the provers' reach, where one over operators is not.

`TakenWholeInOrder` is about every sequence of capsules an endpoint frames, each as
long as it declares or declaring more than is waited for. What is put is read back,
in each of the four lengths, and of fewer bytes nothing is read (`PutIsGot`); so what
`take_capsule` makes of a beginning of what is on its way is the next capsule, or that
it is too long, or to wait (`TakenAsMeant`). `InOK` has what the tunnel holds, what
HTTP/2 holds and what is still to be said, put end to end, as the capsules after those
taken; that some `k` of them are taken is all a step changes.

`Resolver_proofs` begins with data: `DecideIsWalk` proves, for every policy that
`build` takes (`Policies` is whatever an application can write), that the least of
the candidates the index gives is the first rule in order that matches, and that
none is found where none matches. The rest is an invariant of the tasks. `PermitsOK`
and `GuardsOK` count permits and read guards as the tasks that are past taking them
and not past giving them back, `LockOK` gives the line for the lock each task once,
and the caller that installs its place; `SourcesOK` and `LookedOK` say that what is
remembered of the line was true at the last report, or is retired by it; `HeldOK`
that who a table names for a port held it when the table was read.

`PacketQueue_proofs` proves the safety properties of the queue, for any buckets,
packets and limit, and any interleaving of the adapter's thread and the pump. The pump
does not sleep over a packet: a bucket with a packet is listed, a listed bucket is on
one of the two lists, and while the consumer is idle over something it was told, or
the thread that brought it is about to tell (`IdleIsTold`). Thinning leaves two: the
argument is about wrapping numbers (`ModReaches`) and places in a sequence
(`NthThere`). The counts are exact (`NothingIsMiscounted`): a sum is a fold over a set,
shown to be the sum of its parts by the smallest set that is not, and every way a
packet comes or goes, thinning several at a time, changes the sum by what it changes
the counters by. That no counter goes below zero follows, and with it the types
(`QueueTypes`).

Of two backlogs neither is starved. On the lists each bucket stands once, and no credit
is further below zero than a packet overdraws it (`RoundInv`). While one bucket waits,
what the other has been given, with the credit it has left, is no more than the quanta
it was handed; and each round hands one to the bucket that waits as well, so that the
quanta still to come before that one has its turn are as many as make good its
overdraft (`FairTo`, `ToCome`). The bound holds with packets larger than the quantum
too, as `--mtu` allows.

The assumptions are those named in the modules: bounds are positive naturals with
`MinLease <= MaxLease`, the sets of tasks are disjoint, buckets are finitely many, each
packet fits the queue's limit, the name in a ClientHello is longer than one byte,
capsules and frames are as long as they declare or declare too much, the integers of
what comes in are in their shortest form, and what is installed are policies. TLC evaluates them on every run.

The invariant of every module of state is typed first. `Leases`, `Routing`, `Process`,
`Names`, `Engine`, `Resolver` and `PacketQueue` have their type invariant proved.

Only model-checked:

* liveness: `AgreesWhenEditsStop`, `DeadTunnelNoticed`, `CarriesWhereItCan`,
  `ReturnsToH3`, `RoundRobin`, `QuestionsEnd`, `LeasedIsRouted`, `PolicyGetsIn`,
  `AttemptReturns`, `GoodbyeEndsIt`, `EverythingIsHeard`, `StopEnds`. The prover does
  not reason about fairness.

Every invariant and every property of steps that a passing run checks is proved.

## Not modelled, and abstractions to know of

* What packets hold, and how many bytes: a tunnel carries or it does not. The
  carriers tell packets apart by the fields `send` looks at.
* Windows: rows and writes are refused at will; deleting a rule that is there and
  flushing the cache succeed; a name is resolved in one step, so an answer on its
  way while the cache is flushed is not represented.
* QUIC, TLS, HTTP/2 and tokio are what they promise: streams in order, datagrams
  lost at will, a close seen by every holder, a fair lock. HTTP/2's own frames and
  the bytes of a DNS message or of DoH are not represented.
* Another masqr command run beside a core sweeps the names as that core's own
  release would; in `Names` it is a request to give them back. In `Process` one
  process runs at a time.
* The queue's time: which heads are stale when a tunnel comes up, and whether one
  has been overdue for CoDel, is any choice; `observe_rtt` moves only that clock.
* A lease of `Resolver` is a set of addresses, without time: `Leases` has that.
* Locks poisoned by a panic: the code recovers the contents and goes on.
* Wording, logging, the pipe's access list, the command line, key formats,
  QPACK's tables, the bodies of the registration's requests, diagnosis commands.

`PROJECT.json`, "components", lists every part with its status.

## Plan

1. **CoDel** (`CoDel`): one bucket with a clock, the episode's state and the
   control law, shown to choose only what `PacketQueue` lets `Serve` choose; no
   drop before a whole interval of standing delay, none of a sender that asked to
   be told, none for an interval after `drop_stale`.
