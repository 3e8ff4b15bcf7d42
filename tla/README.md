# A TLA+ verification of the kierki server

This directory holds TLA+ models of the Hearts-like card game *kierki* in
`src/`: a server that runs a poll loop over TCP, the rules it enforces, its
clients and the messages between them. The models are checked with TLC on small
instances. What makes the card game correct, that server and whole program play
it, that the server's view of its connections stays right, that the connection
store does what the server relies on, and that clients and server agree on the
hands, is proved with TLAPS for every value of the constants.

## 1. Inventory

### The parts of the program

| Part | State it keeps | Operations |
|---|---|---|
| `Game` (rules) | `currentTrick`, `hands`, `trickJudge` | `Deal`, `Play`, `IsMoveLegal`, `GetTaker`, seven judges |
| `Server`, card table | `deals` (a stack), `tricks`, score and total of each `Player` | `NewDeal`, the part of `HandlePlayerMessages` that plays a card |
| `Server`, connections | `candidates`, `candidateMap`, `Player::fd`, `playerMap`, `playerMessages`, `updateData`, `trickDeadline` | `Run`, `SafeUpdate`, `Update`, `HandlePlayerMessages`, `PushCandidate`, `PromoteToPlayer`, `PopConnection`, `CloseConnection`, `SendTrick`, `SendTaken` |
| `ConnectionStore` | `pollfds`, `connections`, `fdMap` (parallel, swap-removal) | `Listen`, `Update`, `Close` |
| `MessageBuffer` | incoming and outgoing bytes, open flag | `Receive`, `PopMessage`, `Send`, `PushMessage`, `ClearIncoming` |
| `Client` | its cards, taken cards, next trick number, a counter of point messages | `Connect`, `Run`, `HandleServerMessage`, `PlayTrick` |
| Messages | values | `Deserialize`, `Str` |
| `GameConfig`, `ServerConfig`, `ClientConfig` | values | parsing |
| `Card`, `Seat`, `TrickNumber`, `DealType`, `DealConfig`, `Hand` | values | parsing, printing, `CycleClockwise`, `TrickNumber::Set` |
| `Utilities`, `Logger`, `Error` | none | system calls, formatting |

### How they interact

One process, one thread. `Server::Run` alternates `SafeUpdate` (which repeats
`Update` while a seat is free) and `HandlePlayerMessages`. `Update` and
`ConnectionStore::Update` exchange a single record, `updateData`: on the way
down it holds outgoing messages and fds to close, on the way up received
messages, lost fds and a new fd. A message of a player goes to
`playerMessages`; a message of a candidate seats or closes it. What
`HandlePlayerMessages` plays goes through `Game`, and what it has to say goes
to `updateData` again. A client is another process behind a TCP connection,
one thread around `poll` as well: it reads all there is, handles every complete
message, and answers `TRICK`, either itself (`-a`) or when the user types a
card. Both ends keep the player's hand, each by its own rules.

### What is hard about it

- Server and store each have a view of who is connected and exchange
  differences; a connection can be lost, refused, kicked or overdue at any
  step of a round.
- A batch of messages is worked through one at a time; one of them may empty a
  seat (the game halts) or end the deal or the game, and the rest of the batch
  is still to come. What is kept for later names its sender by fd.
- `poll` returns for data, for a deadline, or for nothing the server waits
  for. Deadlines repeat `TRICK`, so clients answer more than once.
- The kernel gives a closed fd to the next connection.
- A player that rejoins must be told enough to rebuild its hand.
- A client learns of the end of the game only by the end of the stream, and
  has to tell it from a lost connection; a repeated `TRICK` asks it twice.
- Messages are cut out of a byte stream. A trick number and the cards after it
  have no separator between them.
- `Deal` does not clear the hands, `GetTaker` relies on where the turn is,
  the judges on a trick number about to change.

### What makes each part correct

- **Rules and table:** no card is lost, duplicated or left over; turns follow
  the leader chain; nobody revokes, nobody is stuck; points go to the takers
  and a deal hands out its whole stake; the game ends. The highest card of the
  led color takes the trick (it does not, see section 5).
- **Server:** seats and connections correspond one to one; server and store
  agree; nothing is sent to a connection that is gone; its own bookkeeping
  never produces an error; whatever clients send, only legal moves of the
  player on turn move cards; a rejoining player's hand can be rebuilt;
  connections without a seat do not stay; the player on turn is asked.
- **ConnectionStore:** the three containers stay in step through every order of
  removal; a message is returned with the fd it came in on; no data is cut off;
  a closed connection goes away; its caller may think of it as two sets. What
  it has received it returns (it does not always, see section 5).
- **MessageBuffer, messages:** whatever the pieces in which bytes are written
  and read, the messages come out that went in, in order, each with the same
  meaning.
- **Client and the whole program:** its hand and its trick are the server's for
  its seat; an automatic client is not told that its card is wrong; a client
  that was dealt cards gets its points at the end of the game and ends without
  error; a client that leaves, errs or is late does not end the game; everybody
  finishes.

The full list of hazards, each at its line, is in `PROJECT.json`.

## 2. The modules

| Module | What it is |
|---|---|
| `Cards` | the vocabulary of server and client: cards, seats, types of deals |
| `Game` | class `Game`: `Deal` and `Play` as actions, `IsMoveLegal`, `GetTaker` and the judges as operators |
| `Table` | the card table the server keeps, with no network; also the abstract specification (`TableSpec`) of the server |
| `Network` | descriptors, `UpdateData`, the faults of the network: what server and store share |
| `Store` | `ConnectionStore` as its caller sees it: two sets of connections and the steps of `Update` and `Close` on them |
| `Server` | class `Server` on top of `Table` and `Store`, with clients and network as environment |
| `AbstractStore` | the steps of `Store` put in order: a specification of what the store promises |
| `ConnectionStore` | class `ConnectionStore` and its `MessageBuffer`s in detail; implements `AbstractStore` |
| `Client` | class `Client` and its `main`, for a set of processes |
| `Protocol` | `Server` and `Client` joined by connections: the whole program |
| `Messages` | the messages as text: `Str`, the patterns, `Deserialize` |
| `MessageBuffer` | class `MessageBuffer`: one direction of a connection as a stream of characters |
| `MCTable`, `MCServer`, `MCConnectionStore`, `MCProtocol`, `MCMessageBuffer` | instances for TLC |
| `TableProofs`, `ServerProofs` | theorems about the game; the server implements the table |
| `SeatingLemmas`, `SeatingProofs` | the inductive invariant of the server's connections, and the theorems that rest on it |
| `ProtocolProofs` | the inductive invariant of server, connections and clients together, and the theorems that rest on it |
| `StoreProofs` | the inductive invariant of `ConnectionStore`, and the theorems that rest on it |
| `StoreRefinement` | `ConnectionStore` implements `AbstractStore` |
| `LoopLemmas` | what the proofs need of recursive functions, lists and sums |

`Table` extends `Game`, which extends `Cards`; `Server` extends `Table` and
`Store`; `AbstractStore` extends `Store`, and `ConnectionStore` instantiates it.
So server and store meet in `Store`: the server is built on its steps, and the
detailed store is shown to take no others. `Protocol` extends `Server` and
`Client` and replaces only the steps in which the environment of `Server`
chooses: what `poll` reports. `MessageBuffer` extends `Messages` and says what
the queues between two processes in `Protocol`, and the messages in
`ConnectionStore`, stand for.

Operators and variables keep the names of the source. A definition whose name
starts with `Bug` is a faulty variant of the definition after it (a dropped
guard, an off-by-one, a missing reset); nothing uses it. Put in place of the
real one it makes a property fail: the list of which fails which is `mutants`
in `PROJECT.json`.

### Game and Table

`trick` is `Game::currentTrick`; its empty optional is the record with number
0. `hands` joins the four color sets of a seat into one set of cards. `judge`
is the deal type that selected `trickJudge`. `deals` is the list of deals still
to play with the current one at its head (the vector in the code is reversed
and used as a stack). `tricks`, `score`, `total` are the members of the same
names.

`ContinueTrick`, `FinishTrick` and `FinishDeal` are the three ways
`HandlePlayerMessages` goes on after `Play`: return to the loop, record the
trick, or also end the deal. `FinishDeal` includes the `NewDeal` that follows
in the same handler. `StartGame` is the first `NewDeal`, in `Run`. A call that
fails and changes nothing is a disabled action.

The code has four seats and thirteen tricks written into it; both are
constants, together with the number of the seventh trick.

### Store, AbstractStore, ConnectionStore

To its caller the store is two sets: `receiving`, the connections polled for
input, and `sending`, those with unsent data. A connection in `sending` only is
one the caller has closed and that lingers until its data is out. `HandOver` is
what `PrePoll` makes of `updateData`, `Report` what `Update` returns after
`poll` found something, `ReportNothing` after it did not, `StopAll` and
`FlushMore` are `Close`.

`ConnectionStore` has the three containers. `pollfds`, `connections` and
`fdMap` are those of the class (`pollfds[1]` is the listening socket). `data`
is the argument of `Update`. Each loop of the code is a loop here, one message
or connection a step: `PushBuffer`, `StopReceiving`, then `PollReady`, for each
connection `Receive` (with the `PopMessage` after it) or `ReceiveEnd`, `Flush`
or `SendFails`, then `PopNext` and `UpdateListening`. `at` is the loop index;
`todo` is the list the thread goes through, `connectionFds`,
`data.closed` or `emptyLingeringBuffers`. `Close` has the same steps with
`closing` set. `peers` are the other ends: what they have written and whether
they are there. They act between any two steps of the thread at which it could
notice; `poll` may report any writable set, which covers peers that do not
read.

A `MessageBuffer` is its fd, the messages in `incoming` and the number of
messages in `outgoing`. A read takes any number of the messages that have
arrived, none when only a part of one has; a write takes any number of those
that wait.

`view` is an auxiliary variable. It holds what the caller knew when it last
handed something over or got something back: the code reads, writes and removes
one connection at a time, while the abstract steps change everything at once.
`Implements` maps the abstract variables to it. The order of the lost
connections, which tells the caller nothing, is forgotten there (`AnyOrder`),
and so is the record `Close` passes to its own calls of `Update`.

### Server

`pc` is the point the thread has reached, between the calls that exchange
state: `update` (about to call the store), `poll`, `apply` (the store has
returned), `dispatch` (going through the batch in `Update`), `handle` (going
through it in `HandlePlayerMessages`), `close` (`ConnectionStore::Close`), and
the ends `done`, `error` (an error returned to `main`) and `crash` (an
exception nobody catches). One message is one step, so a property sees every
state between two messages of a batch.

`candidates` is the vector of the code, each element with its deadline, and
`candidateMap` the map of their indices; `PopCandidate` moves the last one into
the place that becomes free. Loops over a list of fds are recursive functions. The
order in which one `Update` reports lost connections tells the caller nothing;
the model has one order for each set of them, so the vector sees the orders in
which candidates come and go over several rounds, and not every one within a
round.

Time is one flag per deadline (`overdue` of a candidate, `trickOverdue`). It
passes only while the thread is in `poll`; the other steps take no time. For
the trick deadline it passes only when something reads it: from the first deal
on.

Messages are records. A client may send `IAM`, `TRICK` with a card, or `JUNK`,
which stands for everything the server treats alike: text `Deserialize`
refuses, and messages of another type. `PollTimeout` hands the server's own
messages back to it as received, so the same handlers also see `DEAL`, `TRICK`
and so on with no card or with cards of the table.

The network's faults are switches (`Faults`): `Disconnect`, `LingeringLost`,
`WriteFails`, `SlowPeer`, `SocketError`. Without a switch the fault does not
happen; each run names those it has.

Two choices deserve a word. After the last deal, `HandlePlayerMessages` still
compares a late message with `trick->turn` and `trick->number` of an empty
optional, which is undefined; whatever those comparisons give, the last one,
`IsMoveLegal`, refuses, so every outcome is `WRONG` and the model has that. And
`Stop` clears the connection state: the process ends and the kernel closes its
sockets; the table is left as it was.

### Client and Protocol

A process has the members of `Client` (`cards`, `nextTrickNumber`,
`nPointMessagesReceived`; `prompt` is `isUserTrickNeeded` with the message that
was shown). `down` and `up` are the two directions of its connection. Handling
a message and writing the answer is one step, and so is handling a run of
messages that need no answer (`News`): what a process does in between depends
only on the order of the messages, and one that answers late is one that reads
late. `Playable` lets a player without the led color choose any card, where the
automatic client takes one of the next color: more than it does.

What a process keeps of the game is `Members`; `Handled` is what one message
does to it, and `AllHandled` a list of them. `Told` is what a process will know
once it has read all that is on its way, in the buffer of its connection
(`down`) or still to be handed over (`HandedOver`); `HandsAgree` compares this
with the server's table. A `TRICK` of a client carries the process that sent it
(`by`). The field is not sent, and nothing but the property `AnswersFit` reads
it: without it a card could not be told from one with the same text that another
process has left behind. In the same way `nDeals`, the `DEAL`s a process has read
on its connection, is no member of `Client` and guards no step: `EndsWell` reads
it to tell who was at the table. The members do not say it, because
`nextTrickNumber` is 0 again after the last `TAKEN` of a deal.

`EndsWell`: when the server has ended normally, a process that reports a premature
disconnection has read no `DEAL`. So a server that closes without `SCORE` and
`TOTAL`, or whose lists are lost with the connection, violates it.
`EveryoneFinishes`: from some point on either the game has ended normally and no
process runs, or a seat is empty that nobody is left to take *and the server is
still there*; a server that ends in an error fulfils neither. With it stands the
claim that a lost player, a wrong or late card, a busy seat and a process that
ends with an error do not end the game.

In `Protocol` the server takes the steps of `Server`, one for one. `PollReports`
is `poll` with an event: `Senders` have written, `Leavers` are gone, a
connection in the `Backlog` is accepted; `incoming` is the `MessageBuffer` at
the server, from which one message is popped after a read, as the code does;
what was waiting in `updateData.msgs` reaches `down`. A server that closes a
connection (`Cut`) leaves what it has written readable. `Quiet` says that
nothing is on its way; then only a deadline makes the server go on.

Processes are started for their seats. A *spare* is started when a seat has
been lost (all processes for it have ended), and stands for anybody who takes
over a seat; by an upset it comes too early, finds the seat busy and may try
again. *Upsets* are what goes wrong outside the program: a process is killed, a
spare comes too early, a user types a wrong card, the trick deadline passes
while an answer is on the way.

Clients take their steps while the server is in `poll` (`Watched`). While it is
elsewhere it does not look at them, so a step a client takes meanwhile is
indistinguishable from the same step in the next `poll`.

### Messages and MessageBuffer

A text is a sequence of characters, with the word a message starts with as one
symbol. `Str` prints, `Deserialize` matches a pattern and reads its groups. What
a pattern matches is modelled by the ways to cut the text: `Cut` for the number
of a trick and the cards after it, `ParseHand` for `Hand::Parse`, `CardLen` for
the alternatives of its pattern in their order.

`MessageBuffer` is one direction: `PushMessage` and `Send` at one end, `pipe`
for the bytes in the kernel, `Receive` with the `PopMessage` calls after it at
the other. `Calls` is the one difference between the two ends: the client pops
until there is no message left, `ConnectionStore` pops once. A write and a read
take any part, up to the size of the buffer for a system call.

## 3. The runs

| Run | Instance | What it shows |
|---|---|---|
| `mctable` | 4 seats, 3 tricks, 3 colors of J Q K A; 7 games of two deals with all types, and 560 ways to deal under Robber; with fairness | `TableTypeOK`, `TurnFollowsLeader`, `CardsAccounted`, `NeverStuck`, `ScoresMatchTricks`, `HandSizes`, `NoRevoke`, `StakeDistributed`, `GameEnds` |
| `mcserver` | 2 seats, 3 fds, 1 trick, batches of 2; lost connections, failing system calls | `ServerTypeOK`, `SeatsConsistent`, `CandidatesInStep`, `StoreAgrees`, `OutgoingAddressed`, `DeadlinesKept`, `NoInternalError` |
| `mcserver_rejoin` | 2 seats, 2 fds, 2 deals of 2 tricks, players come and go; with fairness | `RejoinHand`, `TableSpec`, `CandidatesResolved` |
| `mcserver_slow` | as `mcserver`, batches of 1, also messages that are not understood; slow peers, writes that fail, lingering connections lost | `SeatsConsistent`, `StoreAgrees`, `NoInternalError` |
| `mcprotocol` | 2 seats, 3 processes (automatic, user, automatic spare), 1 deal of 2 tricks, 1 upset; with fairness | `HandsAgree`, `AnswersFit`, `EndsWell`, `EveryoneFinishes`, `PlayerOnTurnAsked` |
| `mcwire` | 59 talks of two messages and one of three, buffers of 6 characters, both kinds of reader | `ReceivedAsPushed`, `StreamComplete`, `AllReceived` |
| `mcstore` | 2 fds; calls with at most 1 message and 2 fds to close; 1 unsent and 2 arrived messages per connection | `StoreTypeOK`, `InStep`, `RightSender`, `FlagsMatch`, `NothingCut`, `Implements` |
| `mcstore_live` | 2 fds, 1 fd to close, 1 arrived message, with fairness | `LingeringGoes` |
| `mctable_highest`, `mcserver_halted`, `mcserver_stale`, `mcstore_kept` | as above; `mcstore_kept` with 1 fd | violations, section 5 |

### The bounds and why they are enough

- *Three tricks.* A first, a middle and a last one, leaders who are takers, a
  revoke that shows only two tricks later, and a seventh trick that is not the
  last. The judges see Jack, Queen, King and hearts. Longer deals repeat these
  steps, and the theorems of section 4 cover every length. The server runs have
  one or two tricks.
- *Two seats in the server.* The server treats seats uniformly; what can go
  wrong needs a full table, one seat short of it, a competitor for a seat and
  somebody who comes and goes. With three fds for two seats there is always
  one. The rules with four seats are checked on the table alone, which the
  server implements.
- *Three fds* (`Fds`) bound the connections open at once. `MaxBatch` = 2 lets
  the first message of a batch change what the second one meets; the store
  reports at most one message of each connection. `MaxStored` bounds
  `playerMessages`: a client that is never heard could fill it without limit.
- *Three fds for the candidates.* While nobody is seated all three are
  candidates, so the one removed is first, in the middle or last, and the one
  that moves has or has not passed its deadline.
- *One upset in the protocol.* Each kind of upset meets every state of a deal
  with two tricks. Two upsets (a user's wrong card during a repeated `TRICK`)
  only mix cases that `mcserver` has, where clients send anything at any time.
  With two players killed and replaced, the program reaches the crash of
  section 5, and nothing said about finishing holds after that. One spare is
  enough to take over a seat in the middle of a trick, between tricks, and
  after the last one. `HandsAgree` and `EndsWell` are proved for any number of
  processes and upsets (section 4). For `AnswersFit` two spares, two upsets and
  four descriptors do matter: a kept card can outlive its sender, and the
  resumed game takes it for that of the process that was given the descriptor.
  The server cannot tell, and its answer is a `WRONG` the new player has done
  nothing for. The property therefore speaks of cards sent by the process
  itself.
- *Messages.* Trick numbers 1, 2, 3, 10 to 13 and cards 2, 3, 10 of two colors
  are those that can be taken for one another across a missing separator;
  `S` is a color and a seat. Six characters are fewer than most messages have with
  their separator, so that messages are read in parts also when they have
  arrived whole, and more than the separator has, so that one read takes the end of one message and the
  beginning of the next. `DEAL` with 13 cards is one of the messages.
- *Two fds in the store.* With two connections the one that is moved into a
  freed place may be the next to be removed, lost, lingering, or the one whose
  message is being handled; every order of removing both occurs. A call may
  close an fd twice, one that is not there, and one it also writes to.
  `MaxUnsent` = 1 lets `outgoing` be empty, full, flushed or kept; `MaxArrived`
  = 2 is what it takes for a message to be left in `incoming`. A call that
  would go over a bound is not made.
- `Free` gives the lowest number not in use, as the kernel does, so an fd
  comes back as soon as it has been closed.

Deadlock is checked in every run. The table stops only when all deals are
played (`GameOver`), the server only when the process has ended (`Terminated`),
the program when the server has ended or nobody is left for a seat (`Over`).

### Fairness

`FairTableSpec` assumes that somebody plays (`WF` of the next step).
`Fairness` of the server assumes three things, none of them about clients:

- `WF(ServerStep)`: the thread goes on. `poll` returns when a deadline has
  passed or a connection is ready, and every other step is plain computation.
- `SF(TimePasses(fd))`: nothing resets the deadline of a candidate, so it
  passes even if the thread leaves and enters `poll` all the time. Strong
  fairness stands for a clock that does not stop while the thread is elsewhere.
- `SF(TrickTimePasses \/ ResetsTrickDeadline)`: the trick deadline either passes or
  is reset (a `TRICK` or a `WRONG` was sent). It is *not* assumed to pass when
  it is reset all the time.

`Fairness` of `ConnectionStore`, for `LingeringGoes`: `WF(Step)`, the thread
goes on; `WF(CallUpdate \/ CallClose)`, as `Run` does, the caller calls again;
`SF(Writable(fd))` and `SF(Drains(fd))`, a peer that does not stop reading for
good makes `poll` report its connection writable, and a write take all that
waits, again and again. The first is the code's own loop, the second that of
its caller, the last are what TCP gives a peer that reads. Nothing is assumed
of what peers send.

`ProtocolFairness`: `WF` of the server's steps, as above. `WF(Quiet /\
DeadlinePasses)`: when nothing is on its way, nothing resets the deadline, so
it passes. `SF` of the steps of the processes (some process that can go on does,
and somebody starts a process that can be started), and `SF(UserPlays)`: a user
who is asked plays in the end. Strong fairness is needed only because the model
shows clients' steps while the server is in `poll`: in between they are
disabled, in the program they are not. `MessageBuffer` has `WF(PushMessage)`,
`WF(Send)` and `WF(Receive)`: the writer goes on, its socket becomes writable,
and the reader's loop reads what arrives.

The sockets of the program do block (`SetSocket` gives `O_NONBLOCK` to
`F_SETFD`, which ignores it), so a peer that never reads may stop the thread in
`write`. The runs about liveness of server and protocol have no slow peers.

## 4. What is proved

Assumptions, which TLC evaluates in every run: at least one seat and one trick;
card values are natural numbers and hearts a color; every deal gives each seat
`LastTrick` cards and no card twice (`SchedulesAssumption`, the file format
`GameConfig.h:9` assumes); `Fds` is a finite set of natural numbers without
`NoFd`; messages of clients are messages; what a caller of the store may hand in
is an `UpdateData`, in which the content stands for the fd it is meant for
(`StoreAssumption`). Which records a caller hands in is not restricted: fds the
store does not hold, fds named twice.

### The table (`TableProofs`)

`TableInv` is the inductive invariant: types, a deal in progress
(`DealInProgress`), `TurnFollowsLeader`, `CardsAccounted` and `HandSizes`. None
of the last three is inductive alone. `CardsAccounted` at a new deal needs all
hands empty, because `Deal` adds to them; that is a matter of counting,
`HandSizes`; and to count, one must know which seats have played in the current
trick, `TurnFollowsLeader`. At the last card of a deal the three together give
that every hand but one is empty and the last one holds just the card played.
The proof has one lemma per action (`StartGameInv`, `ContinueTrickInv`,
`FinishTrickInv`, `FinishDealInv`), which rest on lemmas about seats modulo
`NSeats`, about `Max` of a bounded set of positions (the taker is a seat) and
about the points of a trick. The theorems `TypeCorrect`, `LeadersFollowTakers`,
`CardsConserved` and `HandsEven` read off the conjuncts; `LegalMoveExists`
(`NeverStuck`) follows from them.

`NobodyRevokes` (`NoRevoke`): one more card changes who played what in one place
only (`GrowsBy`); a card that does not follow means that the hand had none of
the led color, and hands only shrink within a deal. `ScoresAddUp`
(`ScoresMatchTricks`) needs the stronger `Awarded`, which speaks of all times:
between deals there are no tricks and no points. A score is a sum over the
tricks a seat has taken, so the proof takes the sum apart at the trick just
finished (`SumWithout`).

`StakesPaid` (`StakeDistributed`) compares what a deal has handed out at its end,
trick after trick, with what a judge makes of all its cards at once. Between the
two stands `Worth(type, D, n)`, what `n` tricks with the cards `D` are worth. The
invariant, on top of `TableInv` and `Apart` (see `HandsRebuild` below), is
`PaidUp`: the scores of all seats add up to the worth of the tricks taken so far.
It needs `InUse`: the cards on the table are different, because a judge counts
positions in the trick and `Worth` counts cards (`PositionsAsCards`), and they
were dealt, because the cards taken must be finitely many to be counted at all.
A trick adds its points to the worth (`WorthMore`), whichever seat takes it
(`SumOverMore`); at the last card the cards played are those dealt
(`LastCardPlayed`, from `HandSizes`), whose worth is the stake (`StakeIsWorth`).
What the property says of the steps before the end, that score and total of a
seat grow alike, that no total decreases and only one changes, is `NextGains`:
what a trick adds goes to its taker, a seat, and is a natural number
(`TrickGains`).

### The server (`ServerProofs`, `SeatingLemmas`, `SeatingProofs`)

`Refinement`: `Spec => TableSpec`. Every step of the server is a step of the
table or leaves it alone. It needs only that hands hold cards, from `TableInv`,
which the proof carries along with the refinement. So all theorems about the
table hold of the server, for any number of clients and any messages.

`ServerInv` is the inductive invariant of the connections:

- `Seated`: `candidates` and `candidateMap` in step, `playerMap` and the fds of
  the players inverse to each other, nobody both candidate and player;
- `Queued`: what is kept for later consists of messages;
- `Exchanged`: `StoreAgrees`, `OutgoingAddressed` and `Pending`. `StoreAgrees`
  alone is not inductive: it compares the server's connections with the store's
  at the points between two calls, and has to be carried through the calls.
  `Pending` says what that takes: before `poll` returns nothing is reported as
  new, a round does not close what it has closed before, a new descriptor is
  none of those in use;
- `TableInv`: that `HandlePlayerMessages` never fails inside (`NewDeal`, the
  legal move) is a fact about the table.

The steps that matter are loops: closing a list of candidates, going through the
lost connections of a round, the candidates whose deadline has passed. They are
recursive functions in the model; that each removal leaves every other candidate
with its own entry, in its new place (`PopOne`), is proved once and carried
along the list. From `ServerInv` follow `TypesOK`, `SeatsAgree`
(`SeatsConsistent`), `CandidatesAgree` (`CandidatesInStep`), `StoreInAgreement`
(`StoreAgrees`), `AlwaysAddressed` (`OutgoingAddressed`), and the action
property `DeadlinesStay` (`DeadlinesKept`: the swap in `PopConnection` gives no
candidate the deadline of another). `NoErrorOfItsOwn` (`NoInternalError`) says
that the server fails only for what `poll` reported or for a message it cannot
place, never because its own maps have no entry for what they are asked.

`HandsRebuild` (`RejoinHand`) is about the list of messages on their way,
`updateData.msgs`, and needs an invariant of its own, `RejoinInv`. To
`ServerInv` it adds:

- `Apart`: no card on the table has been taken before. With `CardsAccounted` it
  gives `HeldBackAll`: what a player holds or has played to the trick is what it
  was dealt less what was taken, which is what `DEAL` and `TAKEN` say;
- `Cleared`: no card lies on the table between two deals;
- `HandsRebuilt`, while the messages of an update are put together: for every
  player, its last `DEAL` on the way, less the cards of the `TAKEN`s after it,
  is its hand with its card on the table, and during a deal that `DEAL` is its
  (`RejoinHand` only asks for the first of the two); nobody who waits for a seat is
  addressed. Without the last a candidate could be seated with a `DEAL` of
  an earlier seat still on its way.

Messages are only appended, so the proof goes from `q` to `q \o r`: the last
`DEAL` is in `r`, or it is that of `q` and the cards of the `TAKEN`s of `r` go
out of the hand (`TakenTold`, `QuietlyTold`). What is appended is one card's
news (`CardRebuilds`: a `TAKEN`, `SCORE` and `TOTAL`, the next `DEAL`), a new
deal (`NewDealRebuilds`), a recap (`RecapTold`, `PromoteRebuilds`), or
nothing that counts.

### The store (`StoreProofs`, `StoreRefinement`)

`StoreInv` is the inductive invariant:

- `Typed`, and `Aligned`: the three containers, index by index and fd by fd;
- `Connected`: what is open is held, and what a buffer or a peer holds comes from
  that fd. Without it `RightSender` is not inductive;
- `Polled`: `POLLOUT` where there is unsent data, and unsent data where there is
  no `POLLIN`, unless the fd is about to be popped;
- `Room`: the messages still to be pushed fit in the bound;
- `Removing`: the fds collected for removal lie before the index at which
  `UpdateBuffers` is, each once, in one of the two lists only, and each emptied
  or with its peer gone. That is why `Pop` is only called for what is held: `Aligned`
  is not inductive without it.

`MovedIntoIs` and `PopAligned` are the lemmas about moving the last element into
the gap. The theorems are `StoreTypesOK`, `ContainersInStep` (`InStep`),
`SendersRight`, `FlagsRight` and `NothingCutShort` (`NothingCut`, an action
property).

`StoreRefines`: `Spec => Implements`, the refinement of `AbstractStore`. The
store works on one connection at a time and `AbstractStore` on all at once, so
the proof needs to know, wherever the thread is, what has changed since the
caller last looked. `ViewRight` says it (`ViewInvariant`): in `push`, the unsent
side has grown by the messages before `at`; in `stop`, the polled side has lost
the fds before the head of `todo`, and those of them without unsent data are
gone (so naming one a second time is refused, as in `AbstractStore`); in `read`
and `write`, the messages collected come from connections before `at`, each
once, and a connection that also broke is one that had unsent data; in `pop`,
every lost connection is on the list or gone. `SidesRight` restates `receiving`
and `sending`, which are read off the containers by index, fd by fd. There is a
lemma per step; those of the loops leave `view` alone, and `BeginPoll`,
`UpdateListening`, `PollTimeout`, `ReturnClose` and the failures are steps of
`AbstractStore`. `ReportMapped` names the senders, contents, lost and flushed
connections of one `Update`. So what `Server` assumes of the store is what the
store does, for any number of connections, any caller and any behaviour of the
peers.

### The program (`ProtocolProofs`)

`ProgramRefinement`: `ProtocolSpec => TableSpec`. `ProgramStep` is the lemma: a
step of the program is one of the server, or does not touch the table. So the
theorems about the table also hold of the server together with any number of
clients, started, killed and late in any order.

`ProtocolInv` is the inductive invariant of the program, for any number of
processes, spares, upsets, deals, seats and tricks:

- `ServerInv`, as above. The steps of the program are not those of `Spec`: `poll`
  reports what clients have really sent. The lemmas about the other steps are
  those of `SeatingProofs`; `PollReports` has its own, and that of the store
  (`ReportKeeps`) serves both;
- `Apart`, as above;
- `Wired`: a descriptor belongs to one process, the store holds what has one, and
  after `poll` nothing is left to be written. So what the server addresses to
  the fd of a player reaches the process that has the seat;
- `Living`: types, and which ends of a connection a process may have in each
  state of its life;
- `Said`: players say nothing but `TRICK`, the others one `IAM` at most, also in
  what is kept for later. Otherwise a process could be closed for what it said,
  with a hand and without its `TOTAL`;
- `AllInTouch`: a process at a seat is told what is right for the seat (`Right`:
  the hand, the number of the trick, the lists of points when the game is over
  and only then, and outside a deal both lists unless it has had no `DEAL`); one
  that waits for a seat has been told nothing; one that has neither will have
  both lists of points, or no `DEAL` at all (`Finished`); one that has ended
  prematurely has read no `DEAL`. This is the properties, made inductive:
  `HandsAgree` and `EndsWell` alone say nothing of who will take a seat, has just
  lost one, or has its last messages still to read;
- `Hushed`: when the last deal is over, and a batch still is gone through, there
  is no `DEAL` or `TAKEN` on its way that a newcomer could receive.

The argument is about lists. `HandledConcat` and `SentConcat` say that both views
of a list, what it makes of a process and what of it is sent to one descriptor,
are compatible with concatenation; so a step of the server that appends messages
changes `Told` of a process by just those addressed to it, and one in which
messages move from the server to the connection, or from there into the
process, does not change it. It remains to show, step by step, that what is
appended is what has happened at the table: `RightFromRecap` for a process that
takes a seat, `RightAfterCard` for a card (one or several of `TRICK`, `TAKEN`,
`SCORE`, `TOTAL`, `DEAL`), `RightAfterDeal` for a new game, and nothing for all
other steps (`HandledIdle`). `HandsStayAgreed` (`HandsAgree`) and `EndsAreWell`
(`EndsWell`) read off `AllInTouch`.

### Recursion and sums

The library's induction theorems take an operator as parameter, which the
provers cannot instantiate. `LoopLemmas` goes round that with sets in place of
predicates: a set of numbers that contains 0 and with each number the next is
everything (`RoundByRound`, from the least number it lacks), and a set of sets
that contains a set whenever it contains it less any one element contains every
finite set (`SetBySet`). From these follow that a recursive function of the
length of a list exists (`LoopExists`) and that a sum does not depend on the
order in which it is taken (`SumWithout`).

### Only model-checked

- Liveness (`GameEnds`, `CandidatesResolved`, `LingeringGoes`, `EveryoneFinishes`,
  `PlayerOnTurnAsked`, `AllReceived`): outside the prover's reach.
- `AnswersFit`. It needs an invariant about every card on its way or kept, that
  it still fits whenever it may be its sender's turn; it would assume more than
  one trick in a deal, as with a single one an old card may carry the number of
  the next deal's trick.
- `ReceivedAsPushed`, that a text is read back as what was printed, and
  `StreamComplete`, that no byte of the stream is lost: inductions over texts
  that have not been done.

## 5. Findings

Each is a run that TLC refutes, with a trace.

- `HighestOfLedColorTakes` (`Game.cpp:139`): `GetTaker` compares with the led
  card only. J, A, Q of one color in this order: the Q takes the trick.
- `NoCrash` (`Server.cpp:244`): a stored message whose sender has left by the
  time the table is full makes `playerMap.at` throw outside the `try`.
- `NotReturnedAsClosed` (`ConnectionStore.cpp:72`): when `poll` returns 0, the
  fds to close come back as closed, against `ConnectionStore.h:34`, and the
  server stops with an error.
- `MessageReturned` (`ConnectionStore.cpp:199`): of two messages read at once
  the second stays in its buffer until the peer sends something else, against
  `ConnectionStore.h:33`. A client that has sent both and waits for an answer
  waits for ever.

Because of them `NoInternalError` allows an error in `apply` and for a message
that cannot be placed: it is about the server's own bookkeeping.

## 6. Not modelled

- Command lines, configuration files, socket set-up, logging and what is
  printed for a user (`UserStr`, the commands `cards` and `tricks`, `taken`):
  I/O and formatting with no influence on the rest.
- Durations: a deadline passes or does not, so that `-t` does not reach
  `trickDeadline` cannot be seen here. A write that blocks.
- A client that writes an answer to a connection the server has closed: the
  answer is lost in the model. In the program the first write may find the
  connection reset, and a later call of `Send` on the closed buffer returns an
  error; the model ends such a process when it reads the end of the stream.
- In `Protocol`, the deadline of a candidate (a process says `IAM` at once; a
  candidate that does not is the subject of `mcserver_rejoin`) and failing
  system calls (`mcserver`, `mcserver_slow`).

## 7. What could be added

`AnswersFit` and the two properties of `MessageBuffer` as theorems: the first
wants an invariant of its own, the others inductions over texts. Durations, for the deadlines of section 6.
