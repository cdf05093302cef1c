# poe-acp-relay: models, checks and proofs

The relay answers Poe's HTTP queries by driving one ACP agent process over
stdio. A Poe conversation is mapped to an agent session; a prompt becomes a turn
of that session, and what the agent streams is written back to Poe as
server-sent events. The Go code is small and concurrent: per conversation a
runner, a drain, one goroutine per notification of the agent, one HTTP handler
and one heartbeat per query, and a collector that takes idle sessions away. This
directory models those parts in TLA+, checks them with TLC and proves with TLAPS,
for all sizes, the queue at the centre, what is written to an answer, and the
safety properties of the parts around them.

Paths below are relative to `src/`; `router.go` is `internal/router/router.go`,
`handler.go` is `internal/httpsrv/handler.go`, `agent.go` is
`internal/acpclient/agent.go`.

## 1. Inventory

| Component | State | Operations | Hard behaviour | What makes it correct |
|---|---|---|---|---|
| Session queue and runner (`router.go` 191-349, 668-698, 1357-1369) | `turns`, `inFlight`, `stopped`, the one-slot `notify`, each turn's `done` | `push`, `popOrWait`, `finishInFlight`, `idle`, `stop`, `runTurns`, `gcOnce` | three parties close `done`; a cap that binds reactions and not prompts; a signal that may be dropped; `idle` and `stop` are separate critical sections | every accepted turn is closed exactly once, in order; only reactions are shed; no lost wakeup |
| Turn execution and streaming (`router.go` 350-522, 541-605, 682-757) | `chunkCh`, the drain's current turn, `endDone`, the sink, the request's context | `Prompt`, `runOneTurn`, `OnUpdate`, `drainChunks` | a bounded channel between runner, drain and notification goroutines; cancelled clients; late chunks | nothing is written to a response that is over; what was streamed in a turn is written in it; everybody is released |
| SSE sink and heartbeat (`handler.go` 200-417, `poeproto.go` 240-297) | `orderedWriter`'s flags, the gate, `hbDone`, the event stream | `Text`, `Replace`, `Error`, `Done`, `FirstChunk`, `stop`, the ticker | ticker and router write to one connection, which may fail at any event | the answer is never wiped, the spinner never left behind, the heartbeat ends |
| Session lifecycle (`router.go` 1201-1369, `agent.go` 247-270, 362-378) | `Router.sessions`, the agent client's `sinks`, agent sessions | `getOrCreate`, `install`, `ReportReaction`, `gcOnce`, `NewSession`, `ResumeSession` | requests race to create one session; eviction; a failed `session/new` | one queue per conversation; losers are torn down; updates reach the winner; the transcript is given once |
| Cancel path (`handler.go` 168-195, `router.go` 590-606, 1200-1209, `agent.go` 380-410) | none of its own: the requests' contexts, the queue | the goroutine that watches a context, `Router.Cancel`, `Prompt`'s wait | clients leave at any point, the agent may never answer or die, a cancel names a session and not a turn | who has left returns; the agent is told; nobody else's prompt is stopped |
| Auth broker (`internal/authbroker/authbroker.go`, `handler.go` 137-146, 419-438) | `pending` | `HasPending`, `Handle`, `start`, `complete`, `cancel` | the mutex is released for the agent's calls, and nothing keeps a second query out meanwhile; any call may fail | a login the user was offered can be finished; a used one is gone; no query is answered by nothing |
| Options and system prompt (`router.go` 700-722, 759-822) | `applied`, `pendingSystemPromptInline`; the agent's own options | `ParseOptions`, `applyOptions`, the inline prompt | refused and lost calls, model switches, new sessions | a turn runs with what was asked for |
| Attachments (`router.go` 892-1110, 1371-1439) | a message's directory, its files, `used` | `downloadAttachment`, `openMessageDir`, `uniqueName`, `sweepAttachmentsOnce` | the sweep and downloads share directories; retries; names that clash, or that are one file to the disk | a link names a whole file; no two attachments share one |
| Settings and refetch (`cmd/poe-acp/helpers.go`, `main.go` 186-213, `internal/paramctl`, `handler.go` 73-79) | the boot's defaults and schema, the agent's list of models, a hash file, what Poe has fetched | `Resolve`, `Build`, the probe, `ParameterControlsProvider`, `maybeRefetchSettings` | boots, crashes and edits between the compare, the POST, Poe's fetch and the write of the hash | a skipped refetch was not needed; the panel agrees with what is applied |
| HTTP handler (`handler.go` 90-195) | none of its own | `handleQuery`, `handleReaction` | the rows above cover its concurrency | covered by the rows above, except `handleReaction`'s checks |
| Agent process client (`agent.go`) | `sinks`, `models`, `caps` | RPCs, `SessionUpdate`, file access | the process may end | its sessions, prompts, cancels and models are in the rows above; handshake and file access are not modelled |
| Start-up and configuration (`main.go`, `internal/config`) | read once | the boot | | the boot's order, as far as settings depend on it |
| Permission policy, skills, debug log | none, or read once | | sequential | not modelled |

How they interact: the handler calls `Router.Prompt` (or `ReportReaction`),
which finds or creates the session (map lock), downloads the attachments in the
handler's goroutine, pushes a turn (queue lock) and waits for its `done`. The
runner pops it, applies the options, sends `beginTurn` on `chunkCh`, calls the
agent, sends `endTurn`, waits for the drain's acknowledgement, writes the last
words to the sink and closes `done`. The agent's notifications reach `OnUpdate`
through the client's `sinks` and join the same channel. Every five minutes the
collector evicts idle sessions and then sweeps old attachments. A goroutine per
query watches its context and calls `Router.Cancel` if the client leaves. At
start-up the relay probes the agent's models, resolves its defaults and, if the
hash of the settings differs from the stored one, asks Poe to fetch them again,
which Poe does through the handler while it answers.

`PROJECT.json` lists the hazards of this code, each at its line, with the
properties that watch it.

## 2. Modules

| Module | What it is | Correspondence |
|---|---|---|
| `TurnService` | What a session promises: turns wait in one line and are served in order, only reactions are dropped while it is open. | Abstract; no code. |
| `SessionQueue` | The queue, the runner's loop and the eviction of one session. | One action per critical section of `sessionQueue.mu` and per channel operation: `Push*`, `Pop`, `FindEmpty`, `SelectNotify`, `SelectStop`, `DropStale`, `EndTurn`, `FinishInFlight`, `GcFindIdle` .. `GcForget`. `q` is `turns`, `notify` the token in the channel, `pending` the slice `stop` copied, `done[t]` the number of times the channel was closed. |
| `TurnStream` | `SessionQueue`, which it extends, composed with the body of `runOneTurn`, the drain, the notification goroutines and the submitters' contexts. | Where the code's step is a step of the queue, the action has the queue's action as a conjunct (`Submit` is `Push` and what it writes, `StartTurn` is `Pop`, `CloseTurn` is `EndTurn`). `phase` is the runner's place in `runOneTurn`; `chunkCh` the bounded channel; `sink[t]` all that was written to a turn's sink. `between` is history: the chunks put between a turn's `beginTurn` and `endTurn`. |
| `TurnStreamProofs` | The theorems about `SessionQueue`, with the lemmas on sequences (`ToSet`, `RemoveAt`, `IsInjective`) they need, and then those about `TurnStream`: it implements `SessionQueue`, and its own invariants. | |
| `Response` | What a response promises its reader: what the router writes, in order, while the connection lives, and then the end. | Abstract; no code. |
| `SSEStream` | One response: `sink`, `orderedWriter`, the heartbeat, and what Poe shows of the events. | Each lock region of `orderedWriter` is an action; a run of events stops where the connection breaks. `body` is the text on the user's screen. |
| `SSEStreamProofs` | The theorems about `SSEStream`; it implements `Response`. | |
| `Conversation` | What the map of sessions promises the requests of a conversation: one session and one line before it at a time. | Abstract; no code. |
| `SessionMap` | Requests of one conversation against the map, the agent's sessions and the client's sinks. | A request's `pc` is its place in `getOrCreate`, and then what becomes of its turn; a session is named after the request that made it. Of `SessionQueue` and `TurnStream` remain each session's `queue` and the `turn` in its runner's hand. `gcOnce` is two steps: `GcFindIdle` (`idle()`) and `GcEvict` (`stop()` and the `delete`), with `Router.mu` held between them, which keeps `getOrCreate`, `install` and `touch` (`Finish`) out but neither `Push` nor `Pop`. `late` is history: who was queued in between; `Strand` is the runner that waits for a drain that has gone. |
| `SessionMapProofs` | The theorems about `SessionMap`; it implements `Conversation`. | |
| `CancelPath` | Handlers, their watching goroutines, the queue, the runner and the agent's prompts, for clients that leave and an agent that hangs or dies. | `pc` is a handler's place, `watch` its goroutine's; `gone` the cancelled contexts; `working` the prompts the agent is at. `told` is history: which prompt a cancel met. |
| `CancelPathProofs` | The theorems about `CancelPath`; it implements `TurnService`, without reactions. | |
| `AuthBroker` | The broker and the handler's intercept for one conversation. | One action per critical section and per `authenticate` call, of any number of queries at once. `entry[r]` is the login `r` saw when it last looked. `offered`, `rivals` and `took` are history: the logins the user has a URL of, who had looked at the map when a login entered it, and which login a query removed. |
| `AuthBrokerProofs` | The theorems about `AuthBroker`. | |
| `Settings` | Boots of the relay, the refetch of settings, Poe, the operator and the agent's list of models. | `config` and `agent` are the world; `defaults` and `schema` a boot's constants; `models` the client's cached list; `refetch` the place in `maybeRefetchSettings`; `hashFile` the state file; `poe` what Poe shows. `loose` is history: Poe may show something the hash does not name. |
| `SettingsProofs` | The theorems about `Settings`. | |
| `AgentOptions` | `ParseOptions`, `applyOptions`, the inline system prompt, against the agent's own options. | One action per outcome of each call. `agent` is external: it keeps the model and the level it accepted last. |
| `AgentOptionsProofs` | The theorems about `AgentOptions`. | |
| `Attachments` | The downloads of one message by several prompts, and the sweep. | One action per file system call; a `root` becomes stale when its directory is removed. `uniqueName` compares names (`used`), the disk has `files`, and `FileOf` says which name is which file. `writers` (for which attachment of which prompt a file was opened) and `expired` are history. |
| `AttachmentsProofs` | The theorems about `Attachments`. | |
| `MC*` | Instances for TLC. | |

The operators marked "Mutant of ..." stand just before the definition they
mutate: each is a plausible mistake in the code, and for each property there is
one that TLC must catch with that property. They are not part of any
specification.

### Abstractions

* Text, names, ids and wording are model values. A chunk is the turn it belongs
  to and a number; `drainProcessChunk`'s formatting of thoughts and
  `hide_thinking` are left out.
* Time is a choice: a reaction may be stale when popped, a session idle long
  enough, a tick due, a file expired, at any point where nothing rules it out.
* Each model follows one conversation (one message for `Attachments`, one
  response for `SSEStream`): conversations share only the map's lock, which
  orders `touch` behind `gcOnce`, as `TurnStream` and `SessionMap` model.
* In `TurnStream` the agent answers every prompt or fails, and its context's
  end makes the call return; `CancelPath` has the agent that never answers, and
  the one that dies, but not the chunks. Each notification has a goroutine, so
  chunks may overtake one another; the SDK may be stricter.
* A cancel is a notification the agent takes in the order in which it was sent
  among the prompts; what the agent's SDK does when the connection ends (it
  fails the calls under way) is external.
* `Settings` keeps the models as a set and takes a schema for its own hash
  (SHA-256 without collisions); `hide_thinking` and labels are left out.
* `Attachments` has no inline images and no pre-parsed content: they change no
  file. `FileOf` is any function: what `os.Root` makes of a name's `.` components,
  and whether the file system folds case, is not modelled further.
* In `SessionMap` a stopped session's turn may still end well (`Finish`) or be
  stranded (`Strand`); which of the two it is depends on the drain, which is in
  `TurnStream`.

## 3. Runs

| Run | Question | Bounds, and why they suffice |
|---|---|---|
| `queue` | Is every accepted turn closed once and in order, is only a reaction shed, is no wakeup lost, does every turn finish, and is this `TurnService`? | 3 prompts, 2 reactions, cap 2: the queue fills with reactions, sheds them one after the other, then grows past its cap with prompts only, and the session is evicted. The safety part is proved for all values. |
| `stream` | What reaches a sink, when, and does every turn finish? | A prompt and a reaction, one chunk each, queue cap 1, channel 2: two turns can follow each other, one may be shed, the channel fills with one control message and one late chunk. |
| `sse` | What does Poe show under every order of calls and ticks, and is it what `Response` allows? | Three pieces of text, one remark, any number of ticks: after the first text the flags no longer change with further ones. |
| `sessions` | Do races to create or resume a session end with one, and is this `Conversation`? | 2 prompts and 1 reaction, resume available and able to fail: three racers, a second generation after an eviction, and a turn queued and taken up between `idle()` and `stop()`. |
| `auth` | Does an offered login stay until used, and if not, who took it? | 4 queries, in turn or at once: log in, something in between, paste, and one more; or two logins that race, and two others in their way. The safety is proved for any number. |
| `options` | Does the agent run with what was asked for? | 2 models (one takes one level), 3 levels, a model nobody offers; any number of turns and of new sessions, since nothing counts them. |
| `settings` | Does the panel Poe shows agree with what the relay applies, over boots, crashes and edits? | 2 models and 2 levels in 3 configurations and 3 lists of the agent, any number of boots: nothing counts them, and the safety is proved for all values. Poe's answer may be lost, or unreadable. |
| `cancel` | Who leaves, does he return, and is the agent told? Whom does it work for? What if it hangs or dies? | 3 requests: one that runs, one that leaves, and one between or behind them; the agent may be at several prompts whose calls were given up. |
| `attachments` | What does a file link promise? | 2 prompts of one message, 3 attachments: one named as `os.Root` refuses, one as the first one's fallback, and one as `./` that, which is the same file; 3 files. |
| `stream_hang`, `cancel_other`, `attachments_panic` | Statements of the repository that the code does not keep; see section 6. | The smallest instance that shows each. |

### What the properties say

* Queue: `DoneClosedOnce`, `EveryTurnAccounted` (an accepted turn is held by
  the queue, `stop` or the runner until it is closed), `OnlyPromptsExceedCap`,
  `WakeupPending`, `AcceptedTurnsFinish`, `ImplementsTurnService` (which includes
  that a prompt is shed only with its session).
* Stream: `NoWriteAfterReturn` (no write once `done` is closed, even for a
  client that left long before), `ServedTurnsAreDone` (one `Done`, and it is the
  last call), `WindowIsWritten` (a turn that has been ended got exactly the
  chunks put on `chunkCh` between its `beginTurn` and its `endTurn`, in that
  order, with at most a notice before and one last word and `Done` behind them),
  `ImplementsQueue` (the composed system refines `SessionQueue`),
  `StreamedTurnsFinish`.
* Sink: `SpinnerNeverMixed`, `NoFrozenSpinner`, `ImplementsResponse` (with the
  spinner taken for no answer, what the user sees is all the router wrote, in
  order, until the connection is lost or the response has ended; no frame and no
  clearing of one takes any of it away), `HeartbeatDisarms`.
* Sessions: `EntryIsServing`, `NoStrayGoroutines` (nothing of a lost race runs on,
  and of an evicted session only a turn that was queued after `idle()` and taken
  up before `stop()`), `NeverDoubleSeeded`, `UpdatesReachEntry` (what the agent
  streams for the session in the map reaches it, unless another request shares
  the agent session),
  `ImplementsConversation` (there is one session and one line of requests before
  it; whoever waits in it is taken up in order, one at a time, or dropped with the
  session; whoever holds a closed session is refused; and only a request that
  came while the session was being closed can be left without an answer).
* Cancel: `LeaversReturn` (a request whose client has left returns once those
  before it have left too, even if the agent never answers; every request
  returns if the agent is dead), `LeaversAreCancelled` (the disconnection ends
  the turn at once, and still the agent is told), `AgentServesOne` (of the
  clients still there the agent works for one at most, though it may be busy
  with prompts given up for others).
* Auth: `LoginIsPending` (a login whose URL the user has is the pending one until
  it is used, unless a query that had looked at the map before it was there took
  it away: `Lost`; a used one is pending only while its query is on the way to
  drop it), `NoMessageSwallowed` (an empty answer goes only to a message that
  came while a login was pending which was used or lost since).
* Options: `ModelAsAsked`, `LevelAsAskedOrRejected`, `SystemPromptGiven`.
* Settings: `SkipIsRight` (a boot that skips the refetch finds Poe with its
  schema, unless a fetch went unnoted, or the hash was noted for an answer nobody
  could read), `ShownIsApplied` (once Poe has answered with the controls, the
  panel's defaults are what is applied).
* Attachments: `LinkKept` (the file of a link is whole and on disk until its TTL
  is over, if it was opened for that link only), `LinksDistinct` (no name is
  linked twice), `ExpiredDirGoes`.

## 4. Fairness

Fairness is weak everywhere and only on what the relay itself schedules.

* Go runs a goroutine that can run: the runner, the drain, the notification
  goroutines, and the collector once it has begun with a session.
* The agent answers a prompt, or the call fails: `WF(Agent)` in `TurnStream`,
  `WF(Execute)` in
  `SessionQueue`. The relay itself has no timeout, so nothing
  it does would end a turn the agent never answers; a turn that hangs there is
  a matter of the agent and not of this model. After an eviction has begun
  `Execute` is *not* assumed to end, because of the hang in section 6.
* In `CancelPath` nothing is assumed of the agent or the clients: the runner is
  fair where it does not need the agent's answer (`Unwind`: it pops, and a call
  whose context is cancelled, or whose connection has ended, fails), the
  watching goroutines run, and a handler whose turn is done returns.
* A ticker fires: `WF(HbTick)` and `WF(HbReplace)` in `SSEStream`, `WF(Sweep)`
  in `Attachments`.
* Nothing is assumed of clients, of Poe, of the collector's choice to evict, or
  of which branch a `select` takes: `HeartbeatDisarms` holds even if the
  heartbeat's `select` always prefers the ticker.

`AuthBroker`, `SessionMap`, `AgentOptions` and `Settings` have safety properties
only.

## 5. Proofs

### The queue

The first part of `TurnStreamProofs` proves, for every finite or infinite set of
turns and every cap, from the assumptions `TurnKinds` (prompts, reactions and `NoTurn` are
distinct) and `CapIsPositive`:

* `Refinement`: `Spec => ImplementsTurnService`. The mapping puts the turns that
  `stop` has still to close behind the queue (`q \o pending`), takes the
  runner's turn as the one served, and reads a turn's fate off `submit`, `done`
  and `shed`. Every action of the queue is matched with an action of
  `TurnService` or a stutter; the module's first lemmas say what appending to,
  taking the head of and removing from a sequence do to its elements.
* `NoDoubleClose`, `NoTurnLost`, `PromptsKept`, `ReactionsBounded`,
  `NoLostWakeup`, `TypeCorrect`: the invariants of the `queue` run, and
  `PromptsShedOnlyByEviction`, which they need.

The properties are not inductive. `DoneClosedOnce` and `EveryTurnAccounted` do
not say that a turn is held only once, and a turn that is both in the queue and
in the runner would be closed twice. `IInv` adds three parts: `NothingTwice`
(the queue, `stop`'s copy and the runner are disjoint and hold no turn twice),
`ShedIsFinal` (a turn that was not accepted or is still open is not shed) and
`EvictionStage` (what the collector's place says about the queue). TLC agreed
to each part before it was proved.

### The options

`AgentOptionsProofs` proves the four properties and the type invariant of
`AgentOptions` for all sets of models and levels, any relation between them and
both kinds of agent (with and without the system prompt capability), from
`OptionConstants`. Here the invariant relates two beliefs: what is in `applied`
is what the agent has, unless an answer was lost or, for the level, the agent
refused it (`ModelBelief`, `LevelBelief`, `RefusedIsApplied`); and what
`applyOptions` has established at each stage of a turn (`ModelApplied`,
`LevelApplied`). `GivenByCapability` was found by a failed proof: TLC's instance
has an agent without the capability, where it is vacuous, and without it
`Recreate` does not preserve `SystemPromptGiven`.

### The composition

The second part proves all safety of the `stream` run for all turns, channel
capacities and numbers of chunks, from the queue's assumptions and
`ChunkBounds`.

`RefinesQueue` (`StreamSpec => ImplementsQueue`): every step of the runner,
drain, agent and notification goroutines is a step of `SessionQueue` or leaves
its variables alone. As `TurnStream` extends `SessionQueue`, the queue's
invariant `IInv` and the lemma that `Next` preserves it are then cited by name
for the composition.

`AnswerIsComplete`, `ResponseEndsOnce` and `NothingAfterReturn` rest on
`StreamIInv`. `WindowIsWritten` speaks of a turn whose stage is `close`, by when
drain and runner have long been at different places; what is inductive is where
the turn's window is at each stage (`WindowStage`). While it is open, there are
a place `b` in `chunkCh` where its `beginTurn` is (or 0, once the drain has taken
it and `td` is the turn), a place `e` where its `endTurn` is or will be, and a
number `n` such that the sink has the first `n` chunks of the window and the
channel has the others between `b` and `e`; all else in the channel is chunks,
which before `b` and after `e` find no turn. Before the window opens and after
the acknowledgement there is no message of any turn in the channel and the drain
has none (`NoWindow`): that is what makes `endDone` mean this turn's
acknowledgement, and a late chunk harmless to a response that is over.
`Untouched` says that no sink is written to before its turn runs, so that a
window starts on an empty sink; without it nothing bounds what `ApplyOptions`
finds. `NothingAfterReturn` is then short: only the running turn's sink is ever
written to, and its `done` is open (`EveryTurnAccounted` in the queue's
invariant).

The same invariant gives the safety half of what `StreamedTurnsFinish` checks as
liveness: `RunnerIsAnswered` says that while the runner waits for the
acknowledgement, its turn's `endTurn` is in the channel and no other turn's
messages are, so that only a drain that has stopped reading (section 6) can keep
it waiting.

### Attachments

`AttachmentsProofs` proves `LinksDistinct`, `LinkKept` and the types for any
number of prompts that carry the message, any attachments, any names and any
files they stand for, from `AttachmentConstants`: `uniqueName` tries different
names, at least as many as the message has attachments, the first of them the
name itself, and the hash-derived fallback is a name the file system takes.

`LinksDistinct` needs that a free name exists. A prompt claims at most one name
for each attachment it has come to (`UsedBound`), so there are fewer claimed
names than candidates, and by the pigeonhole principle one is left
(`FreeNameIsFree`); the names of its links and of the file it is writing are
claimed and different (`LinksClaimed`).

`LinkKept` is about a file that was opened once. `WritersKnown` says for which
attachments a prompt has opened files, and that those of its links and the one
it is writing to are among them; `CopyingAlone` says that a prompt for whose
attachment alone the file was opened that it is copying to still finds it as it
left it, so that it is whole when the link is made; and `VictimExpired` that a
file the sweep is about to remove has expired, unless someone opened it since, in
which case it has been opened twice. The last is why the
gap between the sweep's `Info` and `Remove` does no harm to such a file.

### The session map

`SessionMapProofs` proves all invariants of the `sessions` run, and
`OneQueuePerConversation`, for any set of requests, from `SessionConstants`. The
strengthening `IInv` has four parts: who waits is in one queue, once, and still
there, or in the hand of the session's runner (`QueuedWait`, `WaitersAreHeld`,
`HandHeld`); what runs is the entry or still being made, what is handed out has
come through `install` (`CreatorRuns`, `TakenIsMade`, `EntryIsMade`, which make a
running session that a request holds the entry), and while the collector is at
the entry, all that this has to do came since it looked (`GapIsLate`); a sink
belongs to a request that has the agent session (`SinkIsMade`, `SinkIsKept`); and
the transcript is carried by the request that made the session (`SeederMadeIt`,
`SeededOnce`). Each action is first reduced to
what it does to these (`CreationFrame` .. `StayFrame`); the parts then follow
from the frames.

`Refinement` (`Spec => ImplementsConversation`) takes the entry's queue as the
line. It is where the parts meet: a push goes to the line only because a running
session that a request holds is the entry (`PushStep`), a new entry has no queue
behind it, and an eviction drops all who wait only because they wait in its
queue. `WaitersAreHeld` was found here: without it an eviction could leave a
request that is queued nowhere. That `touch` waits for the router's lock is
needed too: no turn ends while the session is being closed, so the one a closed
session has in hand was taken up in the gap.

### The response

`SSEStreamProofs` proves `SpinnerNeverMixed`, `NoFrozenSpinner` and the types for
any number of texts, from `TextBound`. `FrameIsFlagged` is the missing link: as
long as the connection lives, a frame on the screen is known to
`spinnerVisible`, so the next user write clears it. The clearing, on the other
hand, must not take an answer with it: `NothingWritten` says that before the
first user write there is none. Both are what `Refinement`
(`Spec => ImplementsResponse`) needs: under the mapping a frame is an empty
answer, so that a heartbeat's write is a stutter, or the loss of the connection,
and a user's write, with the clearing ahead of it, appends one piece
(`AppendDelivers`). `OpenUntilDone` gives the end: until the router's `Done` the
writer is open, and afterwards nothing gets through.

From the refinement follows `NothingMissing`: on a connection that lives the
reader has each chunk in its place, then at most a last word, or one instead of
them all. `Response` keeps this by itself (`WholeStep`), so nothing of the sink's
flags is needed again. `AnswerStays` (no step violates `ContentKept`) is the same
for a reader whose connection is lost: he keeps what he had.

### Clients that leave

`CancelPathProofs` proves the safety of `CancelPath` for any number of requests,
from `NoneIsNoRequest`:

* `NobodyForgotten`, `WatchersWake`: whoever waits is in the queue, with the
  runner or released, and no watcher stays parked behind a cancelled context.
  These are the states `LeaversReturn` and `LeaversAreCancelled` start from;
  what is left to TLC is that the steps from there are taken.
* `OneAtATime`: `AgentServesOne`. It is not inductive, since it does not say how
  the work came to be left; `WorkIsAbandoned` does: what the agent works on is
  the turn being prompted, or one that is over and whose client is gone.
* `CancelReach`: `CancelHitsOwnPrompt` fails (section 6), and this says how far.
  A cancel is sent only for a client that left or was served (`WatcherSaw`), and
  of the prompts of clients still there it meets that of the turn that runs.
* `Refinement`: the runner and the handlers implement `TurnService`, so that
  this model and `SessionQueue` promise their requests the same, though one
  leaves out the eviction and the cap and the other the handlers and the agent.

### Settings and logins

`SettingsProofs` proves `SkipIsRight` and `ShownIsApplied` for all models, levels,
configurations and agents. What the code relies on is that the hash file names
what Poe has as long as no fetch went unnoted and no answer was taken for good
unread (`HashBelief`), that a skipped boot has compared with it
(`SkippedByHash`), that what Poe has fetched in a boot, and kept, is of that
boot's defaults (`FetchedOfBoot`), and what `Resolve` and `Build` say of
each other (`SchemaOfBoot`).

`AuthBrokerProofs` proves `LoginIsPending` and `NoMessageSwallowed` for any number
of queries handled at once, from `AuthConstants` (`None` is no query). A query
that goes on to change the map has either seen the pending login in it, or had
looked before that was there (`KnownRival`): that is what makes everything it
takes away, other than the login it used or cancelled, `Lost`. It changes the map
once (`TookOnce`), and what it has seen was a login, started by a query that is
over (`Saw`, `Started`). `OneLogin` says that of the logins a user has URLs of at
most one was not lost.

### Only model-checked

Everything temporal beyond `[]` and `[][A]_v` (`AcceptedTurnsFinish`,
`StreamedTurnsFinish`, `HeartbeatDisarms`, `ExpiredDirGoes`, `LeaversReturn`,
`LeaversAreCancelled`): liveness under fairness is outside the prover's reach.
All safety properties of the passing runs are theorems. The other way round,
these theorems state properties no run checks; TLC has checked each on the
bounds of section 3: `OneLogin`, `RunnerIsAnswered`, `StreamInvariant`,
`PromptsKept`, `OneQueue`, `AnswerStays`, `NothingMissing`, the `NobodyForgotten`
of `SessionMap` and `CancelPath`, `WatchersWake`, `CancelReach` and the
`Refinement` of `CancelPath`.

## 6. What the code does not keep

Found while modelling, each with a run that shows it:

* `stream_hang` (`router.go:1362`). `gcOnce` tests `idle()`, closes `drainStop`
  and `runStop`, and calls `stop()` last. A prompt pushed in between may be
  popped by the runner after the drain has gone; `runOneTurn` then waits for
  `endDone` for ever. `done` is not closed, contrary to `router.go:214-217`.
* `cancel_other` (`handler.go:185`). A cancel names the conversation, and the
  agent stops whatever prompt it is at. A client that leaves while its prompt is
  queued cancels the prompt in front; and as the disconnection also ends the
  turn at once, its cancel may meet the next request's prompt. Its own queued
  prompt is not cancelled when its turn comes, but fails with its context.
* `attachments_panic` (`router.go:1429`). The sweep removes a message's
  directory while its first attachment is being fetched, and `mustOpen` panics,
  contrary to `router.go:917-918`.

Seen in the models, without a run of their own:

* A notification goroutine that is scheduled late writes its chunk to the next
  turn, if that was already queued (`router.go:439`; the comment takes the next
  turn to be "seconds to minutes later"). In the other order the chunk is
  dropped, though `router.go:731-732` says the drain processes every chunk
  emitted before `Agent.Prompt` returned.
* Two cold requests resume the same agent session; the later `ResumeSession`
  replaces the sink (`agent.go:375`), and if its request loses `install`, the
  winner's conversation gets no more updates. `UpdatesReachEntry` excludes it.
* A session that a reaction created, or whose creator is overtaken in the queue,
  gets a first prompt without the transcript (`router.go:1220`).
* A refetch that Poe carried out and whose answer, or hash, was lost leaves the
  old hash on disk. If the change is then taken back, the next boot finds its
  hash and skips, although Poe shows the other schema (`helpers.go:29-33`).
  `SkippedIsShown` in `Settings` says it does not happen, and fails.
* A 200 whose body is cut short or is no JSON passes the test for dropped controls
  (`helpers.go:64`, `72`), and the hash is written: Poe may then show another
  schema, or no controls, and the following boots skip the refetch.
* A panel that Poe fetches after the agent's list has changed goes with the
  defaults of the boot, which the list may no longer contain (`main.go:198`).
  `ShownIsApplied` only says that what is shown is what is applied.
* A hit on the map does not refresh `lastUsedNs` (`router.go:1220`), so that a
  session may be evicted between `getOrCreate` and `push`, and the prompt of an
  active conversation is refused.
* Nothing waits for the agent process. When it dies the relay stays up, its
  sessions stay in the map, and every prompt fails, at once, until the relay is
  started again; `docs/poe-acp-design.md:43-44` has the conversations reconnect.
  At a shutdown `exec.CommandContext` kills the agent before `Close` can send
  its SIGINT.
* The same race seen from the map (`SessionMap`): the turn left in the hand of the
  evicted session's runner runs on beside those of the conversation's next
  session, or waits for ever.
* If `stop()` comes first in that race, the prompt is shed
  without a call on its sink: the response ends without `done`, and the
  heartbeat, which the handler tells to stop but does not wait for, may write a
  frame after the handler has returned.
* Queries of a conversation that overlap lose logins. `start` tests the map and
  stores the entry in two critical sections (`authbroker.go:148`): two of them
  both pass the test, the user is given two URLs, and the relay has forgotten
  the first, though the package says "at most one in-flight login".
  `complete` and `cancel` delete whatever login is pending
  (`authbroker.go:193`, `211`), maybe one that was started since they looked.
  And a message that came while a login was pending may find it gone, and is
  answered by an empty response, at the line that says "Should not happen"
  (`handler.go:430`). `Lost` in `AuthBroker` names the first two, and the
  properties say that nothing else loses a login or a message.
* A `/login x` or `/logins` sent while a login is pending is submitted to the
  agent as the redirect URL: `Handle` looks at the pending entry first.
* `LevelAsAsked` (in `AgentOptions`) fails: a thinking level whose call was
  refused by one model, or failed because the client left, counts as applied,
  and is not sent when the user comes back to it on a model that supports it
  (`router.go:784`). A lost answer to `set_model` leaves `applied` behind an
  agent that did switch, and switching back sends nothing.
* If the prompt that carries the system prompt fails, the agent may never get
  it (`router.go:721`).
* A message that is sent again truncates the files of its first sending, and
  removes them if its own download fails, while the first prompt's links are
  still in use. `LinkKept` is stated for files that were opened once.
* So does an attachment of the same prompt whose name is the same file:
  `uniqueName` (`router.go:1098`) tells `./a.txt` from `a.txt`, `os.Root` opens one
  file for both, with `O_TRUNC`. Both links are made, and both show the second
  attachment's content; if the second download fails, its `Remove` takes the
  first one's file. `LinksDistinct` is about names for that reason.
* `AttachmentTTL` runs from a file's mtime, so a session used now and then for
  longer than that refers to swept files; the clamp at `router.go:392-397` does
  not prevent it.
* When `session/new` fails the goroutines started for the session are never
  stopped (`NoStrayGoroutines` excludes exactly these).

## 7. Plan

Done in this order: `TurnService`, `SessionQueue` and its proofs; `TurnStream`;
`SSEStream`; `SessionMap`; `AuthBroker`; `AgentOptions` and its proofs;
`Attachments`; `CancelPath`; `Settings`; the proofs of `Settings`, `AuthBroker`,
`SessionMap`, `SSEStream`, `TurnStream`, `Attachments` and `CancelPath`;
`Response` and `Conversation`, with the proofs that `SSEStream` and `SessionMap`
implement them.

Left, by importance:

1. Pure functions against a reference: `capName`, `uniqueName`, the line window
   of `readTextFile`, `flattenTranscript`.
2. `Conversation` with the queue of each of its sessions as a `TurnService`, so
   that the map and the queue become one refinement.

## 8. Not modelled

Flags, secrets and the wiring of the server (read once, before anything is
served); the permission policy (a stateless choice among the options of one
request); the skills catalog (text built at start-up); the debug log; decoding
of Poe's requests and of the agent's JSON; `handleReaction`'s checks of its
request; the handshake with the agent; file access by the agent.

## 9. Running it

    tlc -config MCSessionQueue.cfg MCSessionQueue     # or any other pair of section 3
    tlapm TurnStreamProofs.tla
