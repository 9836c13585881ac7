# Verification of the Fasty session host

TLA+ models of Fasty, a terminal emulator whose shells live in a session host
process of their own, with TLC runs over small instances and TLAPS proofs for
every value of the constants. Paths are relative to the repository root; line
numbers are those of the commit this directory was written against. `PROJECT.json`
maps every definition to the lines it models.

    tlasany SessionHost.tla                               # parse
    tlc -config SessionHostSpawn.cfg MCSessionHost        # one run
    tlapm SessionHostProofs.tla                           # the proofs

## 1. Inventory

The program's own concurrent core is the session host: one process, kept alive
when the window closes, that owns the shells. The window, the command line, the
web gateway and the MCP server are its clients over a Unix socket with one JSON
request per line. Around it stand the client code of an application
(`session_host.rs`), which must come to the right conclusion when answers are
lost, and the window, which keeps panes, timers and closes while answers come in.
Apart from it are the files from which the next start brings the windows back.

| Component | Source | State | Operations | What makes it correct | Module |
|---|---|---|---|---|---|
| Host process, ids | `src/daemon.rs` 75-159, 1237-1339 | flock on `fasttyd.lock`, socket path, `HostLifecycle`, `host-session-high-water` | start, lock, bind, serve, restart, return; reserve and give ids | one server; the path leads to it; ids never reused, over crashes and power loss | `SessionIds` |
| Host requests | `src/daemon.rs` 327-405, 1151-1190, 1391-2500 | registry, `spawn_requests()`, connection count, scope of each connection | list, spawn, spawn_status, close, close_if_idle, close_if_idle_batch, write, restart_host, set_access_scope | restart only when empty; one session per spawn request; idle close kills nothing busy; every request answered | `SessionHost` |
| Event journal | `src/daemon.rs` 175-326, 340-381, 2059-2147 | ring of events, latest sessions and processes, a cursor and a last view per subscriber | register, unregister, subscribe, poll, update, deliver, gap; sample processes | a subscriber's view follows the registry, through gaps | `EventJournal` |
| Attachments | `src/terminal_state.rs` 586-634, `src/daemon.rs` 1678-1853 | subscribers of a terminal's output, a forwarding thread per attachment | attach, detach, output, slow subscriber, close | snapshot and stream without hole or overlap, or the client is told | `AttachStream` |
| Working directories | `src/session_host.rs` 1430-1735, `src/daemon.rs` 1994-2058 | consumers, known sessions, revision, the worker and its connection | observe, publish, release; connect, ask, subscribe, apply, stop; poll and diff | every terminal is told its session's directory, and never an older one | `CwdObserver` |
| Host client | `src/session_host.rs` 63-1144, `src/ui/root_view.rs` 513-561 | the cached host, the call under way | ensure_running, restart_host, spawn_attached and its recovery, probe, idle close and stop by reference | a lost answer makes neither two sessions nor a session taken for gone | `HostClient` |
| Panes of a window | `src/ui/root_view.rs` 4990-7140 | tabs, panes and their references, retry state, pending close and checks | start, exit, reconnect, split, checked and forced closes | one shell per pane, none left without a pane unawares, no wait without an end | `WindowPanes` |
| Terminal | `src/terminal_state.rs` 701-789, 1455-2145, 2630-2800 | writer mutex, `has_terminated`, remote input queue, PTY | write, idle check, terminate, delayed SIGKILL, reader thread | no input lost silently | in `SessionHost`, `AttachStream`, as far as handlers use it |
| Session files | `src/session.rs`, `src/session_manager.rs`, `src/main.rs` 663-787, `src/ui/root_view.rs` | window snapshots, `session.json`, the workspace file, save threads and revisions | register, close and move windows, restore, quit, save, save a workspace | no tab lost that was not closed; a whole file, whatever stops; an older save never replaces a newer one | `SessionFiles` |
| External approval | `src/daemon.rs` 406-541, 1902-1998 | reply channels to the window | ask, answer, time out | not reachable in the shipped program (section 12) | - |
| Protocol versions | `src/protocol_compat.rs` | none | rewriting of requests and responses | upgrade undoes downgrade | - |
| Updater | `src/updater.rs` | download, staging and backup directories | check, download, verify, swap, relaunch | an interrupted swap leaves a version that starts | - |
| Program status | `src/program_status.rs` | records of a terminal | set, expire, aggregate | the most urgent live record shows | - |
| AI agent | `src/ai/` | conversation, permissions, running tool | turn, ask, allow, cancel | a tool runs only when permitted | - |
| Gateway, MCP | `src/gateway.rs`, `src/mcp.rs` | an embedded daemon | serve | see host process | in `SessionIds` |
| Rendering, parsers, widgets, config | `src/ui/`, `src/parser/`, `src/widgets/`, `src/config.rs`, ... | one GUI thread | - | - | - |

How they interact: clients call the host over the socket; handler threads share
four kinds of mutex (lifecycle, spawn requests, registry, the writer of each
terminal) and the journal's; event subscribers poll the registry and also write
the journal; forwarding threads wait on a channel that the terminal's reader, a
close and an unregistration may end; host processes meet each other only through
the files of the state directory. An application reaches the host over a new
connection for each question, so that a question it gave up may still be read;
the window hands questions to other threads and may have changed when the answer
comes. What is hard: the order in which mutexes are taken and released inside one
request, a crash between two disk operations, retries after a lost answer, checks
that are stale when they are used, a bounded ring or channel with slow readers.
`PROJECT.json` lists every hazard at its line, with the properties that cover it,
or why none does.

## 2. Plan

Done, in this order because ids and the registry are what every other part
relies on:

1. `SessionIds` with its abstraction `FreshIds`, `SessionIdsProofs`.
2. `SessionHost` with its abstraction `SessionTable`, `SessionHostProofs`.
3. `EventJournal`, `EventJournalProofs`.
4. `AttachStream` with its abstraction `TerminalViews`, `AttachStreamProofs`.
5. `CwdObserver`, `CwdObserverProofs`.
6. `HostClient` with its abstraction `HostedSessions`, `HostClientProofs`, and
   `WindowPanes` with `WindowPanesProofs`, which stand on what the first four
   show: ids are never another session's, and the host handles a request at once.
7. `SessionFiles`, `SessionFilesProofs`.

Every safety and action property of the runs has its theorem, but for the one
that speaks of ENABLED (section 11). Worth having next: `WindowPanes` over
`HostedSessions` instead of its own account of what is told; the crashes between
the file operations of the updater's swap; pure algorithms against references
(pane tree, program status, protocol rules).

## 3. SessionIds: processes, lock, socket and ids

`SessionIds` models any number of host children and of processes that embed a
daemon (`fastty mcp`, `fastty gateway`). One action per step of
`unix_impl::run`: the flock, the probe of the socket, the removal of a dead one,
the reservation at start, bind, serve, and on the way out the removal of the
socket and the release of the lock. A reservation of ids is one action per disk
operation (`OpenPending`, `WritePending`, `RenamePending`, `CommitReservation`),
so that a crash (`Crash`), a power loss (`PowerLoss`, which may keep or lose what
was not synced) or another process comes between any two. `durable` is the mark
that a power loss leaves. An embedded daemon's main thread may call
`ensure_default_session` at any time after the process started, as the code does
not make it wait for the server thread.

| Run | Question | Result |
|---|---|---|
| `ids_hosts` | three host children, blocks of 2, ids to 7, crashes and power loss anywhere: ids unique, mark ahead of ids, served path reachable, refines `FreshIds` | holds |
| `ids_embedded` | one host, one embedded daemon, accept() may fail; fair: a granted restart gives up socket and lock | holds |

Three processes are enough for one to start while a second stops and a third is
refused; blocks of 2 and ids to 7 give every process a second reservation.
`MaxId` stands for `usize::MAX`; the models stop giving ids there. That the path
leads to the server beside embedded daemons too is proved (section 11).

## 4. SessionHost: the request handlers

`SessionHost` models the accept loop and one handler thread per connection. An
action runs to the next point where another thread can come between: a mutex to
take, or the end of a critical section. A mutex held over several actions is a
variable (`lifecycle` from `Allocate` to `Register`; `spawn_lock` from
`BeginSpawn`, `registry_lock` from `BeginWrite`, both until the answer is sent;
`writer` of each terminal from `LockWriter` to `Kill`), one that is released in
the same action is a guard. An answer is made by one action (`Answer`) and sent by
another (`Send`), because `send()` is a blocking write without a timeout and some
answers go out under a mutex: those of restart and host status under the lifecycle
mutex (`src/daemon.rs:1461-1483`), every answer of a spawn under that of the spawn
requests (2190-2229), those of a write, its "no such session" too, under the
registry's (1879-1899). Requests are records of a command, a
request id and session ids; wording, sizes and payloads are left out. Ids are
those of one host: `MaxId` bounds them, and a host without free ids answers an
error as it does when a reservation fails. Shells are outside the host: they
start a command from input they read, finish it, or die, at any time.

`SessionTable` is what a client may rely on: ids not reused, one live session at
most for a spawn request, and after the host agreed to stop, no session.

| Run | Question | Result |
|---|---|---|
| `host_spawn` | two connections; spawn with and without request id, retried; status, list, close, restart: refines `SessionTable`, `spawn_status` exact | holds |
| `host_idle_close` | writes against idle closes of one session and of overlapping batches; accept() may fail: no input after the idle check, handlers wait for mutexes only and never in a circle | holds |
| `host_restart` | list, host status, spawn, restart, idle close and write with lowered scopes; fair, and if clients read: every request answered, a granted restart ends the process | holds |

Two connections are enough for every pair of critical sections; a third one adds
only another holder, and `host_spawn` has 2.9 million states already,
`host_idle_close` 1.9 million. Three ids in `host_spawn` let a request be spawned,
closed and spawned again beside another session.

Fairness (`host_restart`): every handler and the accept loop run,
strongly fair because a waiting thread's mutex is free now and then and
parking_lot hands a contended mutex over after a bounded time. `Send` is not among
what the host's own threads give: it ends when the client reads or hangs up.
`ClientsRead` asks that of clients, and no more: a client may stay silent for
ever. Nothing in the host enforces it, so that a client which is sent an answer
and neither reads nor hangs up, once its socket's buffer is full, stops that
handler, and with a mutex held every handler that needs it, the accept loop too
when it is the lifecycle mutex; without `ClientsRead` TLC refutes both
properties. Likewise a write to a terminal is taken to return; a program that
never reads its input would block it.

TLC's own deadlock check is off in every run: connections and processes may all
end. Two invariants take its place, since shells could go on while all handlers
wait. `WaitsFor(c)` is the set of mutexes that handler `c` needs next and others
hold: `HandlersWaitForMutexes` says that nothing else but the client it answers
keeps a handler in a request from its next step, `HandlersNeverStuck` that some
handler in a request waits for none.

Modelling also showed that the check of `stopping` inside
`spawn_headless_session` changes nothing that the properties see: a restart
needs the requester to be the only connection, so no other handler can be about
to spawn.

## 5. EventJournal: subscribers of events

`EventJournal` models `register_headless`, `unregister`, the journal, one thread
per `subscribe_events` and the process sampler. `SessionInfo` and process
observations are opaque values; the terminal's info changes at any time, up to
`MaxChanges`. The journal's mutex is a guard everywhere except between a change
of the registry and its event (`journaling`), because polls read the registry
without it. Events are a set, ordered by their sequence number. A client replaces
its state by a snapshot and applies events in order (`view`, `processes`); it is
external to the host. A thread that finds its client gone leaves at the top of
its loop (`HangUp`); a failed send is the same as sending and leaving.

| Run | Question | Result |
|---|---|---|
| `events_sessions` | two subscribers, one with process events, a session with two changes and one sample, a ring of two: the journal matches the registry, replay reaches the journal, an end is the last event; fair: sessions and ends reach every subscriber that stays | holds |
| `events_added_then_changed` | a change reaches a single subscriber | **violated** |

A ring of two events is smaller than the five a run can publish, so gaps happen,
also while the thread is between finding the gap and taking the snapshot. One
session is enough for its own events to overtake each other; the safety theorems
are for any number of sessions. Fairness is weak: sessions and changes are
finite, so the journal's mutex is free for good in the end; no promise is made
for a client that hangs up.

## 6. AttachStream: from the terminal to its viewers

One session with its terminal, any number of connections that attach, attach
again, detach, close it or hang up. A chunk of output is a number; a channel, what
a thread holds and what a client was sent are sequences of them, and a snapshot is
the number of chunks it shows. The hub's boundary mutex is there as the code holds
it: the reader thread applies a chunk to the terminal (`Apply`, `applied`) and
then publishes it (`Publish`, `output`, which drops a subscriber without room), a
handler takes a snapshot (`Attach`) and then subscribes (`Subscribe`), and each
takes the boundary only when the other is not between its two steps
(`BoundaryFree`). Without it a chunk is in the snapshot and comes again, or in
neither. The handler's further steps are apart too: `Enter` asks the
registry again and lists the receiver, `SendSnapshot`, `Replace` stops the
connection's earlier attachment and starts the thread. A thread takes the chunks
that wait (`Take`), sends them, finds its channel ended (`EndOfStream`), asks the
registry why, and tells. `Unregister` takes the entry, then its receivers.

`TerminalViews` is what a viewer may rely on: it is sent the output up to some
point, each chunk once and in order, until it is told, truly, that it lost some or
that the session ended. A view is the sequence of chunks that the client was sent,
those of its snapshot first, so that a chunk sent twice, out of order, or both in
the snapshot and after it is a step that `TerminalViews` does not have.

| Run | Question | Result |
|---|---|---|
| `attach_stream` | two connections, two attachments, channels of 2, three chunks (373,273 states): types, nothing lost silently, refines `TerminalViews`; fair: who stays comes to show everything or is told why not | holds |

Two attachments may be of one connection or of two; three chunks overflow a
channel of two and leave room to overflow it again after a take. Fairness is weak
on handlers and threads: a client that reads (its thread's `Send` goes on) or
hangs up, and a chunk that was applied is published; nothing is asked of the
terminal or of clients beyond that.

## 7. CwdObserver: working directories

`observe_cwd` keeps one observer per host instance, with one worker thread as
long as somebody is registered. `CwdObserver` has both ends of it: terminals that
register, take what is cached, publish it outside the lock and are dropped; the
worker's loop (`Check`, `Stop`, `Connect`, `Ask`, `Subscribe`, `Read`,
`PublishUpdate`, `Drop`); and the host's polling thread, which diffs two looks at
the registry (`Poll`). A directory is the number of the order in which its
session enters it, so that going back is seen. Every session has one: the
updates of sessions without an absolute directory, which the worker skips
(`src/session_host.rs:1642`), are left out. The messages of one poll come in
any order, removals first; the worker takes them one by one, as `apply` does. A
weak pointer is modelled by what it shows: a consumer that was dropped is not
registered. The connection may break at any time (`MaxDrops`), the host may end,
and another instance may take its place, which ends the worker.

| Run | Question | Result |
|---|---|---|
| `cwd_observer` | two terminals with a session each, one that moves and one terminal that may close, one broken connection: types, whoever is registered has a worker, what is known was told, nobody is told an older directory; fair: while the host lives a terminal is told where its session is | holds |

A terminal that leaves while another stays, and one that comes while the worker
stops, are the cases that matter: two terminals have them. Fairness is weak on
the worker, the polling thread and the publication of what was cached: threads
the process runs. That the worker connects again rests on the bound of broken
connections: a host that refuses every connection owes nothing.

## 8. HostClient and WindowPanes: the application

`HostClient` models what an application asks of the host, one connection per
question: `spawn_attached` with `ensure_running`, the restart of an idle host of
another build, the spawn, `spawn_status` for an answer that was lost, the
attachment and the cleanup of a session that could not be attached; the probe of
a session reference, the idle close and the stop by reference. A request is in
`unread` until the host instance it was sent to reads it, also when the client
gave up: that is what makes "no such session" hard to say. Hosts end and start at
any step; an instance may be `Anonymous`, as those of before `HostStatus` are.

`HostedSessions` is what an application may rely on: a session is asked for, made
at most once and ends; what `spawn_attached` says of it is so (`failed`: it is not
there, and is never made later; `attached`, `unidentified`, `orphaned`: it was
made; only after `ambiguous` it may still come); and a session is called absent
only when it was attached and is gone. `HostClient` implements it with `presence`,
the registry entry without the host and the shell's exit, for its one variable
that is not the client's own.

| Run | Question | Result |
|---|---|---|
| `host_client` | two applications of different builds, two host instances (one anonymous), a session each; one asks, closes and stops: refines `HostedSessions`, so that a start that failed safely left no session and leaves none, and a session called absent is gone | holds |

`WindowPanes` models the window: one closure at a time, and what is asked of the
host elsewhere. A pane has a reference (session id, and the host's identity
if the host tells it), a terminal whose `Exit` event may be on its way, and a retry state
with a generation that tells late answers from current ones. A close takes a
snapshot of its panes, is checked in the background (`CloseWork`), and its result
is used only if the window still matches (`CloseResult`).

| Run | Question | Result |
|---|---|---|
| `window_panes` | two panes, together in a tab, apart, or the second to come by a split; two shells each, two closes at once (945,526 states): one running shell per pane, no wait without an end, a pane leaves with its shell running only where the close cannot reach it, only a forced close empties a tab | holds |

`PanesLeaveStopped` is about every shell that was started in a pane and runs
(`Own`), whether the pane refers to it or not. Such a pane leaves only because the
user closes it, and in three cases:

- its session is named but without identity, because its host does not tell one or
  its start left it so (`root_view.rs:582`, `604`): the close does not ask the host
  about it;
- nothing is known of its session, because the outcome of its start is not known: a
  checked close takes it along once the host has answered for the other panes
  (`root_view.rs:617-619`), a forced close refuses (590-594);
- it got another shell after the check of its close began (`root_view.rs:6841`):
  the check speaks of the earlier one.

In all other cases the session has ended when its pane goes.
In `host_client` each application starts one session, which brings together a
start that is given up and the request it left behind; the theorems are for any
number of applications, host instances and sessions. Neither module promises
liveness: the host may be away for ever, and the user owes nothing.

## 9. SessionFiles: what the next start finds

`SessionFiles` models what an application keeps of its windows. A window is the
set of its tabs under a name, a saved session a set of windows; order, titles and
places are left out. `entries` and `last_closed` are `WindowSnapshots`; an entry
is `live` once a window has a WindowId for it, and keeps the name of the saved
window that it restores. `Register` is `register_window`: the snapshot of one
window changes and all are saved before the lock is released, so that the GUI
thread waits. A save is two steps, `WriteTemp` and `ReplaceFile`, or `SaveFails`
instead of either. The user opens and closes windows and tabs and moves a tab to a
new window (`LeaveWindow`, then `EnterWindow` or `NoNewWindow`); `Start` reads the
file, `OpenRestored`, `RestoreTab`, `DropTab` and `FinishWindow` bring back one
window after the other, each restored tab saving at once; `Quit`,
`RegisterForQuit` (which skips a window that cannot be read) and
`PersistBeforeQuit` are the way out. `Exit` and `PowerLoss` may come at any step.
The directory is not synced after a rename: `session_durable` is the file that a
power loss may bring back.

A workspace that the user saves (`SaveWorkspace`) is written by a thread of its
own, of which any number may wait for `SAVED_REVISIONS`. `RestoreWorkspace` adds
the saved tabs to the window at hand, in any start and in any window. It leaves
out the sessions that this window shows and no others (`root_view.rs:8282-8287`),
so that a tab may come to be in two windows, and in two windows of `session.json`.
`shared` remembers the tabs that this happened to, and `SavedSessionUsable` says
that it happens to no other: not over moves, restored windows, quitting, or a
power loss that brings an older file back.

| Run | Question | Result |
|---|---|---|
| `session_files` | two windows, two tabs, two starts, two workspaces (4,135,772 states): types, the file has what is open, it is whole and has no tab twice but the shared ones, a tab leaves it only when it was closed or is under way, a saved workspace stays saved | holds |

Two windows are enough for one to be restored, closed or registered beside
another that must stay in the file; two tabs let each window have one, one window
both, or one move while the other keeps its window open. A tab that nothing knows
any more may stand for a new one, so the bound limits what exists at a time and
not the length of a run; one that was shared never does, which keeps `shared` from
excusing more than it should. Two starts are one to write the file and one to read
it; any number of exits within. Nothing is promised to happen in the end, as the
user owes nothing; TLC's deadlock check is off because an application that is off
and may not start again stops.

## 10. What disagrees with the documentation

The run `events_added_then_changed` shows one disagreement as a violation:

| Finding | Where | Documented |
|---|---|---|
| A session that changes after `session_added` and before the next poll is never reported changed | `src/daemon.rs:2101` | `docs/daemon-protocol.md:121-129` |

It has a second cause: a new subscription seeds the journal
(`src/daemon.rs:251`) with a change that no event carried, and
`update_if_changed` of the earlier subscribers then has nothing to publish.
`EventJournal` with `LateSessions = FALSE`, two subscribers and one session shows
it as a violation of the same property.

Observations made while modelling, without a run of their own; the models have
the steps and leave the promise out:

- Embedded daemons reserve ids before they hold the instance lock, so that two
  processes may give the same ids (`src/daemon.rs:1181`; `CHANGELOG.md:300`,
  "without reuse"). After a hard error of `accept()` (`src/daemon.rs:1316`) a host
  gives up its lock while its handler threads may still spawn for a moment.
- An answer is sent by a blocking write, for some requests with a mutex held
  (`src/daemon.rs:1463`, `1477`, `1883`, `2203`, `2218`): a client that neither
  reads nor hangs up can stop the handlers of all others (section 4).
- `list`, and the subscriptions, spawn a shell on an empty host whatever the
  scope of the connection (`src/daemon.rs:1505`; `docs/daemon-protocol.md:108`).
  The client's `attach_expected` sends such a `list` before it attaches
  (`src/session_host.rs:1200`), so a stop can leave a shell that nobody shows.
- A write to a session that ended is acknowledged (`src/daemon.rs:1881`;
  `docs/daemon-protocol.md:336`).
- An idle close can kill a command that input already in the terminal started
  after the check (`src/terminal_state.rs:2676`; `docs/daemon-protocol.md:62-65`).
- `closed` may be followed by output of the same session on the same connection:
  the forwarding thread still drains its channel (`src/daemon.rs:2253`;
  `docs/daemon-protocol.md:240-242`). Likewise the second snapshot of a session
  attached twice on a connection is sent before the first thread is stopped
  (`src/daemon.rs:1766-1775`).
- The exit of a session is ignored while a close of its pane is checked
  (`src/ui/root_view.rs:5313`), and the result of the check is dropped when the
  exit of another tab clears the pending close (`src/ui/root_view.rs:7045`): the
  pane keeps a dead terminal (`CHANGELOG.md:578`).
- A close may take away a pane whose shell runs on, where the window does not know
  the session well enough to ask the host about it (section 8).
- A forced close of a pane that became the last of its tab leaves a tab with a
  placeholder of pane id 0 (`src/pane_tree.rs:521-555`).
- `restart_host` waits until nothing listens, without comparing instances
  (`src/session_host.rs:288-294`): a host somebody else starts at once makes it
  time out, and the spawn fail, safely.
- The worker of `observe_cwd` never resets its back-off after a connection that
  worked (`src/session_host.rs:1525`, `1556`).
- An exit while a window is restored loses the tabs of it still to come, as every
  restored tab saves the window as it is (`src/ui/root_view.rs:5814`; the comment
  at `src/session.rs:54` speaks of whole windows). An exit while a tab moves to
  a new window loses that tab (`src/ui/root_view.rs:17575`).
- A `session.json` that cannot be read or parsed counts as none
  (`src/main.rs:664`), and the first save overwrites it. Two applications
  overwrite each other's.
- A workspace restored in one window while another shows its sessions puts the
  same sessions in both, and in two windows of `session.json`
  (`src/ui/root_view.rs:8282-8287`).
- `save_session` does not sync the workspace file before it renames it
  (`src/session_manager.rs:185`): a power loss may leave an empty one.
- When a window before the active one closes, `active_window` is not shifted
  (`src/session.rs:117`): another window may be the active one after a restart.

## 11. Proofs

`SessionIdsProofs`. The invariant `ServingInv` (who is past the flock, who is
behind the socket path) is inductive for all constants and gives
`ServingReachable`. For host children (`HostsOnly`: no embedded daemon, accept()
does not fail; with embedded daemons the results are false, see findings)
`IInv` adds `RunInv`, a process spawns only while it holds the flock, and
`DiskInv`, what a reservation has established at each of its disk steps: the
durable mark is at most the readable one, both are whole numbers, and every id a
process may still give lies below the durable mark. `IdsUnique` is not inductive
without it: uniqueness over processes rests on the mark, and the mark on the
order of write, sync, rename and directory sync. From `IInv` follow
`MarkBeforeUse`, `MarkNeverTorn`, `IdsNeverReused` and the refinement
`ImplementsFreshIds`.

`SessionHostProofs`. `IInv` is `TypeOK` with `CountInv` (the count is the number
of handlers), `LockInv` (which mutex is held at which step), `FreshInv` (an
allocated id is unused until registered), `RequestInv` (the record of spawn
requests names every live session made for a request, save the one its holder is
about to record, and a request a session is being made for has none) and
`StopInv`. `StoppingIsEmpty` alone is not inductive: a handler between allocation
and registration would add a session to a stopping host; `LockInv` shows that it
holds the lifecycle mutex, which a restart needs to begin stopping, and `StopInv`
that there is no such handler from then on. One lemma per part of
`IInv` shows that it is kept, one step per action inside. Theorems: types
(`HostTypeCorrect`), `RestartIsSafe`, the refinement `ImplementsSessionTable`
(a registration opens, an unregistration ends, a granted restart stops, all other
steps stutter) and `SpawnStatusIsExact`, which needs `RecordedInv` besides: what
is recorded for a request was made for it. `IdleCheckHolds`
(`NoInputAfterIdleCheck`) and `HandlersGoOn` (`HandlersNeverStuck`) need
`MutexInv` (a handler has the registry across steps exactly from its write's
start until the answer is sent; who has the spawn lock is making a session or
sends the answer) and `WriterInv` (an idle close has the writers of the
sessions it found, save those it has yet to lock, none of which is below one that
it has). So no write has a writer between the idle check and the kill. For the
circle, suppose everybody in a request waits for a mutex. Then nobody is about to
register, record, kill or send, steps that wait for none, and the lifecycle mutex
is free, since only who registers or sends holds it. If a writer is held, take the
greatest that is: its holder waits for a greater one, which is free. If none is,
no write waits, so the registry is free; then nobody waits to allocate, so the
spawn lock is free too, and nothing is left to wait for. `Greatest` picks the
writer in a batch of any size.

`EventJournalProofs`. `IInv` is `TypeOK` with `PendingInv` (a session between
the registry and the journal is the only one; what a thread has yet to journal
was registered), `MembersInv` (the journal has the registered sessions but for
the one being journaled) and `GoneInv` (an ended session is in neither, its id is
used, and its end is its last event). `JournalMatchesRegistry` speaks only of the
moments when nobody owes an event, so it is not inductive without the exact
difference in between; `RemovedIsLast` rests on both others, because a late
update or sample is refused only by the entry that `Removed` took away. Theorems:
`JournalTypeCorrect` (with the journal's capacity), `JournalIsTheRegistry`,
`EndIsTheLastEvent`. `ReplayIsExact` (`ReplayReachesJournal`) adds `RingInv`: the
ring has the last `Capacity` events, each number once, and no cursor is ahead of
it. Two facts carry it. An event pushed out of the ring was sent already, or the
subscriber is not complete any more (`PublishRing`), and a new event decides alone
what its session becomes (`AppliedMore`, `AppliedStatesMore`). Where the oldest
event does not show a gap nothing was lost (`NoGapComplete`), so that a delivery
leaves exactly the journal's state; a gap's snapshot does too, and another
subscriber's seed changes no membership because of `MembersInv`.

`AttachStreamProofs`. `IInv` is `TypeOK` with `HandlerInv` (the attachment a
handler makes is its newest, and has no thread yet; the terminal is at most one
chunk ahead of the hub, and not at all between a handler's snapshot and its
subscription), `UnmadeInv` (one not made has
left no trace), `EnteredInv` (an open channel whose receiver was entered is in the
entry of a registered session), `ReasonInv` (while the session is there, the
channel of a thread that should run closes only because it was full), `ThreadInv`
(a thread holds chunks only while it sends; one that is over has nothing left) and
`DataInv` (snapshot and what was sent, what is held and what waits are sequences
of consecutive chunks, each beginning where the one before ends, and the last ends
at the newest chunk exactly while the hub has the channel). `NothingLostSilently`
speaks of what they make together: a step that takes or sends needs where each of
them ends. A handler's receiver begins where its snapshot ends only because of
`HandlerInv`, that is, because of the boundary mutex. Lemmas about `Run` say that
consecutive runs join to one and what taking the head of one leaves. That `overflow` is told only to who lost something needs
`ReasonInv`, since a stop, a detach and a lost connection close the channel too.
Theorems: `AttachTypeCorrect` (with the capacity of channels),
`NothingIsLostSilently`, `EndReachesEveryThread` and the refinement
`ImplementsTerminalViews` (attaching joins, sending follows, telling loses or
finishes, the terminal's output and the end of the session map to themselves, all
other steps stutter).

`CwdObserverProofs`. `IInv` is `TypeOK` with `WorkerInv` (a worker runs exactly
while it is somewhere in its loop, and whoever is registered has one; who is not
held was told nothing), `RevisionInv` (no terminal and no cached directory is
ahead of the observer's revision, and whoever has an update to come is behind
it) and `ToldInv` (who has no update to come has the newest directory, or finds
it in what was cached for it). `ToldWhatIsKnown` speaks of terminals that have
nothing cached; without the case of `ToldInv` where the cache is ahead it is not
inductive, and without `RevisionInv` a publication could be refused. One lemma
per action that disturbs the invariant, `Undisturbed` for the others. Theorems:
`ObserverTypeCorrect`, `WorkerOutlivesConsumers`, `KnownIsTold`. The action
property `NeverBack` (`NoTerminalGoesBack`) rests on the order of what is on its
way. `OrderInv`: what the observer knows of a session, the messages on their
way, in the order of their batches, and the session itself come in this order,
and an entry that is missing comes before anything. `BehindInv`: what a terminal
was told, or will take from the cache, comes before all of these, and the cache
is only for a terminal that was told nothing. Neither is a fact about one step:
a terminal is told from the cache or by the worker, a lost connection makes the
observer forget what it knew, and the batches of the next one must still not be
older than what was told.

`HostClientProofs`. `IInv` is `TypeOK` with `PhaseInv` (a client is in the
phases of its call and asks about its own sessions), `SessionInv` (sessions
there are those of the host that listens; one that was made has no request to
make it left; what clients were told is so), `RequestInv`, `NumberInv` (a
client's sessions are asked for one after the other) and `CallInv`. The last
says what is true of the session while a client is in a call about it: until a
spawn is answered, or refused before it was sent, the session was not made and
the requests for it went to the client's host; after an answer of no none is
left; a session that is asked about was made on the expected host, so that a
refusal, another host or a no mean that it is gone. `FailedMeansNone` alone is
not inductive: a request left behind by a client that gave up makes a session
later, and only `CallInv` tells the calls that may have one from those that are
told `failed`. `AbsentMeansGone`, what `HostedSessions` says of sessions called
absent, needs that sessions do not come back, which is `SpawnsOf(s) = {}` in
`SessionInv`. `Keeps` says what a step leaves of a session, and `KeptClient` and
`KeptSession` that this is enough; each action is then a lemma about one client.
The refinement `ImplementsHostedSessions` takes the same invariant: the end of a
host is one abstract step that ends all it had, a request that is handled is
`Start` because `SessionInv` excludes every outcome but `asked` and `ambiguous`
while a request is left, and a telling step is true by `CallInv`. It needs the
outcomes `unidentified` and `orphaned` in `SessionInv`, of which no invariant of
the run speaks. Theorems: `TypesHold`, `FailedStarts`, `AbsentSessions`,
`ImplementsHostedSessions`.

`WindowPanesProofs`. `IInv` is `TypeOK` with `OwnInv` (a pane that knows its
session has no other; one that knows none and may start one has none; one that
does not know has one at most), `CloseInv` (the check a close waits for has a
result to come) and `RetryInv` (an entry has a timer or an attachment of its
generation). `OneShellPerPane` is not inductive: whether a start is allowed
depends on what the pane knows and not on what runs. For `PanesLeaveStopped` a
pane acts on what it heard earlier, and `LeaveInv` adds what makes that still
true: `FreshInv` (the shells of a pane are numbered in the order of their start,
so none that is gone comes back), `RefInv` (a pane that heard "gone" refers to
such a session), `TaskInv` (likewise an attachment), `CheckInv` (what a check
knows of its panes: which it covers, and that a closed one stopped their
sessions) and `IdentityInv` (a pane in the window whose identity is known refers
to a session, so that the panes which may leave with a shell are just those the
property excepts). `OnlyForcedCloseEmptiesTabs` needs the types only: every removal counts
what is in the tab at that step. Theorems: `PanesTypeCorrect`,
`NoDuplicateShells`, `NobodyWaitsForNothing`, `PanesOnlyLeaveStopped`,
`OnlyForcedClosesLeaveEmptyTabs`.

`SessionFilesProofs`. `IInv` is `TypeOK` with `PhaseInv` (what is empty outside
the phases that use it, and that a running application has something to save),
`WindowInv` (the snapshot of an open window shows its tabs, and every open window
has one), `DisjointInv` (no tab in two snapshots, nor in one and on its way, but
for those that restoring a workspace shared), `FileInv` (a save writes the
snapshots as they are; when none is under way and the last did not fail, the file
has them; it names each window once), `LagInv` (the file has no tab that nothing
else knows) and `WorkspaceInv` (one thread writes, and never an older workspace).
`WindowsSaved` speaks of moments without a save, so it needs what a save under way
will write, and `WindowInv` for what the snapshots are; there the window whose
restoration has begun is apart, because its snapshot still has tabs that it does
not show (`Unseen`). `TabsLeaveByClosing` is about one step of the file, but the
tabs that this step takes away were closed some steps ago, perhaps before saves
that failed: `LagInv` carries this from the close to the replacement. Ten
operations register a window, and `RegisterStep` says once what that keeps.
`SavedSessionUsable` excepts shared tabs and no others, so `shared` only grows by
a restored workspace's tabs that another window has, and `RegisterStep` asks of
every operation that its other tabs be nobody else's.
Theorems: `SessionTypes`, `SessionSaved` (`WindowsSaved`), `SessionUsable`
(`SavedSessionUsable`), `SessionKeepsTabs` (`TabsLeaveByClosing`) and
`WorkspaceKept` (`SavedWorkspaceKept`), for any windows, tabs and bounds.

Five invariants have a theorem and no run, since refinements and invariants of
the runs imply what they say or they support them: `HighWaterReadable`,
`StoppingIsEmpty`, `EndReachesThreads`, `FailedMeansNone` and `AbsentMeansGone`.
Each stands before its theorem.

Assumptions: finitely many connections and panes, sentinels outside their sets,
bounds that are numbers, each terminal with a session, builds that are numbered
from 1 (0 stands for a host that never ran); each is an ASSUME of the module that
declares the constants and is evaluated by the runs.

Only model-checked, because out of the prover's reach: `HandlersWaitForMutexes`,
which speaks of ENABLED, and liveness under fairness (`EveryRequestAnswered`,
`RestartCompletes`, `RestartReleases`, `MembershipConverges`, `ViewersCatchUp`,
`CatchesUp`). No module declares a RECURSIVE operator.

## 12. Not modelled

Everything of section 1 without a module, for the reason given for it in
`PROJECT.json`: I/O, pure data transformation, or rendering on the GUI thread.
Within the modelled parts: request kinds that only read or only speak to the
window, Windows builds (the host is Unix only), u64 limits of sequence numbers and
generations, and the contents of terminals.

The map covers a small share of the repository's lines, and would with every
protocol of it modelled: two thirds of the lines are `src/ui/`, the terminal's
parsing and drawing and the configuration, where state is data and layout; the
protocols sit in `daemon.rs`, `session_host.rs`, parts of `terminal_state.rs` and
a thousand lines of `root_view.rs`, which is where the modules are.

External approvals and GUI requests (`daemon.rs` 406-541): the GUI registers its
sender in its own process (`root_view.rs:4570`), the daemon's server runs only in
host, `mcp` and `gateway` processes, and these have no GUI. So `external_action`
always answers `approval_unavailable` (`daemon.rs:509`; compare
`docs/daemon-protocol.md:138-142`) and a spawn with `open` stays headless. The
prompt that replaces a pending close (`root_view.rs:4607`) does not come either,
and `WindowPanes` leaves it out.

Updater (`updater.rs`): read, not modelled. Several threads of the window may
download at once to one path, whose hash is that of the bytes received and not of
the file (627); two processes share the staging directories; and
`cleanup_old_installations` (1159), which runs at every start, removes on macOS
the staging directory and the backup that a swap script of another process is
about to use.

Terminal input (`RemoteInputWriter`) and termination: a queue of one writer and a
delayed signal. Program status, the pane tree: sequential code of one thread,
within reach of unit tests.

Session files: the order and place of windows, the migration of old formats,
`session_restore` turned off, and a second application beside the first; of the
workspace, its listing and deletion, which nothing calls.
