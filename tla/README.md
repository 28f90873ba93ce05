# A TLA+ model of pty-relay

pty-relay gives remote clients access to pty sessions on a machine, through an
end-to-end encrypted tunnel over WebSockets.  A *daemon* on the machine keeps a
*primary* control connection to a *relay* and opens one more connection per
client; the relay pairs it with the client's and forwards opaque frames.  Inside
each tunnel a channel multiplexer carries session commands, one pty channel and
any number of exec channels.  Clients are the `pty-relay` command line (a terminal,
one-shot commands, an events feed) and a web page.  This directory models the
parts of that program where the order of events matters, checks them with TLC and
proves the most important results with TLAPS for every size of system.

Everything is a single-threaded Node program (or a page), so the unit of
interleaving is a handler: what runs between two returns to the event loop.  What
interleaves is handlers of one process (timers, sockets, children, promise
continuations), and processes: clients, the daemon, the `pty-relay clients` command
and its TUI, the commands that manage keys, the children of exec channels.

## Inventory

Paths are below `src/src/` unless they start with `browser/`, which is `src/browser/`.

| Component | State | Operations | What is hard | What makes it correct |
|---|---|---|---|---|
| Channel registry, connection, dispatcher (`relay/channel-*.ts`) | id -> handler | open, close, closeAll, attachBridge; routing of frames | ids used again, the cap, errors thrown from inside a frame handler | every live resource is held by the registry or gone; the cap |
| Exec bridge (`relay/exec-bridge.ts`) | child, finalized, stdinClosed | start, onFrame, close, child events | exit, error, output, close and teardown in any order | each channel ends once, no child is orphaned |
| Session bridge (`relay/session-bridge.ts`) | pty socket | attach, onFrame, close | late connects, replaced bridges | one live pty socket per client, its output under its own session |
| Session RPCs (`commands/start-shared.ts`) | cs.bridge, events follower | list, attach, peek, send, tag, spawn, events | continuations after teardown | no bridge, follower or heartbeat outlives its client |
| Noise engine (`crypto/noise.ts`, `crypto/transport.ts`) and the tunnel's ends (`relay/relay-connection.ts`, `terminal/client-connection.ts`, `relay/psk.ts`) | handshake state, two cipher counters, connection state | connect, paired, handshake, send, receive, close | each end chooses pattern and PSK by itself, nonces are never sent, late frames | an end is ready only with a peer that matches; counters stay in step |
| Self-hosted daemon (`commands/start.ts`) | clients, pendingClients | client_waiting, client_disconnected, timeout, SIGUSR1, primary loss | awaits between check and use, batches, signals, restarts | only approved clients enter, revocation takes effect |
| Client token store (`relay/clients.ts`), command and TUI | clients.json | updateClients; approve, revoke, invite | read-modify-write by several processes | no update is lost, revocation is final |
| Pairing relay (`serve/pairing.ts`, `serve/server.ts`) | primary, clients, their daemon sockets | register, forward, hold, reject, close | sockets replaced or closed in any order | frames only between paired sockets, everybody hears of every end |
| Primary connection (`relay/primary-connection.ts`) and public daemon (`commands/server/start.ts`) | socket, cursor, retry state, key in memory | connect, draining, revoked, events, mint | a late close of an old socket, a rotated key, backoff | the daemon comes back, under the new key |
| Terminal client (`commands/connect.ts`, `commands/connect-public.ts`, `terminal/`) | closure of every attempt, stdin, known-hosts row | attempt, reconnect, detach, approval, spawn | events of an attempt that is over, half-open sockets, attempts that half succeed | one reader of the keyboard, one spawn, gives up late but ends |
| One-shot commands (`commands/*.ts`, `relay/relay-client.ts`, `relay/transport-ssh.ts`) | one call per host: attempt, tunnel, timer | ls, peek, send, tag, kill | late answers, retries of what was done | repeated only unheard; a success is real; every call ends |
| Events client (`relay/events-client.ts`, `commands/events.ts`) | connection, idle timer, backoff | subscribe, resume, give up | idle timer, close and backoff race | one connection, the feed ends or lives |
| Web page (`browser/src/main.ts`) | socket, keys, view, history and URL, token | attach, detach, back, reconnect, reload | close events of replaced sockets, page and daemon disagree about the session | keys go to the session on display, the page comes back, or stays away |
| Public account commands (`commands/server/`, `commands/client/`, `commands/reset.ts`), account record, known hosts | record, `known_hosts` rows | signin, join, rotate, revoke, delete, merge, reset | lost answers, death between two writes, a running daemon with the old key | the record always holds a key the relay accepts, known hosts follow it |
| Storage back ends, signing, envelopes, TOTP, command line, rendering | | | | see "Not modelled" |

They interact by calls inside the daemon (dispatcher -> registry -> bridge),
by callbacks from sockets, timers and children, by messages (control frames,
the primary's text frames, Noise frames), by the shared file `clients.json`, by
SIGUSR1, by known-hosts rows that keep an approved client's token, and by the
account record, which a running daemon reads again before it dials.

## Modules

| Module | What it is |
|---|---|
| `ChannelMux` | One client connection in the daemon after the handshake: registry, exec and pty bridges, children, pty sockets, the client session, every way it ends |
| `ExecContract` | What the daemon promises about exec channels; `ChannelMux` implements it (`KeepsExecContract`) |
| `ChannelMux_proofs` | Its theorems, and the refinement |
| `Approval`, `Approval_proofs` | Operator approval in the self-hosted daemon, with the token file and the processes that write it; its theorems |
| `Pairing`, `Pairing_proofs` | The self-hosted relay's registry of sockets, with the daemon's control and data connections and the clients'; its theorems |
| `Sockets` | The `ws` library as `Pairing` and `Tunnel` see it: two queues, a close handshake, a break (external code) |
| `Account`, `Account_proofs` | One device's keys on the public relay: the commands that enrol, rotate, revoke and forget them, the record, the hosts rows, the daemon that signs with one of them; its theorems |
| `Noise` | The Noise engine as operators on terms: patterns, handshake state, split keys, cipher counters; loading of a PSK |
| `Tunnel`, `Tunnel_proofs` | One client and one data socket from the pairing to the end of the encrypted tunnel, for every kind of client and configuration; extends `Noise` and `Sockets`; its theorems |
| `Reconnect`, `Reconnect_proofs` | One `pty-relay connect` over all its attempts, self-hosted or public; its theorems |
| `OneShot` | ls, peek, send, tag and kill: one call per host, over a tunnel, a public relay or ssh, and the daemon's half |
| `EventsFeed`, `EventsFeed_proofs` | The events feed, beside `OneShot` (one process runs one of the two), with the daemon's followers; theorems about both |
| `Browser`, `Browser_proofs` | One page, its sockets and timers, URL and history, token, and what relay and daemon do for it; its theorems |
| `MC*` | Symmetry sets, tab histories and other values for TLC |

They meet at their borders: `Approval` decides what `Pairing` leaves free (who is
admitted), `Pairing` gives the data socket whose tunnel `Tunnel` builds, and
`ChannelMux` is what the daemon does with the plaintext of one such tunnel.
`Reconnect`, `OneShot`, `EventsFeed` and `Browser` are the clients at the other
end; for each the relay and the daemon are as free as `Pairing`, `Tunnel` and
`ChannelMux` let them be in what that client can observe.

### ChannelMux

A bridge object is a member of `Bridges`; `kind` says which class it is and
`chan` the id it was built for.  `registry` is `ChannelRegistry.handlers`,
`csBridge` is `ClientSession.bridge`, `finalized` and `stdin` the flags of
`ExecBridge`, `socket` the field of `SessionBridge`.  `child` follows a process:
*running*, *dead* (its exit event is queued), *exited* (the event ran, output
may remain), *ended*; *failing* is a spawn whose `error` event is to come.
`termed` are the bridges whose `close` sent SIGTERM.  Sent frames are not kept
in a channel: the tunnel is first-in first-out, so what a client can conclude
depends only on the order of sending.  `out` is what the latest step sent and
`view` the ledger a client keeps while it reads.

Actions are whole handlers: a channel_open with everything `openExecChannel`
does, a teardown with the cascade through the registry.  Two variants of the
daemon differ in one thing the model needs, the constant `TearsDownOnError`:
`onError` of the public daemon tears the client down, that of the self-hosted
one only logs.  A `throw` is followed to where it lands: out of `attach` into
`handleBinaryMessage` (`AttachAtLimit`), out of a spawn continuation into its
`catch` (`SpawnAtLimit`), out of an `exit` listener or a pipe into nothing
(`crash`).

Left out: payloads, which argv the allow-list takes (any request may be
refused), resize and signal frames that change nothing the model has, the
RPCs that move no bridge (`OneShot` and `EventsFeed` have them).

### Approval

`store` is the status of every token in `clients.json`; `pending`, `session` and
`timer` are the daemon's maps; `queue` and `snap` are `clientsMutationQueue`
and what its head has loaded; `checking` are `onClientWaiting` calls that wait
for their lookup.  Store access is synchronous under its async interface, so
continuations run to their end before the next timer, signal or socket event
(`Idle`, `NextTask`).  The exception is the primary's text frames: ws hands over
all frames of one read in a row, before any continuation, so `ClientWaiting`
and `ClientDisconnected` are enabled until the continuations begin
(`draining`).  `cli` is what a `clients` process has loaded and is about to
save.  `Overlap` says whether a write may fall between another process's load
and its save; the code does not prevent it, and the window of the command is as
long as its y/N prompt.

Left out: auto-approve, labels and metadata, expiry of nothing else than the
approval, the death of the command between its save and its signal, a store
that fails to load.

### Pairing

One secret_hash.  `primary`, `client` and `data` are sockets, each with both
ends' states and the messages on the way (`Sockets`); `entry` and `member` are
`PrimaryEntry`, `control`, `held`, `sessions` the daemon's `primary.ws`,
`pendingClients` and `clients`; `linked` are sessions whose data socket took
`paired`, which is what a handshake or a decryption can fail after.  `checking` are
`onClientWaiting` calls behind an await: as in `Approval` only frames of the same
read come between (`Settled`), and relay and daemon are one process, so the
relay's handlers wait for them too.  Clients, the network and the operator do
what they like.  Who is admitted, and why, is `Approval`'s subject; here any
choice may be made, which is what composes the two: every order `Approval` gives
is a `Reject`, `Hold`, `Admit`, `ApproveHeld`, `HeldTimeout` or `Sever` here.

Left out: binary frames (`Tunnel` forwards them), the PSK flag of `paired` (a
refusal is `DataFails`), other secret hashes (they share nothing), a data socket
that breaks: it runs over localhost inside one process.

### Account

`account` is the `PublicAccount` record, the `KeyIdentity` of each role with the
key of its pending rotation; `hosts` are the `known_hosts` rows of this device's
daemon keys and `named` the one whose label is `account.label`, which is how
rotate finds the row it replaces.  `status` is what the relay makes of every key
(external; the repository says that a started rotation deprecates the old key
and a completed one revokes it).  `run` is the command under way and `stage` how
far it is: *posted*, *applied* by the relay, then one stage per write, so that a
crash or a lost answer (`CutShort`) may fall between any two.  `Refused` stands for
every error before the relay acts.  `daemon` and `signs` are the process of
`server start`: its connection and the key it holds in memory, read again by
`Redial`.  How old a pending rotation looks (`Age`) is a free choice each time, since
the clock may have moved.  `byHand`, `orphaned` and `untidy` are histories that the
properties name as exceptions: keys revoked on request, keys whose rotation
began without the device learning of it, and whether anything was cut short.

Left out: rows of other devices, e-mail and TOTP codes, pins, two commands at
once, a merge that stops half-way.

### Noise and Tunnel

`Noise` is symbolic: a DH result is the set of the two key names, a chaining key
the sequence of what was mixed into it, a ciphertext the key, nonce and
associated data it was sealed under, which open it and nothing else does.  The
operators follow `noise.ts` token by token (`WriteToken` and `ReadToken`, which
`WriteTokens` and `ReadTokens` apply to the tokens of a message in order), so what a
pattern mixes, and in which order, is computed and not assumed.  `LoadPsk` is the precedence and the failures of `psk.ts`.

In `Tunnel`, `cfg` is what the two ends were started with (kind of client, pinned
key, both PSKs, what a public relay says of the client, whether it holds a token);
`cl` and `dm` are the ends' connection state, handshake and pair of ciphers;
`client` and `data` their sockets, between which the relay forwards.  `Hello`,
`Welcome`, `DaemonReads` and `ClientReads` carry the real terms, `DaemonDrops` and
`ClientDrops` are frames after a close, `Severs` is the daemon ending a session,
`DaemonSays` and `ClientSays` the traffic.  `entry` is the row in the map of
clients: it stays when a self-hosted connection fails and its `onError` only logs.
A join is a client whose first message the daemon's channel dispatcher drops.

Left out: nonces that run out, erasing of keys, the audit log of PSK attempts.  The
public relay is not in the repository and is taken to behave like
`serve/pairing.ts`.

### Reconnect

Every attempt of the loop is a closure in `slot`: `done` is `resolved`, `intent` is
`intentionalClose`, `st` the state of its `ClientRelayConnection`, `ws` its socket
(*half* is half open, *dying* one that is destroyed and whose close event is to
come), `term` its Terminal, `ping` and `pong` the keep-alive's timers, `timer` the
approval's or the listing's.  `peer` is how far the relay and the daemon have come
for it, which bounds what they may still send.  `tty` is stdin: who listens, and raw
mode; `Sleeper` is the listener of `interruptibleSleep`.  `token`, `urlToken` and `row`
are the credential in memory, in the URL computed once before the loop, and in
known hosts.  A slot is free again when its socket has closed: two slots show an
attempt beside an old one whose events still come; the theorems allow any number
of them.

Left out: `connectEmbedded`, which nothing calls; what the terminal draws; a
socket that connects for ever (the kernel ends it).  `onFatal` skips the terminal's
cleanup, which is harmless because the process exits there; SIGINT ends it from
anywhere.

### OneShot and EventsFeed

`OneShot` has one call per host (`stage`, `outcome`, `attempt`), the tunnel of its
current attempt with its timer, and for every attempt a `job` at the host, which
outlives the tunnel: a request that was sent may be carried out after the client
gave it up.  `heard` and `carried` are histories: which attempts' answers the client
read, and which the host began.  A failure has its kind (`Errors`), because
`sendPublicRemoteCommand` retries some and not others (`TriesAgain`).  `EventsFeed`
extends it with the feed: `sock` per connection with its idle timer, `cs` the
daemon's session with the `await` of `events_subscribe` made visible (`asked`,
`listing`, `runs`); `late` marks a follower that was started after its client's
teardown.

Left out: what screens, tags and events contain; exec and rsync (the other side of
a channel of `ChannelMux`); the clock behind the timeouts.  `peek --wait` without a
limit polls at the daemon for ever after its client has left, and kill works over
ssh only.

### Browser

`ws`, `transport`, `page`, `shown` and `token` are the page's globals; `transport` is the
socket whose handshake gave the keys, because the page has one pair of ciphers for
whatever socket is current.  `shown.hist` is the tab's history, `pos` where it stands.  A
socket that the page closed is muted but still fires `close`; `OnClose` does not ask
whose socket it is.  `srv` is relay and daemon per socket, with the bridge, an attach
that is connecting, a list and a spawn that are unanswered.

Left out: terminal contents and the packet parser, key bars, the input
predictor, health indicator, notifications, font size; failures of the handshake
and of decryption; approval timeouts, full daemons and auto-approve.

## What the runs check

| Run | Bounds | Shows |
|---|---|---|
| `mux_exec` | 3 bridges, ids {1, 2}, cap 2, public daemon | `NoOrphanChild`, `LiveExecDataFollowsAck`, `ExitNeverThrows` (of this daemon only, see below), and that exec channels implement `ExecContract` (`KeepsExecContract`) |
| `mux_pty` | 2 bridges, ids {1, 2}, cap 1, 2 late spawns, self-hosted daemon | `WithinLimit`, `LivePtyIsReachable`, `PtyDataFollowsAttached`, and `LateAttachEnds` under fairness |
| `approval_serial` | 2 clients, 2 tokens, 1 command, MaxClients 1, MaxPending 2, no overlap | `OnlyApprovedEnter`, `EveryPendingIsListed`, `RevocationIsFinal`, and under fairness `RevokedIsDisconnected` and `ApprovedIsLetIn` |
| `pairing_loss` | 1 client, 2 primary sockets, 2 breaks; or 2 clients, MaxClients 1, no break | `NoStrandedData`, `DaemonWillHear`, and under fairness `GoneIsForgotten`, `EveryClientIsAnswered`, `PrimaryComesBack` |
| `account_rotation` | 3 daemon keys, 1 client key, 1 mishap | `HoldsLiveKey`, `HostsFollow`, and under fairness `DaemonComesBack` |
| `reconnect_drops` | 2 slots, 2 attempts, self-hosted and public, with and without `--spawn` | `KeyboardHasOneReader`, `SpawnsOnce`, `GivesUpLate`, `OldIsOver`, and under fairness `EndsWithoutNetwork` |
| `oneshot_hosts` | 2 hosts of every kind, 2 attempts, 2 connections, 2 tries | `RepeatsOnlyUnheard`, `SuccessIsReal`, `OneFeed`, `FollowersEnd`, and under fairness `EveryCallEnds` and `FeedEnds` |
| `browser_page` | 2 sockets, 2 sessions, 2 faults (1 may be a revocation), 2 acts of the user and typing | `OnlyCurrentSpeaks`, `StaysAway`, `KeysGoToShown`, and under fairness `ComesBack` and `StartsAfresh` |
| `tunnel_kinds` | every kind of client, every PSK configuration of two values, 2 messages per end, 1 break | `InStep`, `ReadyAgree`, and under fairness `TunnelComes` |

Why the bounds are enough.  Three bridges are two channels side by side and a
third that reuses the id of one whose child still lingers; two are an old and a
new pty bridge, or a pty bridge and an exec channel in its way, and a cap of one
makes every attach meet the limit.  Two clients are one inside and one that
waits, or two in one batch; two tokens are one revoked and one fresh.
`IdsLeft` is the only artificial bound on `Approval` (ids do not run out in the
middle of a handler), `MaxSpawns` the only one on `ChannelMux`.  In `Pairing` clients
share only the primary's queue and the cap.  The second client dials while the
first is connected, which is how they meet; what becomes of one client is looked
at with breaks and without the other.  `Staged` in `MCPairing` says so as a
constraint on steps that nobody owes, so it takes away no fair behaviour; the
theorems on `NoStrandedData` and `DaemonWillHear` need neither it nor a bound.  Two
primary sockets are the one the relay still holds and the one the daemon dials.
`MaxBreaks` bounds broken sockets.  Three daemon
keys are an enrolment, a rotation and a second one after it (or instead of it,
when the first looks expired); one client key lets every command run that acts
for both roles.  `MaxMishaps` counts the commands cut short, resets and
revocations by others; one mishap may fall anywhere.  The chunk sizes are 1 byte
and 64 KiB, what fits a frame and what does not.

In `Reconnect` two slots are an attempt and the one before it; `MAX_RECONNECT_ATTEMPTS`
of 2 separates the first failure, the one that is counted again after a connection
that worked, and the last.  Nothing bounds how often the link goes and comes.  Two
hosts let `ls` have two calls of different kinds side by side; two attempts are the
first and one retry, whose answers may cross.  Two connections let an old session of
the daemon linger while the feed has its next.  Two sockets and two sessions are what
the page has and what it had; `browser_page` finds its races with two faults (a
second one while the first is being repaired) and two acts (a switch and a step
back).  In `Tunnel` two PSK values, one of them from the file and one from the
environment, an unreadable file and a malformed variable are all outcomes of
`LoadPsk`; two messages of each end are one under way while the next is sealed.

Properties that are proved and not listed here, type correctness above all, are in
"What is proved".

Three runs end in a counterexample, each for a statement of the repository that
the code does not keep:

| Run | Property | Statement | What happens |
|---|---|---|---|
| `mux_selfhosted` | `ExitNeverThrows` | the registry closes every channel when the Noise session ends for any reason | in the self-hosted daemon a frame that does not decrypt, or an attach at the cap, closes the connection and only logs; the child's next `exit` or `error` event throws out of its listener and ends the daemon, with all its clients |
| `browser_loop` | `Reconnects` | the page's reconnect loop brings it back | the close event of each socket that `connectToRelay` replaces schedules the next reconnect, for ever |
| `tunnel_join` | `JoinIsAnswered` | over Noise: MintRequest, then MintReady | the daemon's channel dispatcher drops the bare JSON of the request; `client join` waits without a timer |

## Fairness

`ChannelMux` assumes only that a Unix-socket connect resolves or fails and that
a pty server writes something after ATTACH (it repaints the screen); clients,
children and the relay owe nothing.  `Approval` assumes that continuations run
(weak), that `signalDaemon` follows the save (weak), and that the event loop
takes a pending signal however busy it is (strong: libuv polls the signal pipe
in every iteration, but other tasks keep interrupting the idle state in which
the handler may start).  Its timeouts are not fair, so `ApprovedIsLetIn` is shown by
the signal and not by the entry timing out.  `Pairing` assumes
that messages and ends of sockets arrive, per primary socket and for each of the
daemon's queues, that the daemon dials again (its 500 ms timer), and that the
approval timeout fires: when a client's two frames come in one read, the pending
entry is made after its client's end went by and nothing else drops it.
`Account` assumes that the backoff timer fires and that a dial the relay refuses is
answered (weak), and that a dial it would accept gets through if it is made again
and again (strong: the network may break any of them).  Commands and the relay's
changes of a key owe nothing.

`Reconnect` and `EventsFeed` assume that timers fire and that a socket that is over
gets its close event (`ws` waits 30 s for the other side), and that the kernel gives
up opening a socket without a network; the relay, the daemon and the user owe
nothing, and the network may come and go for ever.  `OneShot` assumes its timers and
that an ssh child ends.  `Tunnel` assumes that what is on the way is taken; nobody has
to speak, leave or break.  In `Browser` timers and close events are weakly fair; the
answers of the network are strongly fair, because the model has no clock and the
page's reconnect waits half a second or more, which does not beat every answer for
ever.  `TimerFires` requires that hashing the secret is over, for the same reason.

## What is proved

All theorems are checked by TLAPS from the named assumptions on the constants
(finite channel ids, natural bounds, `None` outside every set).

*ChannelMux.*  The invariant `IInv` adds to the types the life of a bridge
(`LifeInv`: what is unused has no child or socket; what is finalized was
signalled or its child is gone) and who holds it (`HolderInv`: an exec bridge
that is not finalized is registered under its id in a live session; a live pty
socket is held by `cs.bridge` and by the registry).  `NoOrphanChild` alone is not
inductive: that teardown finds every child needs that the registry still holds
each unfinalized bridge, and under its own id.  From it follow `TypeCorrect`,
`NoOrphans` and `PtyReachable`.  `ExitIsSafe` needs more, that a lost session and
a closed connection go together, which is where `TearsDownOnError` is assumed: it is a
theorem about the public daemon.  Of the self-hosted one, which serves exec channels
just as well (`--allow-exec`), the statement is false, and `mux_selfhosted` shows the
crash.  `LimitHolds` counts: a handler only closes
registrations or adds one below the cap, where attachBridge's replacement reuses
the place it freed.  `Refinement` maps a bridge to its phase in `ExecContract`
(`execPhase`, `execRunning`) and shows each action a step or a stutter; a
teardown is `Abandon` of the channels still open.  `ViewInv` ties the client's ledger
to the bridges: it names every open exec channel, and the pty bridge whose output may
still be sent, because whoever takes or gives away an id has first closed what the
registry held under it.  From it follow `PtyFollows` and `ExecFollows`.

*Approval.*  `OnlyApproved` holds with and without overlap: its invariant
extends "active means approved" to every copy of the file somebody may yet write
back.  `RevocationFinal` and `PendingListed` assume `~Overlap`; `FileInv` says that
what the daemon loaded is what is on file, that queued enrolments have tokens of
their own that no file and no invitation has, and that an order still finds its
token as it had to.

*Account.*  `AlwaysHoldsLiveKey` says that no crash, loss, lapse or clock leaves a role
without a usable key, for any keys and any number of mishaps.  `HoldsLiveKey` is
not inductive: a lapse of a deprecated key is harmless only if its successor is
live and known to the record, or will be saved by the command under way
(`OwnSound`), and a save is harmless only if the request it follows did what the
command thinks (`RunSound`: whose key it started from, that a key was fresh when
posted and is live when applied).  `HostsFollowKey` says the same of known hosts, as
long as nothing was cut short: `Labelled` follows the row with the record's label
through the two writes of an enrolment or a completed rotation (`Settling`),
`Superseded` says of a key that the relay let go of that it is the record's own, was
revoked by hand, or has lost its row or is about to, and `Unenrolled` what is left of
a role that is gone.

*Pairing.*  For any clients, primary sockets and caps, however often sockets break.  Neither
invariant says enough of what is in flight.  `Good` follows one socket: once the relay has
left, the peer's end is on the way.  `Links` and `Rows` tie the tables to the sockets: the
entry and `control` are exactly the primary that is open on the relay's and on the daemon's
side.  `Placed` and `CalledOnce` say that a client id is announced once and then is in one
place (announced, looked up, held, refused, admitted), so that a refusal never meets a data
socket; `Owed` that a session whose data socket was paired still has its client in the
relay's row, or the daemon's primary carries the news.  `NoStranded` follows from `Rows`,
`WillHear` from `Owed` and `Good`; `PairingTyped` is the model's `TypeOK`, which no run
lists because the invariant implies it.

*Reconnect.*  For any number of slots and attempts.  Only the current attempt, while
the command lists or tries, is live; every other closure is done and stays so
(`SlotsAreSane`): its peer has answered or is gone, so no `paired` can make it
handshake again.  That gives `OldIsOverHolds`, and with who may listen to stdin
(`ReaderIsLive`) `KeyboardHolds`.  `GivesUpLateHolds` needs that every attempt the loop
counts was a failure in a row (`BudgetIsCharged`), `SpawnsOnceHolds` that after the
spawn no closure is left that may ask again: each is a reconnection or has had its
peer (`SpawnIsSpent`).

*Browser.*  For any sessions, sockets, tabs and faults.  `OnlyCurrent` and
`StaysAwayHolds` share `SpeakInv`: a page that is resolving its relay has no socket, and
`transport` is the current socket or none, which must be open and have shaken hands
unless it has closed.  `KeysHold` needs to know where every message on the way will
leave the daemon: `Leads` says that the next messages of a queue leave it aimed at a
session or at none, `KeysAimed` that this holds of each key when its turn comes,
`AnswerAimed` of the answer to a spawn, which is at one place at most (`OneOwed`) and
after which the page asked for no other session (`NoneSince`); and while no spawn is
owed, the session on display is where the page's messages lead (`OnDisplay`).
Looking for this invariant widened the property's exception: two spawns may
be unanswered at once, and the first answer then names a session that the second
replaces.  The run's bounds are too small to show it.

*OneShot and EventsFeed.*  For any hosts, connections and bounds.  `CallInv` follows a
call through its attempts: nothing is known of those to come, an answer that was made
was carried out, one that was heard ended the call; from it follow `RepeatsUnheard`
and `SuccessReal`.  `OneConnection` needs which phases have a socket at all and that
failures in a row are at least the tries; `FollowersStop` what each session of the
daemon has promised to somebody who is there.

*Tunnel.*  For any PSK sources, any kind of client and any number of messages and
breaks.  What the handshake does is computed: `Sound` says, for each pattern and for
the page's own code, that the hello opens only on the daemon's half of the terms, the
welcome only when both ends have one chaining key and `Matched` holds, and that the
split keys then fit crosswise (`RunIsSound`).  `InStep` speaks of two ready ends and is not inductive.  `IInv` says of
each way, the two sockets' queues one after the other, what may still reach its reader.
Before `paired` and before the hello is read that is nothing but the hello (`NotBegun`,
`HelloOnly`); afterwards frames sealed under one key at consecutive nonces, the first at
the one the reader expects (`UpFlows`, `DownFlows`; the welcome leads the way down).  As
long as nothing is lost all of them are there, so that the writer's counter is the
reader's plus the length of the way.  A step that loses frames, by a close, a break or
an end that drops what it reads, cuts off the end of what arrives and never its
middle (`Shrinks`).  `TermsAgree` holds the keys and the terms on which an end got
ready; from it follows `ReadyAgreeHolds`, from the flows `InStepHolds`.

Every invariant and action property that a passing run checks is a theorem.  Only
model-checked is everything under fairness: liveness and ENABLED are beyond the
prover.  No theorem is about a recursive definition for every input: the tokens of a
handshake are those of three patterns, each computed on its own.

## Where the code and the documents differ

Found while modelling, beside the three runs above; `src/` is left out of the paths:

- `docs/channel-protocol.md:81-83` has larger payloads split over DATA frames.  Nothing
  splits: a 64 KiB chunk with its headers exceeds `MAX_FRAME_BYTES`, an exec channel
  loses it (`relay/channel-open-handler.ts:141`), a pty closes its socket.
- `docs/channel-protocol.md:276-277` has both fds drained before `channel_exit`.
  `exec-bridge.ts:123` listens to `exit`, which Node emits earlier, and sends the rest on
  the closed id.
- `docs/channel-protocol.md:415-419`: a buggy helper should not drop the session.
  `child.stdin` has no `error` listener (`exec-bridge.ts:234`): EPIPE ends the daemon.
- `commands/clients.ts:178-180`: revocation is irreversible.  The command, the TUI and the
  daemon save what they loaded earlier, so an overlapping save can undo it
  (`relay/clients.ts:75-78` has the command signal the daemon to write instead).
- `relay/relay-connection.ts:211-213` tears a refused upgrade down by hand so that the
  session's row is not pinned; the other ends it causes itself (`:297`, `:424`, `:434`)
  mark it closed before the socket's event, and the row stays until the client leaves.
- `commands/server/start.ts:294` advises a revoked daemon to run `server signin`, which
  refuses while the record has the revoked key (`server/signin.ts:265`); only reset helps.
- `README.md:343`: reconnections are seamless.  `connect.ts:197` computes the URL once,
  before the loop: a client approved during this run reconnects without its token and
  waits for the operator again.
- A draining frame (`relay/primary-connection.ts:191`) closes the socket and reports the
  close at once; `connect()` resets `closed` 2 s later, so the old socket's own close event
  that comes after that tears down the clients of the new primary and dials a second one.
- `relay/relay-client.ts:103`: `send` over a public relay may be carried out once per
  attempt when no answer comes.
- The daemon's `events_subscribe` leaks follower and heartbeat of a client that is torn
  down while it awaits (`start-shared.ts:277`).  `handshake.readMessage` is not guarded in
  the events client: a bad welcome ends the process.
- The page: a detach does not clear `token.session`, so a reconnection shows the first
  URL's session again (`main.ts:2012`); a late `attached` after a detach makes it ignore
  `spawned` (`:1034`); back before `attached` leaves the URL at `/` (`:1389-1399`); the exit
  of a session disconnects a page that moved on (`:1127-1137`); with the token in the URL's
  fragment a revocation reloads for ever (`:1967-1969`; the run has `FromFragment = FALSE`).
- `client join` ignores `peer_disconnected` as well, and with a PSK of another value the
  daemon is ready, and logs so, before the client fails on the welcome.

## Plan

Done: `ChannelMux` with `ExecContract`, `Approval`, `Pairing` with `Sockets`, `Account`,
`Tunnel` with `Noise`, `Reconnect`, `OneShot` with `EventsFeed`, `Browser`, and the theorems
above.  What a continuation would take, in this order:

1. Draining, the event cursor and the keep-alive of the public primary, with a relay
   that may close late.
2. Account commands that overlap; storage that fails now and then, with `loadClients`.
3. exec and rsync from the client's side; framing against a reference.

## Not modelled

Cryptographic primitives, envelopes, signing and TOTP (straight-line
computations, unit-tested); argument parsing, completions, printing, logging, QR
codes, Tailscale setup; the first choice of a storage back end (a sequence of
prompts); label editing and the peers file; rendering in the browser and in the TUI;
draining and the minting of preauths in the public daemon; the public relay and its
HTTP API, which are not in this repository and appear only as `src/` uses them.
