# GETSSH: a TLA+ verification project

GETSSH is an Electron SSH client for macOS and Windows. Its servers, passwords and keys are in
encrypted SQLite databases; two Rust libraries keep them (`getssh-keystore`, `getssh-store`), the
Electron main process calls these through N-API, and windows talk to the main process by IPC. It
also has an AI agent, plugins and MCP servers in processes of their own, a watchdog process and a
pane manager in Rust.

The specifications here are about the parts where a mistake costs the user their data, leaves it
open, runs something nobody approved, or hangs: keys and their rotation, databases, their moves and
their migration, the app lock, sessions and their screens, torn-off windows, the agent with its
providers and commands, plugins, MCP servers and the watchdog. TLC checks every specification on
small instances; TLAPS proves invariants and refinements of the keystore, the app lock, the agent loop and the
services for every value of their constants.

## 1. Inventory

Paths are relative to `src/`; *main* stands for `apps/getssh-client/electron/main`, *window* for
`apps/getssh-client/src`.

| Component | State | What is hard about it | Correct when | Modules |
|---|---|---|---|---|
| **Keystore** `rust-core/getssh-keystore/src/{store,keyring}.rs` | `keyring.json`: per scope one or two key versions, each with the *routes* that open it (password, quiet device key, Touch ID, parent = the app's key, recovery code); in memory: unlocked keys, field keys, reveal sessions, an epoch | two mutexes: operations work on a snapshot while locks come in; device keys live outside the file and are deleted after it is saved; crash anywhere | a protected scope has no quiet route; every live version opens for its owner; locks take effect; old codes stay dead | Keyring, Keystore |
| **Store** `rust-core/getssh-store/src/{store,rekey}.rs` | database files, open connections, rows of `main.db`, `adopting_workspaces` | file, keyring and connections change in separate steps, on unserialised pool threads, with crashes and disk errors between any two | no file under a lost key; locked means closed; a bad workspace stops only itself; unfinished moves can be finished | Rotation, Store |
| **Migration** `getssh-store/src/legacy.rs` | the files of development builds, a backup, what is kept aside | a crash or an error between any two renames, deletions or copies, also of the restore | nothing old destroyed; started means moved whole; the next start goes on | Migration |
| **Import from 2.0** *main*`/services/legacyV2Profiles.ts`, `handlers/legacyImportHandler.ts`, *window*`/components/app-overlays/LegacyV2Import.tsx` | the old file, the record of its import, servers that wait for their port, the window's list | rows and record are two writes; the window saves its list whole; answers may be dropped | imported once, kept, ports given; a dismissed file left alone | LegacyImport |
| **App lock** *main*`/security/appLock.ts` | phase, a pending request to lock, the chain of unlocks, waiters | JavaScript turns interleave at every `await`, the store changes on its own threads in the middle of a turn | no lock overtaken or forgotten, one unlock at a time, all answered | AppLock |
| **Sessions** *main*`/handlers/{ssh,pty}Handler.ts`, `services/ConnectionManager.ts` | dials, prompts, timers, links, entries, connection records | window, server and quitting end a session at once; a pane is gone when its connect comes back | every connect settles; cleaned up once | Sessions, Telnet |
| **Terminal output** *main*`/services/SessionOutputBuffer.ts`, *window*`/components/Terminal.tsx` | the last characters of each session with offsets, what each screen shows | a terminal mounts while chunks go on arriving and the ring is trimmed | nothing twice, no hole | Scrollback |
| **Files over SFTP** *main*`/{handlers/sftpHandler,services/sftpListing}.ts`, `rust-core/sftp-stream` | per opened file a copy, a watcher, a debounce and an upload; per listing a handle and a deadline | saves come during an upload, sessions end during a download, servers answer late | the last save arrives; nothing outlives its session; no handle is left open | Sftp |
| **Tabs and windows** `rust-core/tidal-engine`, *main*`/{windowManager,tidal/tidalBridge}.ts`, *window*`/store/sessionStore.ts` | the layout in Rust, copies of it in every window, the torn-off windows | payloads that overtake each other, renderers that load or die, two moves of one tab | each pane in one place and shown there; none closed unasked | TornWindows |
| **AI slots** *main*`/services/ai/ConcurrencyManager.ts` | active count, limit, queue per provider | handing over a slot while others come, abort and go | no slot leaks, doubles or idles beside a waiting request | ConcurrencyManager |
| **Agent loop, gateway, adapters** *main*`/services/AgentEngine.ts`, `ai/*` | history, turn and retry counters, what was shown | failures after part of an answer was shown; what ends a stream differs in ten providers; calls and results must match on each wire | no turn shown twice, none taken for whole when it was cut, no call unanswered, every request ends | AgentTurns, Streams, Messages, ActionText |
| **Agent tools, approvals** *main*`/handlers/aiHandler.ts`, `services/agent` | pending approvals, the output of a command | time-out against answer against closed window; output limits | a command runs only when approved; its output whole up to the limit | AgentCommands |
| **Plugins** *main*`/PluginManager.ts`, `services/plugin` | one process per plugin, its handlers, calls and waiting writes | starts that overlap, crashes, reloads, quits | one process in use, calls settled once, writes approved | PluginHosts, Calls |
| **MCP** *main*`/services/mcp` | one connection per server, its tools, calls, configuration and tokens | starts, roll-backs, exits and removals that overlap; configuration and tokens saved in two places | one server in use, calls settled once, a token only where it was entered for | McpServers, McpConfigs, Calls |
| **Change of workspace** *main*`/handlers/{workspace,crypto}Handler.ts`, `services/ChatStorageManager.ts`, *window*`/store/{workspace,aiChat}Store.ts`, `hooks/useSessionManager.ts` | the active workspace and the chat pointer in main, the shown one with its server list and chats in the window | lists are saved whole, answers come after the next switch has begun, a switch fails half way, replies stream on | each workspace keeps its own servers and chats; window and main agree | Workspaces |
| **Watchdog** `rust-core/ocean-sentinel/src/watchdog`, *main*`/security/SecureCenter.ts` | mode, deadline, extensions; alert shown | lines that cross each other, deadlines that are extended | a freeze or alert is acted on in time and only then; both sides agree | Watchdog |
| **Backup bundle** `getssh-store/src/bundle.rs` | staging, data and backup directories | a stop between two renames | see *Not modelled* | none |
| Records, profiles, SSH keys, settings; SQLite binding; cryptography; device back ends; redaction; most of the renderer; updates, search, memory; small native helpers; vendored SQLite | | I/O, pure functions or user interface | `PROJECT.json` has the reason of each | none |

How they interact: the app lock calls the store (`unlockApp`, `lockApp`) and broadcasts its phase; IPC
handlers call the store only while the phase is `ready` (a few reads are not gated:
`workspace:getStats`); the store calls the keystore for every key and owns every rotation
(`stage` in a keystore call, rekey the file, `commit_rotation`). Asynchronous store calls run on the
libuv pool, with nothing to serialise them, while synchronous ones (locks, reads) run on the main
thread. A start runs the migration before the first other call. The agent loop calls the gateway, the
gateway an adapter, and the adapter holds a slot of its provider for the time of a stream; tools run
commands in a session's terminal, plugins or MCP servers. A session's output goes through the bridge to
the ring and to every window; what window shows a pane is decided by the layout in Rust. The watchdog
talks only to SecureCenter, over a socket.

`PROJECT.json` lists, under "hazards", each place where this goes wrong if it goes wrong, with its
line and the properties that watch it.

## 2. Modules

```
Keyring ──► Keystore ──implements──► Rotation ──► Store ──► MCStoreStart ◄── Migration, LegacyImport
              │                                     └─ StoreProofs ─► StartProofs ◄─ MCStoreStart
      MCKeystore ─► KeystoreProofs

ConcurrencyManager ──► AgentTurns            AppLock  Sessions  Telnet  Sftp  Scrollback  TornWindows
                          │                     └────────┴────────┴── MCDesktop ──┴────────┴────────────┘
                  AgentTurnsProofs              └─ AppLockProofs            └─ DesktopProofs

Streams  Messages  ActionText  AgentCommands  PluginHosts  McpServers  McpConfigs  Watchdog  Workspaces
   └────────┴──────────┴───────────┴── MCServices ┴────────────┴───────────┴──────────┴─────────┘
                              │           Calls ◄──implemented by── PluginHosts, McpServers
                        ServicesProofs ◄── WorkspacesProofs
```

`MCDesktop`, `MCServices` and `MCStoreStart` put several modules into one run. These parts share no
state, so a behaviour is one of one part (the variable `part`) with the others at rest, and the run
checks the union of their behaviours, not their product. The fairness of a part binds only while it is
the part that runs: a fair action that stayed enabled in a part at rest would leave no fair behaviour
and make every liveness property hold. For each part it was checked that it has fair behaviours
(`<>FALSE` is violated). Likewise `MCKeystore` tells three stories of one keystore (`story`): recovery codes, a move to
another machine, aborted rotations.

### The data

**Keyring** is the pure part of `getssh-keystore/src/store.rs`: which routes a policy allows, forbids
or wants, and `reconcile`, which brings routes in line after a change. Keys and ciphertexts are
abstracted to *who can open what*: a version is a pair of scope and serial, a route a record of its
kind and what it refers to.

**Keystore** is the state machine around it. An operation begins with a snapshot (`BeginOp`, the code's
`snapshot`), and its effects appear in one later step guarded by `MayFinish` (the code's `finish`,
which compares the epoch); `LockProtected`, `LockScope`, `CloseReveal` and `Restart` may come between.
The operation is chosen when it finishes, since its snapshot is all it took with it. `DeleteRetired` is
the deletion of device keys after the save, so a stop can come before it. `Restart` may also bring the
data to a machine that has none of the device keys (once, when `MayMove`). Device keys that nothing
names any more are forgotten at a restart. Left out: wrong passwords and the growing delay, contents of
fields, tampering with the file.

**Rotation** is what a keystore promises its user: version, staged version, own password and keys in
memory of each scope, each call one atomic step. Keystore implements it (`ImplementsRotation`, refinement
mapping in `MCKeystore`); **Store** EXTENDS it, so the store is checked against the contract and not
against the implementation.

**Store** models the databases: what key each file opens with, each connection (`live`, or `stale`
when its file was replaced under it), the rows and the adoption marks. A call is a list of steps a thread
works through; each step is one keystore call, one file operation or one update of the connections, that
is, one thing that happens without another thread or a crash getting in. Four markers in the list say
what an error does (goes on to the end, is dropped, is dropped only when a password is needed, or runs a
clean-up); a marker handles the errors of its own scope, that of the app's unlock those of all). `Fault` makes any fallible step fail, `Crash` stops the app. `Pool = {Js}` makes the calls
sequential. Simplifications: a typed password is right (a wrong one changes nothing); a lost device key
shows as a failed step; an unlock brings all versions of a scope into memory; calls that only read or write
rows, settings, presence and recovery codes, export and import are not calls of this model.

**Migration** follows a start on the directory of a development build through `migrate_legacy`: the
backup file by file up to its mark, main.db (split out of `getssh.db`, imported from JSON files, or
there), the workspaces, the flags, the vault keys, the app key, the removal of the backup, and the restore
after an error or, when main.db has not moved yet, at the next start. A file is gone, as the old build left
it, or whole under its keystore key, since copies, restores and re-encryptions all end in one rename.
`StepFails` is an error anywhere (also in the restore), `Stops` a crash. A row whose vault key is gone is
deferred to its owner's password: a crash in the middle of a restore can leave a workspace so although
the key was there before (main.db already opens, the vault key was not put back yet). Left out: backups
that the TypeScript version took, rows with refused ids, WAL files, the data set aside under a master
password. Assumed: no old build writes to the directory between two attempts (a restore would take it
back), and deletions succeed (`remove_database` ignores errors: a made main.db that cannot be deleted in a
restore, followed by a crash, would let the next start skip the workspaces that were deleted after it;
`getssh.db` is then still kept aside).

### The app lock

**LegacyImport** is the automatic import before `ready`, the one a user asks for, the default port given later, the
dismissal of a file, and a window that adopts the answers and saves its list whole; the rows are written before the
record and a fault may come between. `past` is a history variable. It shows where the code does not keep what the properties
promise, which is why they name exceptions: an import whose record fails answers `failed`
("nothing saved", `legacyV2Profiles.ts:50`) with its rows saved, and the servers among them without a port then never wait for one; an
answer dropped because the window changed workspace meanwhile, or a save sent before the answer came, leaves the
window or the database with the list from before, and the next save takes the imported servers away
(`legacyImportHandler.ts:15`). A file changed to another and back after both were dismissed counts as new.

**AppLock** models `start`, `unlock`/`unlockOnce`, `lock`, `whenOpen` and the import of 2.0 servers. An
action is the code between two awaits. The store's answers are actions of a pool thread, so the store may open
between two turns, and a change of the master password may complete between the two synchronous calls of
`lock()`. `owed` is a history variable: a lock asked for while the data was open and not yet carried out.
The reason of a lock, the broadcast and logging are left out, and so are the workspaces' own locks.

### Terminals and windows

**Sessions** is a connect through its dial, proxy, host-key prompt, authentication and shell, for SSH, Telnet
and local shells, with the handshake timer and the prompt's own; then the ways it ends (link, pane, reconnect,
quit), each an action between two awaits, and what the pane shows. Recording a disconnect awaits, so `active` is
cleared before it. Port forwards, jump hosts and statistics are left out. A session may end before its
pane exists; the pane is then flagged when it is shown.

**Telnet** takes packets of any cut apart into text and negotiation, with what it carries over, and answers the
options as `agree` and `refuse` do; the server is one of several kinds (silent, acknowledging, asking again).

**Sftp** is a file opened for editing (download, watch, debounced upload of each save, one at a time with at most one
waiting), any number of opens of it, and the end of the session at any point; and a folder listed in batches up to a
limit, with `opendir`'s answer before or after the deadline. Two facts the model shows and no comment denies:
a download that fails leaves its temporary folder behind (`sftpHandler.ts:247`, stage `failed`), and two opens of one file
may write it together, each over the other (`overwritten`). Editors that save by replacing the file send no
`change` event (`sftpHandler.ts:319`); the model's editor writes in place.

**Scrollback** is the ring of a session and the terminals that replay from it: mount, read by offset, catch up,
go live, unmount, with chunks in flight and trims between.

**TornWindows** has the layout (a tab is its set of panes, with the payload's revision), the requests to Rust one
at a time, the payloads to the main window and each torn window in their mailboxes, the life of a torn window
and what each screen shows. The shape of a pane tree, sizes and zoom are left out. `kept` is a history
variable: panes that neither the user closed (the pane, its tab or its window) nor `restoreOrphanTab` gave up on a tab that
another request had docked. That last case is the code's own fallback ("or close it … if that fails",
`windowManager.ts:258`), and a wide one: the button that docks a torn tab can be used again while its request is under way
(`LeafPane.tsx:115`, `windowManager.ts:130` only asks whether the window was released already). So when the renderer dies with
a tear-in pending, or the window for a tab that is torn off anew cannot be made after a second tear-in has docked it,
the refusal is taken for a failure and a docked tab is closed with its sessions, and with panes that have come into it since.
The same double request, should a later tear-off overtake the second on its way into Rust, can leave *two* windows
for one tab: `ShownAsLaidOut` fails after 4 moves (tear in twice, tear off twice). Requests enter the model's Rust in any
order; the real ones wait in line for one lock, so this needs a request that is stuck for as long as the user takes
for two moves, which is why it is a remark and not a finding. `sessionStore.closeTab` disconnects the sessions of its own,
possibly older, view on any failure, `not_found` included.

**Workspaces** is a change of the active workspace. The window (what it shows, the server list it holds and for which
workspace, its epochs, a reply that streams in) and the main process (the active workspace, the pointer of
`ChatStorageManager`, switches under way with their awaits, saves under way, lists and chats on disk) talk through two
FIFO queues, as IPC does. Server lists are saved whole (`save-profiles`); a list of two servers per workspace is enough to
tell whose it is and whether something was lost. Chats are read in pages, so that an answer may belong to the workspace
before. An unlock (`unlock-profiles`) keeps the active workspace of its start across the awaits of the store. `past` is history: what the user asked for, and `torn`, that a switch failed after it had moved the chat pointer or
overlapped another; there the chats are known to go astray (finding 6). Left out: the app lock (open throughout), a torn
`app-config.json` (its write is one step), unlocking by presence, the explicit lock of the active workspace, deleting
a chat, pages of messages. A remark, not a finding: an unlock that is asked for after a switch has begun (the prompt of the
operating system may stand that long) heeds only the *beginning* of a switch (`workspaceUnlock.ts:28`), and so the window
takes up the list of the workspace it is leaving. If the one it comes to is locked, that list stays in memory behind the password prompt,
although `workspaceStore.ts:109` means to clear it; it is neither shown nor saved. `InStep` says that much and no more.

### The agent

**ConcurrencyManager** is the semaphore in front of one provider, **AgentTurns** the requests that use it:
`runTurn`, the gateway's retry loop, the stream, tool calls, the backoff. `onDone` runs before the adapter's
`finally`, so a turn that only continues asks for the next slot before it gives back this one; the model
releases first, which gives the same queue and more interleavings. Abort and `setLimit` are modelled although no
request of this version carries a signal and nothing calls `setLimit`. A chat (mode without tools) is a request of one
turn. The Ollama adapter takes no slot. A failed turn reports its error twice (the gateway's `onError`, then
the `catch` of `runTurn`); the window stops at the first.

**Streams** looks into one turn: the events of ten providers (external), the adapter that reads them, which of them
end an answer, report trouble or truncation, the tool call that may be open when the stream ends, the placeholders
held back while they are incomplete, retries and the 400 that teaches the gateway about a model. Usage, images and prompts
are left out. Some ends are misread, against the interface rules in `docs`; the model has them as the code does, and
`TurnsTold` makes an exception for each (besides Ollama's, finding 5). Gemini's adapter counts any
`interaction.status_update` or `interaction.completed` as the end, whatever its status (`GeminiAdapter.ts:280-289`): an
answer cut after an `in_progress` or `queued` one, and one reported `failed`, `cancelled` or `incomplete`
(`GETSSH-御三家接口适配规格.md:124`, `:934`), is a normal end (`end_turn`). So are DeepSeek's `content_filter`
(`DeepSeekAdapter.ts:268`; `GETSSH-国内模型接口适配规格-第二册.md:248`) and Zhipu's `model_context_window_exceeded`
(`ZhipuAdapter.ts:276`; the same, `:147`). `Misread` names these ends; for a Gemini stream `Complete` asks only that some
status came.

**Messages** is the history (`AgentEngine`) and what each adapter makes of it, as blocks with a kind and an id: merged roles,
results in their own message or with the user's, thoughts that must go back. **ActionText** is the
`<ACTION>` scanner of `onChunk` over every cut of an answer into chunks; a tag is two symbols, so that a chunk
can end inside it. **AgentCommands** is a terminal command from its card to its end: answers are messages
that may be late, repeated or for another card; output is counted, batched and cut at the chat's limit.

### Processes

**PluginHosts** has the starts of one plugin (all tables are keyed by the id), each a process of its own, with
activation, calls, deactivation, exit, the writes that wait for one question, and the manager's tables. An approval "for
this run" outlives the process it was given to when a reload replaces the process while the question is open
(`PluginManager.ts:806`): the model has it as the code does, and `AskedFirst` asks only that there was an answer.

**McpServers** has the starts of one server through handshake and discovery (three lists, each settled separately) to its
tools, calls, exits, stop, removal and roll-back. A connection that fails during discovery does not reject `connect()`:
the lists still pending become empty (`McpClient.ts:381`, `:399`), and `McpManager.ts:261-285` registers the tools if
`tools/list` was answered before (stages `cut`, then `adrift`). One that fails right after the answer to its handshake even
has itself for connected (`Greeted`). `OneServer` makes an exception for the first; calls of such tools fail at once.
**McpConfigs** where its configuration and tokens are (file and store), with locks, edits from outside and a stop
between the two writes.

**Calls** is the contract both process clients keep towards their callers: settled once, by an answer of the process
the call was made to, a failure or its timer; losing a connection settles its calls in the same step. Both
implement it (`CallsKept`).

**Watchdog** is the supervisor with its loop, deadline and memory scan, and SecureCenter with the alert's buttons. The clock
is coarse: five seconds of silence pass within a unit and each line arrives in the unit it was sent. `PING` sent and taken
is one step. What the code does and the properties allow for: an alert that reaches the watchdog during a
freeze is dropped (`supervisor.rs:189`), and the app, which has set its own flags by then, raises no later
one (`SecureCenter.ts:346`); a second CONTINUE on its way can end a red alert the scan raised in between (the scan
repeats every five seconds); an app that hangs during a yellow alert is not killed.

The definitions marked *slip* in these modules (`RetiredNoKey`, `MayFinishAnyway`, ...) are plausible mistakes,
next to what they would replace; no specification uses them. `PROJECT.json` lists for each property the slips it catches.

## 3. Runs

| Run | Instance | What it shows |
|---|---|---|
| `keystore` | 1 workspace, 3 serials; stories: 2 recovery codes and one device key at a time; 2 device keys and a move to another machine; aborted rotations of the workspace | types; protected scopes never open quietly; parent routes need a master password; flags match routes and secrets stay with who has them (no aborts); no lockout; locks hold; passwords travel; refinement of Rotation |
| `keystore_old_copies` | violation | finding 1 |
| `store_one_call` | 1 workspace, sequential calls, faults and crashes, no file, a plain or a 2.x one before the first start; or a migration of 2 workspaces, 4 layouts, with and without an app key, 2 faults; or the import of 2 servers of 2.0, one added later, 3 changes of the file, edits or restarts | `DataStays` (no database under a lost key; nothing old destroyed; started means moved whole; servers of 2.0 imported once, kept and given their port), `ClosedWhenLocked`, `NothingStale`, `UnlockStands`; every call and migration ends |
| `store_threads` | a pool thread beside the main thread | `Finishable` under every interleaving |
| `store_main_rekeyed`, `store_rekey_race` | violations | findings 2 and 3 |
| `app_lock_lost` | violation | finding 4 |
| `agent_turns` | 3 requests, limits 2 and none (default 1), 2 turns, 1 retry, 2 calls | the semaphore's and the agent's properties, and that every request ends |
| `desktop` | lock: 3 unlocks, 1 waiter, jobs that set and remove the master password; 2 sessions of 3 protocols; 5 characters in a ring of 2; Telnet with packets of up to 3; 2 tabs, 2 panes, 2 windows, 2 moves; 2 opens of a file, 2 saves, folders of 2 | one unlock at a time, nothing open behind the lock screen, no lock forgotten; connects timed and settled, ends clean; screens without holes; each pane in one tab, not lost, and shown where the layout has it (`ShownAsLaidOut`); saves arrive, no sync, copy or handle left (`NothingLeftOver`) |
| `services` | ten providers with 1 retry and 2 pieces; 2 rounds of 2 calls on each wire; answers of 6 symbols; 2 commands; 2 starts each of a plugin and a server; 2 targets of tokens; 2 alerts, 1 stall, 2 clicks; 2 workspaces, one with a password, 2 switches, with a change of the list (`lists`) or a reply (`chats`) | a turn told once and, but for the ends that are misread, whole; histories each wire accepts; one process in use, its tools those of a live connection unless that failed in discovery; consent first; tokens, server lists and chats kept apart (`KeptApart`); calls settled once; everything settles |
| `ollama_cut` | violation | finding 5 |
| `chats_after_failed_switch` | violation | finding 6 |

Bounds and why they suffice:

- *Serials 3*: a scope has at most two versions and a third is the next fresh one; serials are reused
  when nothing refers to them, so any number of rotations is covered. The recovery MAC and parent routes
  may pin a serial; with three there is always one left for a further rotation of each scope.
- *Device keys 2*: the quiet key and one presence key, or the old and the new one. *Codes 2*: the
  one in the file and one in a user's drawer. Codes, moves and aborts are separate stories, since all of them together
  are too many states for a run.
- *One workspace* shows everything between a workspace and the app. Workspaces touch each other only
  through the app's keys and the shared quiet key; for several of them the invariants that matter
  there (`ProtectedNeverQuiet`, `ParentsNeedMaster`) are proved.
- *Store, one pool thread and the main thread*: the races found need two threads. Two pool threads next to the
  main thread were explored for 15 million states without a violation, and
  two workspaces one call at a time for 7 million; both are too large to keep as runs. Names of versions are symmetric in the
  runs without liveness.
- *Migration, 2 workspaces*, one with a vault key: a crash can leave one moved and one not. 2 faults: one in the migration,
  one in the restore that follows; 3 were explored separately (60 586 states).
- *Import, 3 steps*: import, a changed file dismissed, changed again, and a restart; 4 were explored separately.
- *AppLock, 3 unlocks*: one asking, one chained, one that arrives as the first returns.
- *AgentTurns*: 3 requests over 1 or 2 slots make queues, hand-overs and aborts; 2 turns and 1 retry reach both
  limits. A limit of 0 is "no limit of its own" (`||` in the code), for which the default of the code stands.
- *Sessions 2*: one and its reconnect. *Ring of 2 with 5 characters*: trimmed past a reader twice.
  *2 opens and 2 saves*: a save during the
  upload of another, and two syncs that write one file. *2 moves of windows*: one overtaking the other's effects; 3 were explored separately for the
  safety properties (1.5 million states); for 4 see TornWindows above.
- *Starts of a plugin and a server 2*: one replaced by or overlapping the other.
- *Workspaces, 2 switches*: away and back, or one asked for while the other is under way; both
  workspaces have a password of their own and are locked when they are left. Three switches, and three workspaces of which one has no
  password, were explored separately (4 million states). *One reply* of one piece: cut before, in and after it.
- *Watchdog, 2 alerts*: the app's and the scan's; grace 3, extension 2, one extension instead of 60 s, 15 s and 3 keep the order.

Fairness:

- *Store*: weak fairness of each thread's steps. A pool thread and the main thread run as long as the
  app does; no call is required to begin, and a crash ends every call. *Migration*: the start goes on, and the user
  starts the program again; faults are finitely many.
- *AppLock*: weak for pool threads; strong for JavaScript continuations, because `lock()` may take a turn
  between any two and disable a continuation for its duration; the event loop serves a settled promise after
  finitely many others. It assumes that prompts of the operating system end (`StoreAnswers`).
- *AgentTurns*: weak for each request's steps: streams end (300 s timeout in the adapters), tools end (they
  have timeouts of their own), timers fire.
- *Sessions, Sftp, AgentCommands, PluginHosts, McpServers, Streams*: timers fire, awaited work of our own ends, and a process that was killed
  closes. The network, the user, a provider, a plugin and a server owe nothing.
- *Telnet, Scrollback, TornWindows*: what was sent arrives and a process that got it goes on; windows load.
- *Workspaces*: IPC delivers, promises of the main process settle and timers fire; the user and the provider owe nothing.
- *Watchdog*: its loop and clock run, and so does the app's event loop unless it stalls; nothing ends a stall.

Deadlock is checked for the keystore, the semaphore and the agent loop; the other runs have parts that come to rest.

What the runs assume:

- `abort_rotation` is exported but no code of the application calls it. Aborting a rotation of the *app's* own version while
  locked can leave a workspace with parent routes to a version that is gone, and breaks `FlagMatchesRoute`, `SecretsKept`
  and `NoLockout`: no run and no theorem allows it (`App \notin MayAbort`). Aborting a workspace's breaks
  `FlagMatchesRoute`, `SecretsKept` and the refinement, which are therefore not asked in the story `abort`, but nothing else
  the run checks. A caller added later has to solve this first.
- `ClosedWhenLocked`, `DataStays` and `NothingStale` hold for one call at a time. With pool threads, `mount`
  reads the key, opens the file and inserts the connection in separate critical sections
  (`getssh-store/src/store.rs:349-358`); a lock on the main thread in between drops the key and closes what
  is there, and the connection is inserted afterwards.
- `AppLock`: `lock()` reads whether there is a master password (`appLock.ts:334`) before `lockApp` (`:339`) and
  shows the phase by what it read. A password set in between leaves the phase `ready` over a closed store; one
  removed in between, a lock screen without a password. `NothingOpenBehind` and the lock properties hold all the same.

## 4. Findings

1. **A pending rotation keeps its key** (`keystore_old_copies`). The comment of `set_password` promises
   every workspace a new key when a master password is set; a workspace that already has a staged version
   keeps that one, and an old `keyring.json` opens it if its own password was just removed.
2. **main.db under its staged key** (`store_main_rekeyed`). `complete_rotation` promises that after a
   crash between rekey and commit only the commit runs. `start` and `unlock_app` first call `open_main`, which
   tries the current key only, and never come to the commit.
3. **A reader on a replaced file** (`store_rekey_race`). `rekey_file` is for closed files, but the check
   that it is closed releases its mutex before the copy; a read may mount the file in between.
4. **Open behind the lock screen** (`app_lock_lost`). `unlock_app` promises to close the app again when
   a later step fails; without a master password `lock_app` drops nothing, and where the device key was lost and
   the recovery code opened the app, main.db stays open.
5. **A cut answer taken for a whole one** (`ollama_cut`). The provider notes ask that a connection that breaks
   before the ending event is a failure to retry; the Ollama adapter reads until the body ends, however it ends.
6. **Chats after a switch that failed** (`chats_after_failed_switch`). The README promises that chat history is kept
   per workspace. `workspace:switch` points the chat storage at the new workspace first (`workspaceHandler.ts:250`); when a later
   step fails, the window stays in the old workspace, nothing points the storage back, and its chats are read from and
   written to the other one until the next switch.

## 5. Proofs

All theorems hold for every value of the constants that satisfies the modules' ASSUMEs.

- `KeystoreProofs` begins with one pass of `reconcile`. `ReconcileSound`: whatever keys are in memory and
  whichever scopes the pass visits, a keyring of the right shape whose sealed flags match its routes comes out
  that way *and* with no quiet route, direct or through the app, for a protected scope. The proof splits on what `apply_policy`
  keeps, adds and leaves alone. `IInv(L) == TypeOK /\ Sound(keyring, L)` is inductive: the shape (a workspace needs the app,
  a staged version a current one), flags that agree with the password routes of governing versions, and sound routes of every
  version (no quiet route under protection, parent routes only under a master password). `ProtectedNeverQuiet` alone is not
  inductive: for a locked scope `reconcile` decides by the unauthenticated password route, which says something
  only if it agrees with the sealed flag. `L` is a set of workspaces for which only half of that agreement is asked, that a
  flag has its route; an aborted rotation leaves exactly the other half broken, a route without its flag, and `reconcile`
  then errs on the safe side. Each operation has a lemma; all but the memory steps come down to `SavesKeeps`: a save after a
  sound pass is sound.
  It goes on with `HoldInv`, the conjunction of `LockHolds`, `LockedNeedSecret` (a scope in `locked`
  exists and has a password route or a protecting flag), `SnapshotHolds` (while an operation's epoch is current, the keys of
  its snapshot are still in memory), `KeysHaveScopes` and `Distinct` (a staged version is not the current one). An operation
  that saves has passed the epoch check of `finish`, so by `SnapshotHolds` the key it worked with is still in memory and by
  `LockHolds` its scope is not locked: that is why a late answer cannot undo a lock. `Travels` relates password routes to the
  seals of the versions they lead through, and a pass keeps it; a new version of the app is safe because its serial is one no
  leftover route names. `FullInv(L)` is all of it. With `L` the workspaces that may be aborted it is an invariant of `Spec`
  (`KeystoreInvariant`, which gives `KeystoreTypes`, `KeystoreNeverQuiet`, `KeystoreParents`, `KeystoreLockHolds` and
  `KeystorePasswordTravels`, aborts of workspaces included); with `L` empty it is an invariant of the stories without aborts
  (`KeystoreFlags`), and each of their steps maps to one step of Rotation or to a stutter (`KeystoreImplementsRotation`).
  `StoriesAreBehaviours` carries the theorems about `Spec` over to the run's `StorySpec`; `KeystoreKeepsPromise` states
  agreement and refinement for `Spec` itself when nothing is aborted.
  The last part is `NoLockout`, which is far from inductive. `Home(L)` is what holds on the machine the keys were made on: the device keys
  the keyring names are there and not about to be deleted (`KeysHere`); a staged version's password opens the version
  it replaces too, and only one of the app's two versions is sealed (`Rotations`); a password route without a
  meaning is only left by an abort (`Leftovers`); and every version is `Usable`. An operation hands a pass a keyring that is
  `Ready`: each version is usable, or new with its key in memory. What a pass does there (`Passes`) depends on what it obtains
  without a prompt: a version whose only route is the quiet key or the app's is obtained before that route is taken away, and gets what the
  policy wants instead (`PassOpens`); a version it cannot obtain has a password. The operations differ in
  which versions they add and drop (`Changed`, `AppChanged`, `StagesFor`). `KeystoreNoLockout` states it for the
  stories of the run, `KeystoreOpens` for `Spec` when nothing is aborted; an abort and a recovery code together are in
  neither, nor in the run.
  `SecretsKept` looks back at every keyring that was saved. `SecretInv` makes it inductive: no sealed version has a route of *any*
  device key, nor was ever exposed, while it governs (`SealedShut`, `StaySealed`), and the entry of the recovery code tells the
  truth about the version its tag was made with (`CodeHeld`: `recovery_trusted` compares just these). Between two saved keyrings no operation gives
  an old version such a route or changes its seal, and where another version comes to govern it is a new one (`Follows`, `CodeFollows`); a
  pass adds routes only where the seals it has in its hands allow it (`ReconcileGuards`). `KeystoreSecrets` states it for the stories
  without aborts, `KeystoreSecretsKept` for `Spec`.
- `AgentTurnsProofs` begins with the semaphore: `SlotsInv` is the conjunction of the type, the queue holding exactly the waiting
  callers (each once), and the three properties. The queue part is what makes a hand-over sound: the head of the queue is a
  caller that holds nothing. `SlotsCorrect` concludes `SlotsSound` for any callers and limits.
  Every step of `AgentTurns` is a step of the semaphore or leaves it alone, so `SlotsInv` carries over
  (`SlotsKept`, `AgentSlotsCorrect`); `ShowInv` relates what was shown to the attempt that showed it (nothing before a
  retry), `PairInv` the calls without a result to the calls still to be executed (`AgentTypes`, `AgentSlotOnlyForStream`,
  `AgentShownOnce`, `AgentPaired`).
- `StoreProofs` is about Store with any number of pool threads beside the main thread. `Finishable` is not inductive: whether
  `create`, `unmark`, `rmpw` or `delrow` may run depends on what an earlier step of the same list did, with other threads
  and errors in between. So the invariant `Movable` also speaks of the lists (`Jobs`): a step that is only safe once the file
  is no longer old (`Old`: plain, or under a 2.x password), or once the workspace is marked, either finds it so or comes
  *right after* the step that sees to it (`Fits`). Errors skip steps only up to a marker, and nothing that relies on its
  predecessor follows one, so what is left of a list after an error still fits (`SuffixLocal`, `FailedLocal`), and so does
  a list put before the rest of another (`JoinLocal`, with what the finished step leaves behind, `Leaves`). The other threads
  are no danger because of `Kept`: no step makes a file old or takes away a mark that is needed. With it each handler has
  one lemma (`...Handled`). The lists that a fold makes of a set of workspaces (`EachOf`) are dealt with by a least
  counterexample, since induction over data is not available. `StoreConstants` says what this needs of the constants: a
  table has finitely many rows, and key versions are not named like the kinds of unkeyed files.
- `StartProofs` is about what the user has stored. *One call at a time* (`OneCall`: the pool is the main thread):
  `StoreCalm` proves `Reachable`, `NothingStale` and `ClosedWhenLocked`. With a second thread the first two are
  false, which the runs of the threads show, so the hypothesis is where the line is. The invariant
  `Calm` adds what the list of the one call still holds: it is made of a *beginning* (`Begins`), a few steps of which each
  relies on what was read or done just before it (a move to the staged key and its commit, in any stage of it; a file, a connection or
  a scope with what was checked for it; a lock and its close), and of steps any state allows (`Easy`). An error
  drops a beginning as a whole, because no marker stands inside one (`NeatFail`); a step leaves the next one in a state in which
  it may run (`ThenBegins`, `ThenNext`); and each kind of step has a lemma, and each call one (`...Calm`).
  `StartUnlockStands` proves `UnlockStands` with three more invariants (`Upright`). `Keys`: the versions of a scope come
  into memory and leave it together, and a started store has the app's key. `Order`: "ready" stands last in its list, but
  for the app's "relock", and nothing but the close follows the drop of the app's key. `Stands`: every step of a workspace in
  an unlocking is one that is not refused for a lock (`Granted`), and its workspace's "skip" is ahead of it. So an error of
  such a step is never "locked", and is handled before "relock" is reached. TLC had checked the three on one
  workspace completely and on two for 7.4 million states. A second thread that locks in between does
  make an unlocking fail, so this too is said of one call at a time.
  *The migration*: `MigInv` says for each stage what may have been taken from the disk. Before the
  backup has its mark the old files are as they were (`Untouched`); afterwards everything is in the backup and each stage says what it
  has made so far (`WayBack`); once the last mark is set the new files are whole (`AllMoved`). `MigrationKeeps` gives
  `NothingDestroyed` and `MovedWhole` for any workspaces, layouts, errors and restarts.
  *The import of 2.0*: `ImpInv` relates the record of the import to the list on disk, the one in the window, the one
  on its way to be saved and the answer under way, with what the user did to each imported server; `ImportedStay` gives
  `NeverUnasked`, `PortOwed` and `ImportsStay`. `StartDataStays`, `StartTypes` and `StartLocks` say all this of `StartSpec`.
- `AppLockProofs`: `LockInv` has three parts. `Chain` and `Headed` say that the requests to unlock stand in a line:
  some numbering of them has no gap, each request is one behind the one it waits for, `unlocking` is the last, and only
  the head has begun; from it follow the type (the chain is there exactly while a request is) and `OneAtATime`. A request
  that is head and last at once is alone, which is why cutting the chain at its end is right; neither fact is inductive
  without the numbering. `PhaseInv` relates the phase to the start, the store and a change of the master password (away
  from 'ready' no password is being set on an app without one), and with it `NothingOpenBehind` and `OwedInv` (a lock that
  is owed is remembered) are inductive together: a lock may be dropped behind the lock screen only where nobody unlocks,
  and there `NothingOpenBehind` says that nothing is open. `LockNeverOvertaken` is the safety part of `LockKept`.
- `ServicesProofs` takes the parts of the services one by one. Plugins: `OneCopy` is inductive with the types; `PluginsImplementCalls` maps every step to a step of Calls
  or to a stutter. All the steps that lose a process share one lemma (`LostWithItsCalls`): what is lost takes its calls along.
  MCP: `OneServer` needs `HeldInv` (the client the manager holds is connected during discovery, the tools are
  those of a client that has started, connected or `adrift`) and `InStage` (a local client is connected while its process can be
  written to and, but for one cut or in its handshake, only then), which is also what makes `callTool`'s test of `connected` the test Calls asks for.
  Commands: `CommandsInv` says of every card what it needs to have been approved and of every output what of it is in the chat
  and what is still in the batch; it gives `CommandsAsked` and `OutputShown` (`CommandsInvariant`).
  The action in a text: `ActionInv` says of an answer that is still coming what `ActionKept` says of a whole one. It speaks of
  the places of tags instead of cut texts (`First(tag, s, i)`): the first tag of what has arrived stays where it is
  when more arrives (`Stays`), and a tag cut by a chunk is found because its first half was held back (`KeptBack`). What of
  the text behind an action is shown is some end of it (`ShownBehind`): the chunk that ends the action loses its rest.
  MCP tokens: `ConfigsInv` says of a token in memory and in the file that it is its target's, and of one stored without a
  target (as older versions did) that the file still names the server it was for.
  In `ServicesSpec` a step is, for every part, one of its own or none (`OwnStepOrNone`).
  `ServicesOneOfEach` and `ServicesAskedFirst` come from the invariants above and from `AskingInv` (the question on the screen is
  one of the writes that wait). For `ServicesWatchedRight`, `WatchdogInv` relates the two sides of the socket: how long a lockdown has
  lasted and has left, with the extensions it got (`TimeInv`); that a freeze is of a main thread that stopped (`FreezeInv`); that
  heartbeats stop by a line the watchdog has taken or will (`SleepInv`); and what the app will show once it has taken every line on its way (`ToldInv`), which is
  what is inductive where `AlertsAgree` speaks only of moments with nothing on the way. For `ServicesTurnsTold`, `StreamsInv`
  says that what was heard is what this attempt said (`HeardAll`), that heard text is shown text followed by what is held back,
  and what the ends heard say about the answer (`HeardEnds`, with the exceptions of `Misread`); one lemma for each family of adapters shows that it reads
  an event so. It assumes `StreamsProviders`: the providers are among the ten adapters there are.
  `ServicesChatIntact` and `ServicesTokensStay` come from the invariants above, `ServicesKeptApart` from
  `ConfigsInv` and `WorkspacesInv` (below).
  For `ServicesOnTheWire`, `MessagesInv` speaks of what a request would send now, whether calls wait or not: the parts
  of what is sent are those of the history, turn by turn and by kind; the ids of the calls are those of the results followed by those of the calls that
  wait (`Answered`); and the parts stand in the order of their rounds (`InOrder`), which leaves no room for another answer between a call and its result.
  Each adapter is shown to make of a turn an arrangement of its blocks that keeps the order within a kind
  (`Carries`, `TurnWired`). An induction over sequences is done with sets: a set that holds the empty sequence and is closed
  under Append holds every sequence (`AllSequences`). `OfKind` is a FlattenSeq because the prover cannot expand SelectSeq.
  `ServicesTypes` adds the bounds to these invariants (`ServicesBounds`). It assumes that OpenAI is among the providers
  (`ServicesConstants`), because Streams at rest shows its adapter.
- `WorkspacesProofs` is about Workspaces with its lists and chats interleaved, any number of them, and any number of calls on
  their way (the run takes lists and chats one after the other). `WorkspacesInv` has four parts. `ListsInv`: one
  unlocking at a time, from the password to the last answer; every list on its way to be saved or shown is the
  list of its workspace as of some revision, no older than what is stored; what is shown is no newer than what is stored plus what
  is on its way. `Known` says of an answer on its way what the call it answers asked. `SwitchInv` (while no switch is `torn`):
  one switch at a time, at one of a few places between its start and its last answer, with the veil down all along (`Veiled`), so that
  nobody asks or edits in the middle; from the place follows which workspace the main process reads and writes chats of.
  `ChatsInv`: calls about chats stand before the switch in the queue, so they reach the workspace they were made in; of an
  unsaved chat the first call on its way makes it and the last one carries the whole text; and a list of chats is of
  the shown workspace if it carries the window's present epoch. There is one lemma per operation about what it changes (`...Does`) and
  the preservation of each part is proved from those.
- `DesktopProofs` is about all parts of `DesktopSpec`, with `LockInv` of AppLockProofs for the lock. For the sessions, `Sound` says of one
  session what is inductive about its record: `Clocked` (the connect), `OnceUp` (only a session that came up is recorded, linked or shown;
  each step of the close handler finds done what those before it did) and `BeforeQuit`, which quitting ends: until
  then `disconnectSession` reaches every link, so that a session being ended has none open. What relates several sessions is
  little: a reconnect's pane is flagged or gone (`Replaces`), and the blocker is on for a session that is up (`LitUp`)
  and only if some session is not over (`LitFor`). So there is a lemma for every step about what it makes of one record (`...Sound`), and
  one about what may change beside it (`OneChanges`, `QuietStep`). `SessionsInv` gives `ConnectTimed` and `EndsClean`.
  `EditsInv` says what of a copy is on the server (`Sent`), half by half, and with `FolderInv` gives `NothingLeftOver` and
  `SavesArrive`.
  `ScrollInv` says that the chunks on their way to a terminal, those it keeps until it has caught up and the answer it waits for
  join up (`JoinsUp`) with what it shows, as long as the session is there: `Lossless` alone does not say that the next chunk fits.
  `writeFrom` and `flushPending` get lemmas of their own (`WrittenRight`, `FlushedRight`); a chunk that was trimmed
  or shown already is cut by the offset, which is why it does not matter how far the ring has moved. `TelnetInv` says that the
  bytes on their way, *taken after what the client carries over*, make its text all that was printed (`Completes`). The parser works byte
  by byte (`ByteStep`), so taking a packet is the same as taking its beginning and then its end (`RunRest`, `RunMore`), and
  each message the server sends completes whatever came before it (`MessageCompletes`).
  `WindowsInv` needs nothing about how far a request has got: a tab comes from another tab and what is shown was made
  (`TabRight`), requests are about tabs there are or were, and only a request that is meant to closes a tab (`CallRight`). With
  it a step of Rust moves panes between tabs and drops none (`OnePlace`, `NothingLost`). `ShownRight` is all of these.
  The functions of `FlushedSteps` and `TakenSteps` are shown to exist by a least counterexample (`LeastNumber`).
  `DesktopTypes` is `DesktopTypeOK`, whose bounds relate what is shown to what there is, so that they need everything on its way:
  no payload in a queue, a reply, a snapshot or a window's early list has a revision beyond the last one (`PayloadsInv`), no
  chunk, answer or screen an offset beyond the output (`ScrollBounds`), and no half of the file or of a copy is anything but
  a version saved or the hole of an upload (`SftpBounds`).

Model-checked only: all liveness (`StartReturns`, `Finishes`, `AllSettled`, `AllSettle` and the rest of `LockKept`), out of the
prover's reach; the fairness of Calls; and
`ShownAsLaidOut` (which 4 moves of the model's windows refute, see TornWindows).

## 6. Not modelled

- *Backup bundle* (`bundle.rs`): the import renames the data directory away and the staged one into its place (line 631). A stop
  between the two leaves no data directory, and the next start makes an empty one beside the old data. The code
  says nothing about that case, so there is nothing to check against.
- *Delays after wrong passwords* (`getssh-keystore/src/store.rs:1131`): Keystore has no clock, and a wrong password
  changes nothing else.
- *Port forwards, statistics and the one-call operations of SFTP* (make, delete, read, write, download to a chosen path) of the session handlers; *rows, profiles, folders, SSH keys, settings* of the store: one call, one
  transaction or stream each, with no state of their own that outlives it.
- *Cryptography, recovery codes, device back ends, SQLite*: taken to do what their callers rely on.
- *Redaction text, sandbox profiles, prompts, panels, menus, update checks, search, local memory, audit, archive and probe
  helpers*: text, user interface and system calls.

## 7. Plan

1. The SFTP panel (which listing it shows after a change of pane); the agent's other tools.
2. The pane trees of `tidal-engine` against a flat reference definition.
3. A violation run gives way when its finding is fixed or a new component needs the room.

## 8. Running

`tlc -config MCKeystore.cfg MCKeystore` and so on for each run of `PROJECT.json`; the longest takes about two
minutes. `tlapm KeystoreProofs.tla` checks a proof module.
