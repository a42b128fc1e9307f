# Claude Workbench in TLA+

Claude Workbench is a desktop application: a Rust core (`core/`), a Tauri shell
(`src-tauri/`) and a React front end (`src/`). It runs Claude and Codex sessions in
terminals, shows their transcripts as timelines, shares them between windows, watches
sessions on remote hosts and keeps notes per project.

This directory specifies the parts of it in which several actors share state, checks
them with TLC on small instances, and proves part of what was checked with TLAPS for
every value of the constants. Paths below are relative to the repository.

Contents: 1 inventory, 2 modules and how they correspond to the code, 3 runs, bounds and
results, 4 fairness, 5 what the code does not keep, 6 proofs, 7 what is left out, 8 plan,
9 how to run.

## 1. Inventory

### Core logic: components with state and a protocol

**Remote observation link** (`core/src/remote/{link,host,proto}.rs`)
- State: a `Host` per configured host (phase, epoch, cursor, `resync_required`, losses since
  the last snapshot, outcome of the last resume, session rows with their timelines, tags
  already reported); in the link thread the program counter, the backoff, the cancel flag;
  on the wire a stream of newline-separated frames.
- Operations: attempt, read (Hello, Gap, Snapshot, event, Heartbeat), lose a line, end the
  attachment, sleep, stop, attach anew.
- Interacts with the daemon `cwcd` (another repository) over an SSH exec, and with the
  viewers through `claude-timeline` and `claude-session-closed` events.
- Hard: the resume cursor against losses, restarts of the daemon that reuse keys, snapshots
  that omit bodies, deadlines on a silent peer, refusals that must not be retried.
- Correct when: a position the host would resume from has nothing missing before it; the
  viewers show what the host holds; an ended id never runs again; a refusal stays.

**Claude session runtime** (`src-tauri/src/commands/claude/{runtime,spawn}.rs`,
`src/components/ClaudeTermPanel.tsx`, `src/state/panelSession.ts`)
- State: `live` and `by_id` behind one lock (attached windows, driver, revision, stop flag);
  the PTY in `SessionManager`; per view the session id, driver flag and last revision.
- Operations: open or attach, spawn, take over, detach, close, delete; exit of the process.
- Interacts with the windows by commands, by broadcast events and by answers, three channels
  without a common order, and with the poll thread through a stop flag.
- Hard: two windows that open at once, hand-over of the driver, the last viewer's close
  against another window's attach, events that come before the answer they refer to.
- Correct when: one PTY per session, one driver who is a viewer, no PTY closed under a view.

**Window transfer** (`src/state/{windowTransfer,panelTransferTarget}.ts`,
`src/components/{PopoutWorkbench,MainArea}.tsx`)
- State: panels in flight at the source, transfers already processed at the target.
- Operations: dock, pop out, hand off, accept, refuse, reinsert, time out; a popout that
  closes its sessions and goes.
- Hard: an acceptance later than the time-out, a window that goes in the middle, a panel
  closed while it waits to be handed off.
- Correct when: a panel is in one window or on its way, and its session survives the move.

**Project memo editor** (`src/components/MemoEditor.tsx`, `src/state/projectMemo.ts`,
`src-tauri/src/commands/memo.rs`, `core/src/memo_store.rs`)
- State: the file and its hash; per editor a base hash, an auto-saver (pending value, timer,
  save in flight, chained flushes); per window a stash of unsaved text.
- Operations: mount, unmount, retry, reload, overwrite, type, blur, timer; read and write.
- Hard: saves in flight across unmount and remount, two windows with one file, refusals.
- Correct when: saves of one editor are serial, only what was written counts as clean, the
  stash never brings back an old text, a departed editor's flush ends.

**PTY sessions and scrollback** (`core/src/session.rs`, `core/src/scrollback_store.rs`,
`src-tauri/src/{commands,commands/terminal}.rs`, `src/components/{TerminalPanel.tsx,pty.ts}`)
- State: scrollback ring and sequence number under one lock, subscribers under another, alive
  flag; a relay thread per session; in the panel the last applied number and the pending chunks;
  a scrollback file per panel and the thread that flushes it.
- Operations: create, emit, subscribe, snapshot, kill, remove; mount, restore, heal, unmount;
  flush, restart of the application.
- Hard: subscribe and snapshot against an emitter that takes two locks one after the other; a
  pending queue at its cap, healed from snapshots while the flood lasts; a flusher that outlives
  its panel, and session numbers that begin again at a restart.
- Correct when: a panel shows a run of the output without hole, repetition or reordering and
  catches up; the file of an open panel is not deleted by somebody else's flusher.

**Remote terminals and host registry** (`core/src/remote.rs`,
`src-tauri/src/commands/remote.rs`, `src/state/{remoteHosts,remoteHostData}.ts`)
- State: links by host, terminals by host, the bounded store of why terminals ended.
- Operations: attach and detach a host, open and close a terminal, record an end, poll it; short
  commands addressed to a session of the daemon.
- Hard: eviction of a reason nobody has read; two relays and a detach that report the same end;
  a command that times out after it took effect, or names an incarnation that is gone.
- Correct when: an asker is told "ended", "lost" or "running" truthfully, and every panel is
  told in the end; a command reaches the session that was on the screen or none.

**SSH transport** (`core/src/ssh.rs`, `src-tauri/src/commands/ssh.rs`)
- State: stage of the session, input queue, event queue, the windows of the channel.
- Operations: host key (known, changed, asked for), authentication, channel, exec (a reader and
  a writer under `join!`), shell (one `select!` loop), cancel, deadline.
- Hard: a full input queue against a peer that waits for its output to be read; what is taken
  from the queue when the exec ends; the exit status against the last output and the close.
- Correct when: what was accepted was written or is counted as lost; one verdict; no stall.

**Claude timeline** (`src-tauri/src/commands/claude/timeline.rs`, `core/src/jsonl/`,
`core/src/timeline.rs`): a thread per session tails its transcript and those of its subagents,
emits when a fingerprint changed, and saves a snapshot behind a debounce; a mapper turns
records into items.
- Hard: fingerprints that are sums; a subagent that is purged, reopened or rewritten; a stop in
  the middle of the debounce; results before requests, lines in pieces, interrupts.
- Correct when: what the window shows is what was read, the last turn is saved, and the timeline
  is that of the whole log however it was cut.

**Saved, external and archived sessions** (`core/src/{snapshot,hidden,external,live,scan,archive,
knowledge}.rs`, `src-tauri/src/commands/{archive.rs,claude/store.rs,claude/runtime.rs}`)
- State: a body, a derived meta file and side files per session; the list of dismissed ones under
  a file lock; archive folders with a marker, a meta file, a summary and a history; in `/proc`,
  what other processes run.
- Operations: save, list (which heals), rename, delete, dismiss; adopt a transcript nobody holds;
  read the head of a transcript within a budget; archive again, back-fill.
- Hard: writers that know nothing of each other; a crash or a failing call between two renames;
  clocks with a second's error; a record longer than the buffer.
- Correct when: the picker shows the current sessions and no deleted one, nobody's session is
  taken over, the last good summary and every archived version survive.

**Codex sessions** (`core/src/codex_rollout.rs`, `src-tauri/src/commands/codex.rs`): codex picks
the id of its session and writes its transcript at the first message, so the tab finds it by
mark, directory and time; a mapper completes calls from two layers of records. Hard: two tabs in
one directory, a tab that dies, an end read before its call. Correct when a tab shows its own
transcript or nothing, and an item does not depend on the order of its records.

**Git history** (`core/src/git/rewrite.rs`): amend, undo, reset, reword, each a sequence of git
processes between which others work in the repository. Correct when no commit becomes unreachable
unless backed up and no uncommitted work is thrown away.

**Automatic fetch** (`src/state/autoFetch.ts`), **attention badges and notifications**
(`src/state/{claudeStatus,notify}.ts`), **prompt refinement** (`src/state/promptRefine.ts`), **hook
server** (`src-tauri/src/commands/hookserver.rs`): see section 7.

### Sequential parts and I/O

**Workspace state** (`core/src/persist.rs`, `src/state/store.ts`): one JSON file, loading never
fatal. **Layout and routing** (`src/state/{surfaceTree,layerRouting}.ts`): pure functions over a
layout tree. **File tree, graph, knowledge index, search, MCP**
(`core/src/{fs,graph,mcp}.rs`, `core/src/search/`): wrappers and indexes. **User interface**
(`src/App.tsx` and most components): rendering.

## 2. Modules

```
RemoteProtocol <- RemoteHost <- RemoteLink <- MCRemoteLink
                                    ^-------- RemoteLinkProofs
ClaudeRuntime  <- ClaudeSessions <- MCClaudeSessions
                        ^---------- ClaudeSessionsProofs
MemoEditor (MemoEditorProofs) <- MCMemoEditor

TerminalScreen <= PtyStream ---.                    SessionLibrary ---------------------.
                TerminalStore -+                    SessionAdoption --------------------+- MCLibrary
   RemoteTerminals (..Proofs) -+- MCBackend                HeadScan --------------------|
                      SshExec -+  (BackendProofs)   GitHistory -------------------------'  (LibraryProofs)
                 TimelinePoll -'

ArchiveRun (ArchiveRunProofs), CodexTabs, TranscriptMap, CodexRollout, CivilTime - MCTranscripts
                                                                            (TranscriptsProofs)
```

`A <- B` means that B extends A, `A <= B` that B is shown to implement A, and a module in
parentheses holds the proofs about the one before it, or about all those that are composed there.
`BackendProofs` extends `RemoteTerminalsProofs` and `TranscriptsProofs` extends `ArchiveRunProofs`,
whose theorems they need for the compositions. Definitions keep the names of the source
where they can (`HandedOut` is `Host::cursor`). Variants named `...Wrong...` are plausible
mistakes in one definition; the model never uses them, and replacing the definition by its variant
breaks the property it is listed with in `PROJECT.json`.

### RemoteProtocol, RemoteHost, RemoteLink

`RemoteProtocol` has cursors, events and frames (`proto.rs`). `RemoteHost` is the `Host` record
and the pure handlers of `host.rs`; each returns the new record and what it emits.
`RemoteLink` puts the record in the link thread of `link.rs`, with the SSH exec (a sequence of
frames that can be cut or go silent) and the daemon, which is external: its actions say what
`proto.rs` and `link.rs` rely on (a log per incarnation, a ring of the newest events for
resumes, truthful snapshots that may leave bodies out, a Gap when a cursor is too old).

| Model | Code |
| --- | --- |
| `pc` = top, reading, sleeping, stopped | `run`'s loop, `attach`'s loop, the interruptible sleep, return |
| `Receive`, `ReceiveForeign` | `consume`, `Host::apply` |
| `ReceiveUnreadable`, `ReceiveOversized` | `consume` on a line that does not decode or is too long |
| `HelloDeadline`, `Stale` | the two deadlines of `attach` |
| `StreamEnded`, `Refused`, `GiveUp`, `Retry` | `attach`'s drain and verdict, `run`'s handling of `Ended` |
| `Stop`, `Reattach` | `Link::stop`, `Registry::attach` |

A session's body is the set of positions of its deltas in the log; text, titles, counts of
attempts, the last error and notices are left out. Lines are whole frames: `LineReader` is in
the model as the possibility that a frame is oversized or the opening of the stream is cut.

### ClaudeRuntime, ClaudeSessions

`ClaudeRuntime` is the transition table T1 to T7 of `runtime.rs` as functions of one session's
entry. `ClaudeSessions` has the commands around it, the PTY's life, the panels and views of
every window, the events and answers on their way to them, and the transfer of a panel.

| Model | Code |
| --- | --- |
| `rt`, `pty`, `stop`, `polls` | `ClaudeState`, `SessionManager`'s entries, the stop flags, the poll threads |
| `calls[w]` | invokes of a window; commands run one at a time on the main thread, those of one window in order |
| `answers` | resolved invokes: an answer and an event may overtake each other |
| `inbox[w]` | `claude-driver-changed` and `claude-session-closed`, in order for each window |
| `panel[w][p]` | a dockview panel: its params and the view that is mounted in it |
| `moving`, `mail` | `inFlight`; `panel-transfer` and `transfer-result` |
| `Attach`, `Spawn`, `SpawnFails` | `claude_open_or_attach` |
| `Detach`, `SetDriver`, `Close` | `claude_detach`, `claude_set_driver`, `claude_close` |
| `Hide`, `Show` | a tab switch: the view unmounts without a detach and mounts again |
| `MoveStart`, `HandOff`, `Emit`, `Take`, `Refuse`, `Result`, `AckTimeout` | `dockPanelToWindow`, `movePanelToNewWindow`, `handOff`, `installTransferTarget` |

The table is that of one (project, uuid): sessions share nothing but the lock. A PTY is "dead"
when its process has exited and the manager still has it, "closed" when its last viewer closed
it and "deleted" after `claude_close`. Who awaits an open (`by`) stands for the closure that
`await`s it: the mounted view, a view that is gone while its panel is not, or nobody.
Assumed: every panel carries a uuid, and the window a popout opens in exists before the move.

### MemoEditor

One file, any number of windows, one memo panel in each. A text stands for its hash and every
edit makes a new one. `Settled`, `Flushed` and `Fired` are the auto-saver's steps; `Left` is the
cleanup of the editor's effect; `MemoRead` and `MemoWrite` are the commands with the optimistic
lock. `InOrder` says whether the calls of one webview keep their order; the passing runs leave
it open (FALSE), the runs that show a disagreement grant it (TRUE), so neither leans on it.

### TerminalScreen, PtyStream, TerminalStore

`TerminalScreen` is the abstract specification: a panel shows a run of the output that grows at
its end, may be cut at its beginning by a repaint and begins empty when the panel is mounted
anew. `PtyStream` is what does it: `Push` and `FanOut` are the two locks of `Shared::emit`,
`Relay` the thread that makes webview events, `Listen`, `Snapshot` and `SnapshotBack` the panel's
effect with `healDroppedGap`, `Deliver` the listener with `pushPendingCapped`. A chunk is its
sequence number. `ShowsARun` is the refinement (`INSTANCE TerminalScreen WITH shown <-
view.shown, over <- OutOfMap`).

`TerminalStore` is the opt-in scrollback file of a panel and its flusher (`Flush`), over
restarts in which the session numbers begin again and the saved layout still names old ones.
`Create` is `terminal_snapshot`'s error answer with the `terminal_create` that follows, `waits` the
await behind it and `CreateAnswered` the saved number; a panel that is unmounted or closed meanwhile
(`GivesUp`) saves none, and `gaveUp` remembers it.

### RemoteTerminals

The registry of attached hosts (`core/src/remote.rs`), the commands over it and `EndedTerminals`.
`mainThread` is the command that runs: a close that goes through the terminals one by one
(`CloseNext`), or a short command that blocks it (`CommandAnswers`, `CommandTimesOut`). Each
terminal has two relays that report its end (`RelayReports`). The daemon, external, keeps one
session per incarnation under one key, so that an address without its epoch would name a
stranger.

### SshExec

One session of `ssh.rs`: host key (`CheckServerKey`, `PromptRelay`, `HostKeyDecision`),
authentication, channel; then for an exec `Reader` and `Writer` actions under one join, or the
shell's loop (`ShellReads`, `ShellTakes`, `ShellFlushes`). The server and the SSH library are
external: an ordered stream of messages, a bounded queue per channel and a send window. Input is
counted in bytes.

### TimelinePoll, TranscriptMap

`TimelinePoll` is `run_timeline_poll` tick by tick: `Wake`, `FlushSnapshot`, `Poll`. A subagent's
tail is dropped after `DoneStreak` quiet polls and built again when its file changes; the emit is
skipped when the fingerprint has not changed: the sums of revisions and of items over the
subagents, taken in their order, as every subagent that has items has its place in `sub_order`.
New ones are appended in any of the orders in which the directory may list them (`Listings`).
`Rewrite` is a file replaced under the tail, which one tick may see empty. `TranscriptMap` is the
tail by whole lines and the mapper: `ApplyLine` is `apply_line`, with user text, interrupts and
blocks. The tokens of a message are one. The two loops of the code, over the blocks of a record
and over the lines of a poll, are the recursive functions of `ApplyBlocks` and `ApplyLines`;
`Parsed` is that of `CodexRollout`.

### SessionLibrary, SessionAdoption, HeadScan

`SessionLibrary` has the files of saved sessions, the list of dismissed ones, and those who write
them: the poll thread's snapshots, renames, deletes of two windows (`ForceClose` to `DeleteFile`),
the lock of `hidden.rs` (`LockList`, `Hide`), and the listing, which heals stale metas
(`ListBegins` to `ListEnds`). A list that cannot be read is an empty one (`blind`), which the
delete then writes with its one entry. `SizeOf` gives a body its length, and two may have the
same. `SessionAdoption` is the take-over of a transcript with the verdict of `live.rs`
(`Verdict`): processes show what `/proc` may show of them (`Looks`), starts are off by a second
either way, and the wall clock may be set forward. `HeadScan` is `fold_head` with its budgets and
`discard_to_newline` chunk by chunk.

### ArchiveRun

`run_archive` from the copy to the marker (`Build` to `Mark`), with `write_archive`'s displaced
folder and its history, the knowledge index, the back-fill of old metas, a failing operation or a
crash at any step (`MaxMishaps` of them), and a transcript and a memo that change meanwhile. A
search (`Displace`) or a listing (`Begin`) may fail to read any of the folders, which are then passed
over without a warning: so several may be visible, under different names, and a landing may find its
name taken (`Taken`). A folder that was passed over is `missed`.

### CodexTabs, CodexRollout, CivilTime

`CodexTabs` is the state of `codex.rs` for each tab and its poll (`Look`, `Judge`, `Sign`,
`Parse`), the codex processes (`Opens`, `Message`, `Renewed`, `Dies`) and sessions that are
nobody's (`Foreigner`: the user's own, or a worker that inherits a tab's mark).
`CodexRollout` is `RolloutMapper` over records of two layers, each parse reading the whole file.
`CivilTime` has the hand-written calendars of `graph.rs` and `codex_rollout.rs` as functions,
compared with reference definitions over bounded inputs by its assumptions.

### GitHistory

The commands of `rewrite.rs` as the git processes they run (`Begins`, `Check`, `Guards`,
`BackupRef`, `StashPush`, `ResetTo`, `Build`, `CompareAndSwap`) and others who edit, commit,
stash, switch and revert between any two of them. A commit is a tree, a message and its parents.
A revert that ends in a conflict leaves the index `Unmerged`, with which git refuses to commit, to
amend, to stash and to reset softly.
`Ascending` is `rev-list --reverse`, written as a recursive function for the proofs' sake.

### MCBackend, MCLibrary, MCTranscripts

These three put components that share no state into one specification: a variable `focus`, chosen
in the initial state, says which of them moves, and the others stay where they begin. So each
behaviour is one of one component, and none is lost: the product with components at rest adds
nothing to a property that speaks of one. Two things make this sound for what is checked. In a
component's initial state none of its fair actions is enabled, so that its fairness says nothing
of a behaviour of another; and a component with many initial states (`HeadScan`'s files,
`ArchiveRun`'s kinds) is pinned to one while it is not in focus. Where two components have
symmetric sets, the sets are the same model values, so that one permutation renames both.
`SessionLibrary` is the focus "library", and within other bounds the focus "rows".
Several parts' promises are one property, a conjunction of named parts, and in `MCLibrary` the
type invariant of a part is a conjunct of its property.

## 3. Runs

### That pass

| Run | Question | Bounds |
| --- | --- | --- |
| `remote_link_one_session` | Is the view exact wherever the host would resume, do viewers follow it, and do an end, a cursor and a refusal stay? | 1 session, 2 incarnations of up to 3 events, ring of 2, 3 frames in flight, 3 faults |
| `remote_link_two_sessions` | Is the view exact with events of two sessions interleaved and an incarnation the host must refuse? | 2 symmetric sessions, 2 faults |
| `remote_link_live` | Does the view reach the end of the log after finitely many faults? | 1 session, ring of 1, 3 faults |
| `memo_two_windows` | Are saves serial and is nothing called clean that was not written? | 2 symmetric windows, 2 edits, 3 mounts, 1 failure, calls unordered |
| `memo_live` | Does the flush of a departed editor end? | 2 edits, 2 mounts, 1 failure |
| `sessions` | One PTY, one driver, no panel lost, and no PTY closed under its view, with two panels in two windows? | 2 windows, 2 panels, 2 PTYs, 4 user acts and 2 faults, 5 of both together |
| `backend` | Does a panel show the output and catch up, are ends told and commands addressed truthfully, do scrollback files follow their panels, is no input lost or stuck, does the window show what was read? | 5 chunks, ring of 2, pending queue of 1, 2 mounts, 3 snapshots; 2 panels, 2 sessions in the first run of the app and 1 in the second, 1 chunk each; 1 host, 2 terminals, 2 attachments, 2 incarnations, 3 of both together, store of 1; 4 bytes in chunks of 2, input queue 2, windows and queues of 1, 2 messages of output; 2 subagents (1 rewritten), 2 versions, 1 streak, 1 fault |
| `library` | Is a session taken from nobody, a scan bounded, the picker current, and history kept? | 2 sessions (1 changes), 2 windows, 1 side file, cap of 1 dismissal, 2 changes, 2 opens, and 3 changes, of lengths 5, 7 and 7, where the other session and the deletes rest; 1 transcript, 2 other processes, 4 seconds, margin of 2 against 1 second of clock step; files of 3 records of up to 7 bytes, budget of 7 bytes and 3 records, cap of 4, buffer of 2; 2 branches, 1 backup kept, 2 acts of others, 2 rewrites |
| `transcripts` | Is what was archived kept, the timeline the log's, an item independent of the order, a tab's transcript its own? | archive: 2 versions, 1 memo, 2 folder names, 2 mishaps; 2 tabs in 1 directory, 2 transcripts, 1 record after the first ones, clock of 2 instants; 2 calls, 3 records; 2 calls, 3 records |

Why these bounds: the ring is smaller than the log, so a resume can be refused with a Gap; two
incarnations reuse a key; three frames in flight allow an opening (Hello, Gap, Snapshot) behind
which events come; `DeterministicAfter` is 2 instead of 3 in passing runs, which makes the link's
give-up reachable within the faults allowed. Two windows and three mounts are what a save needs to
be in flight across an unmount while the other window writes. Four acts are open, move, open a
mirror and take over (or close, or delete), and two PTYs let the session be started again after it
ended; five acts and faults together (`MaxTogether`) leave each of the two its own bound. In
`backend` every queue is one shorter than what has to pass, so that it fills: the pending queue
drops chunks, the store of ends evicts, the send window closes; the second run of the app needs one
session (`FewerEachRun`) to be given a number that a panel has saved. In `library` a record can be
longer than the cap and than the budget, and the cap of dismissals is smaller than the number of
sessions; two acts of others are an agent's commit and a switch. Three changes are two bodies that
can be told apart by length and two that cannot; they are granted where one session moves alone
(`BusyAlone`), as the listing takes entry by entry. A dismissal list of one is full with it, so that
the second dismissal evicts, and one failure is a list that cannot be read, a write or a lock that
fails, or a tick of the clock. For the archive two mishaps are a folder passed over and a failure in
the run that meets two of them. In `transcripts` three records are a call, its end and whatever
comes between, twice over for two calls; the matching window is 0, as what matters is which of two
tabs' windows a transcript falls into. `MaxLives`, `MaxTrouble`, `MaxOthers`, `MaxJobs`,
`MaxMishaps` and `MaxFaults` bound what the environment does, not the code. Each bound is a guard of
an action and not a state constraint, so the temporal properties speak of complete behaviours.
`CHECK_DEADLOCK` is off because bounded models, and a link whose user stopped it, come to rest.

### What the properties say

- `ViewIsExact`: the rows equal those of the daemon's log up to the cursor handed out, up to
  pruned sessions and bodies marked as omitted. `ContinuedMeansComplete`: "continued" is never
  shown while a loss is not made good. `CursorNeverRewinds`, `RefusalStays`, `EndIsFinal` and
  `ViewersFollowHost` relate a step, or the viewers, to what came before. `ViewCatchesUp` is
  the liveness of the whole chain.
- `SerialSaves`, `CleanMeansSaved` and `StashIsLatest` tie the auto-saver, the calls in flight
  and the file; `LeaveSettles` is the liveness of an unmounted editor's flush.
- `OneLivePty`, `DriverViews` and `RevNamesDriver` tie table, PTYs and views; `KnownIsPolled`
  ties the table to the poll threads; `NeverClosedUnderAView` is the reference count, as long as no
  window holds two panels of the session;
  `PanelNotLost` is the transfer's promise.

- `ShowsARun` is the refinement of `TerminalScreen`, `CatchesUp` that the flood's end reaches a
  mounted panel. `FilesFollowPanels` relates files, flushers and the layout over restarts: no file of
  an open panel is deleted, one flusher to a file, and none is left of a closed panel; the last two
  but for panels that went away while they awaited a session.
- `TerminalsAreTrue`: no keystroke reaches a terminal of a detached host, no command a stranger,
  and an end is answered with its first reason while the store has room. `EndIsTold` is its
  liveness.
- `ExecIsHonest`: what was accepted is on the wire or counted as lost, and there is one verdict.
  `ExecGoesOn`: no stall of input behind output, and an end once the command is gone.
- `FramesAreTrue`: equal fingerprints never hide a change, and the memo never changes an answer.
  `TimelineKeepsUp`: no frame disappears from one payload to the next, and the last change is
  saved. `TimelineIsTheLog` and `RolloutIsMapped` compare the incremental mappers with the whole
  log and with the reversed order.
- `LibraryIsCurrent` has four parts, and a mutant for each.
  `ListIsCurrent`: a row is not older than the body the listing met, unless the two are of equal
  length. `DismissalsKept`: the list is exactly the dismissals recorded, less those spent, evicted,
  or forgotten by a delete that could not read it. `TombstonesFirst`: of these evictions, the first
  are entries that hide nothing any more. `DeletedStaysAway`: nothing is left of what was deleted.
- `ArchiveIsKept`: no version is lost, whatever fails; two archives of a session are visible only
  where a search could not read one; a marker is earned, a meta describes its content; a run in which
  no file operation failed takes in what others left, and that of a work session keeps the summary.
- `AdoptsRightly`, `ScanIsBounded`, `TabsShowTheirOwn`, `HistoryIsKept` are stated part by part in
  their modules. Where the code keeps less than one would wish, here and above, the condition under
  which it keeps it is part of the statement (`SecondIn`, `late`, `crossed`, `gaveUp`, `missed`,
  `torn`, `raced`) and section 5 says what happens outside it.

## 4. Fairness

`RemoteLink`: weak fairness of each step of the link thread that needs nobody else, of the
deadlines on a connection that says nothing, and of the daemon's sending. The thread loops
without blocking for longer than its tick, and a deadline depends on the clock alone. No fault
is fair and all are bounded, as a link that fails forever owes nothing. `ViewCatchesUp` allows
three ends: caught up, stopped, or reading past a loss that keeps coming back, which is what
`DETERMINISTIC_AFTER` is for.

`MemoEditor`: weak fairness of timers, commands and answers. `ClaudeSessions`: weak fairness of
the main thread, of each poll thread and of the webviews. Users are never fair.

`PtyStream`: weak fairness of the emitter's second step, of the relay, of the panel's awaits and
of the webview's delivery; the child's output is not fair. `TerminalStore`: of the flushers, which
wake by a timer. `RemoteTerminals`: weak for the main thread's command and for each terminal's
relays, and strong for a panel's poll of an end, as an interval timer comes back while other
commands take their turns. `SshExec`: weak for each task of the exec and the shell, the library's
connection loop, the server's reading and answering, and a consumer that reads; not for the
command's ending, nor for a cancel. `TimelinePoll`: weak for the step that moves the thread's
`pc`; neither the CLI nor who stops it is fair. The rest has safety properties only.

## 5. Where the code does less than it says

Three runs end in a violation. Each checks a comment or a text on the screen, quoted in
`PROJECT.json`.

| Run | What happens |
| --- | --- |
| `memo_overwrite` | A refusal makes the disk's hash the base of the next automatic save, which then overwrites the other window's text with nobody asked. |
| `sessions_death` | A PTY that exits on its own is only flagged: the relay's channel stays open, so neither the poll thread nor the table's entry ever ends. |
| `memo_lost_edit` | An editor that goes before its read is answered clears the stash an earlier one left; that one's save then fails, and the edit is nowhere. |

Other behaviours of this kind, which the models have or exclude by a named condition, and no run
is kept for. Sessions and windows:
- [Reload] in the memo editor runs the cleanup first, whose flush writes the edit it promises to
  throw away.
- A panel closed while its open is under way releases nothing: the window stays attached and the
  PTY runs on.
- Two panels of a session docked into one window are one label in `attached`; closing one closes
  the PTY under the other (`OnePerWindow`).
- A hand-over between an attach and its answer is dropped by the view, which then believes the
  older driver for good; a deletion in the same gap leaves a view open on a dead session.
- A target that accepts after the time-out leaves the panel in two windows. A tab closed by the
  user during the wait for a new popout comes back in it, because the hand-over uses the
  description noted at its start.
- Terminal sessions are numbered from 1 in each run of the application (`session.rs` 185-190), and
  a panel's saved number may be another panel's session after a restart, which it then attaches to
  and closes (`TerminalPanel.tsx` 237-238; `crossed`).
- A terminal panel unmounted while it awaits `terminal_create` returns before it saves the session's
  number (`TerminalPanel.tsx` 325). Nobody closes that session, its flusher goes on, and the next
  mount starts a second one of the same file, which is then not the "sole owner" `commands.rs` 120-126
  speaks of: when the panel is closed one of them deletes the file and the other writes it again
  (`gaveUp`).

Memo editor:
- A debounce that runs out during a save is spent, and nothing saves the newer value when that
  save ends.
- With one window, a late flush of the departed editor makes the next one report a change by
  "another window".

Remote hosts and SSH:
- After three undecodable Hellos the link reads past the next one, and the new incarnation's
  snapshot is filed under the old epoch: with "hello" among `Unreadable` TLC finds both
  `ViewIsExact` and `EndIsFinal` broken. The passing runs and the two theorems grant that a Hello
  decodes. One of another protocol version does decode and is refused.
- `reported_unknown` outlives an incarnation, so the same key and kind in the next one is
  dropped with no notice.
- At the cap, the store of ends evicts a host's "detached" and its relay records another reason
  (`commands/remote.rs` 131, against the doc at 111-121; `SaysDetached`).
- Nor does everything that leaves that store leave a mark (`commands/remote.rs` 107-145): a reason
  that was evicted unread is recorded anew when its second relay speaks, and evicts again, so that
  once more than `ENDED_CAP + 1` terminals have ended unread a marker can be pushed out of `lost`
  and its panel polls a terminal that is gone (`EndIsAnswered`; not twice the cap, as one would
  read off the two queues).
- The short remote commands are synchronous and block the main thread for a round trip.
- The comment on the shell's loop (`ssh.rs` 497-501) says that a large paste never starves the
  output; the flush is awaited inside a branch of the `select!` (529-535), so that a closed send
  window stops the reading too (which is why `InputFlows` speaks of duplex execs only).

Timelines and transcripts:
- A done subagent reopened on an emptied file puts its old items into the memo after the purge:
  the memo is then not the naive search (`timeline.rs` 264-271; `torn`). Changes of the last two
  seconds before a thread ends by itself are not saved (396-402).
- The tail re-reads a truncated file from its start and keeps its mapper (`tail.rs` 65-89).
- A failed `exec_command_end` followed by its output is shown as completed (`codex_rollout.rs`,
  about 849, against `tests.rs:374`), so failure is not among `RolloutIsMapped`'s promises.
- A tab's second codex conversation may be taken by a neighbour in the same directory, and then
  its neighbour's first by a third (`codex_rollout.rs` 258-275; `SecondIn`). The comment at 318
  speaks of thirty seconds, the window (235) is ten. What the tabs hold is lost at a restart.
- `parse_rfc3339_ms` accepts the thirtieth of February.

Saved sessions, adoption and archive:
- A list of dismissals that cannot be read counts as empty (`hidden.rs` 105-108, which says so), and
  the next delete writes it with its own entry only: the other sessions that were dismissed and still
  have a transcript are offered again. A writer past its last check when a session is closed writes after the
  delete (`late`). A deleted session opened again stays dismissed unless it was adopted.
- Two bodies of equal length in one tick of the clock: the older one's summary passes for fresh
  (`snapshot.rs` 353), though of the three checks `body_len` is there for just that case (112-114). Two
  of the bodies of the run are of one length, and `ListIsCurrent` excepts them.
- A second process that starts between the verdict and the spawn is not seen (`runtime.rs` about
  267, against `live.rs` 62-68): `AdoptsRightly` judges the verdict and says nothing of that one.
  And steps of the clock count against the margin (`AdoptionAssumption`).
- The scan of a head drains one buffer more than its budget (`scan.rs` about 307) and drops a last
  line that fills the cap without a newline in silence; `graph.rs` 358-374 cuts its scan at a
  depth in silence.
- A previous archive whose `meta.json` cannot be read, or any when the directory cannot be listed, is
  passed over without a warning (`archive.rs` 510, 521-526): the new folder lands beside it, or cannot
  land where its name is taken, until a search finds both. The listing passes such folders over too,
  and then the run takes no summary along (`missed`, `OneVisible`).
- A prompt draft archived again with its memo emptied keeps the summary it had, which was written into
  the new folder first (`archive.rs` 1076-1082), while the comments at 1112-1114 and 1184-1186 want
  none: `LastGoodKept` speaks of work sessions only.
- A crash between the swap of the folders and the summary loses the summary; nothing locks the
  archive between processes (60-64); work directories of a crash stay.

Git:
- A `git status` that fails is read as a clean tree (`rewrite.rs` 167-170, against 143-148).
- What `uncommit` promises holds up to its check; the backup of a reword is of HEAD as it is then.

Also, `run`'s last `Ok(())` branch without a cancel is unreachable, and a comment on
`EndedTerminals` speaks of ids that are reused while `next_id` only grows.

## 6. Proofs

`RemoteLinkProofs` holds, for any set of sessions, any number of incarnations, any log, ring and
wire sizes and any kinds of lost frame:

- `TypeCorrect`: `Spec => []TypeOK`. The lemmas go up in layers: every handler of `RemoteHost`
  takes a host and a frame to a host and to emits that name sessions (`HelloType` to
  `EventType`, collected in `ApplyType`); cutting or extending the wire keeps it a sequence of
  frames (`LoseType`, `FrameTypes`, which need that the daemon's frames are truthful about
  positions in its log); then one lemma for each group of actions.
- `ViewersTheorem`: `Spec => []ViewersFollowHost`. `TypeOK /\ ViewersFollowHost` is inductive:
  the only steps that change rows are those that apply a frame, and each handler emits exactly
  for the rows it changes (`HelloTellsAll`, `SnapshotTellsAll`, `EventTellsAll`); every other
  step leaves rows and viewers alone (`ViewUntouched`), except a new attachment, which resets
  both.

and, from `LinkTheorem`, `Spec => [](TypeOK /\ LinkInv)`:

- `ContinuedTheorem`: `Spec => []ContinuedMeansComplete`;
- `CursorTheorem`: `Spec => CursorNeverRewinds`;
- `RefusalTheorem`: `Spec => RefusalStays`.

`ContinuedMeansComplete` is about the host alone and depends on all the rest: a Hello in flight
may say "continued" only to a host that owes no resync (`HelloComesFirst`), which holds because
a host that owes one dials without a cursor (`DialsInSilence`) and no daemon honours that. The
cursor cannot fall back to an older incarnation because a connection carries the frames of one
incarnation (`OneEpoch`, `ServesTheRunning`), not older than the cursor's (`CursorBehind`); that
it does not fall back within one is `Rewinds`. A refusal stays because between two attempts
there is no connection to hear from (`Idle`, `FailedIsStopped`). `Follows` says once what
applying any frame can do to phase, cursor, resync and resume; the step then has a lemma for a
frame read, a teardown, a connection cut off and a frame written.

The second half of `RemoteLinkProofs` is about what the host shows, under the condition `"hello"
\notin Unreadable` (section 5 says what happens without it):

- `ViewTheorem`: `Spec => []ViewIsExact`: what a host shows is what its daemon's log says up to
  its cursor;
- `EndTheorem`: `Spec => []EndIsFinal`: what was shown as ended stays so.

Neither speaks of what is in flight, and all that matters is there. `ViewInv` has, beside
`EndIsFinal` itself,

- `LogInv`: in a log a session is spawned once, before anything else is said of it, and nothing is
  said after its exit; and only the running daemon has pruned sessions, which have ended;
- `WireInv`: every frame in flight is true of its incarnation's log and finds the host where it
  must be when its turn comes (`FramesFit`): an event right behind the position the frames before it
  lead to, a snapshot behind everything the host has read or will have read, a Hello that continues
  at the cursor; and the exec serves on from where the last of them leads (`ServedFromHere`);
- `RowsInv`: while no resync is owed, every row is what the log says up to the cursor
  (`RowsAreExact`), and even while one is owed it tells nothing that did not happen (`RowsAreTrue`).

A frame that is applied moves the front of the wire into the rows; one that is lost leaves a
resync owed, and then a frame need no longer find the host anywhere until a snapshot mends it.

They rest on the named assumptions of the modules (`MaxEpochAssumption`, `KindsAssumption`,
`BoundsAssumption`, `FramesAssumption`, `ForeignAssumption`, `LinkAssumption`), which TLC
evaluates in every run of `MCRemoteLink`.

`ClaudeSessionsProofs` holds, for any windows and panels, any number of PTYs and any bounds:

- `SessionsTypeCorrect`: `Spec => []TypeOK`. First what the table's transitions return
  (`AttachedFact`, `TakenOverFact`, `LeftFact`, `RegisteredFact`...), then panels, calls and
  answers, then a lemma for each action or group of them.
- `TableTheorem`: `Spec => [](TypeOK /\ TableInv)`, from which follow
  - `OneLivePtyTheorem`: a running PTY is the one the table knows and finds, so a session never
    has two, nor one that is forgotten;
  - `PolledTheorem`: the poll thread of a known session was not told to stop;
  - `DriverTheorem`: whenever somebody views a session, one of the viewers drives it.

Neither of the first two is inductive. A spawn cleans the entry of the PTY that `live` names,
and no other: that none is left behind needs `KnownIsLive` (both maps name the same PTY). A
fresh PTY must not inherit a stop: `UnstartedIsUnknown` (a PTY that never ran is in neither map
and was not told to stop). And a poll thread that ends removes an entry: that it is not a
running PTY's is `KnownIsPolled` itself. `HaveDrivers` is inductive with the lemmas about the
transitions, of which `LeftFact` is the one that matters: who leaves is replaced by the first
who stays. The step has one lemma for each command, `ThreadsTable` for the exit of a PTY and
the end of a poll thread, and `BackendKept` for everything the windows do. On top of it:

- `RevTheorem`: `Spec => []RevNamesDriver`: no view is ahead of the table, and one that believes
  the table's revision knows whether it drives. `RevInv` says it of every answer, event and open
  view there is, as what is on its way becomes what a view believes: each was `Said`, that is, it is
  not ahead of the table and names its driver when it is not behind. The table keeps that true as a
  driver changes with the revision only (`TableMoves`).
- `NotLostTheorem`: `Spec => []PanelNotLost`. `OneTransfer` and `Held`: a panel that is in no
  window has exactly one transfer, and that one still holds its description.
- `NeverClosedTheorem`: `Spec => NeverClosedUnderAView`. `ViewsInv`: as long as no window holds two
  panels of the session, a view that is open is counted among the session's windows, and no detach
  of its window is queued behind it. The condition is needed: two panels of a session in one window
  are one entry of `attached` (section 5). `OnePanelTheorem` is the case of one panel, in which the
  condition holds of itself.

The theorems rest on `MaxPtyAssumption`, `MainAssumption` and `ActsAssumption`.

`RemoteTerminalsProofs` holds, for any hosts, terminals, attachments, incarnations and any cap:

- `RTTypeTheorem`: `RTSpec => []RTTypeOK`;
- `TerminalsTheorem`: `RTSpec => []TerminalsAreTrue`.

`RTInv` adds to the property that numbers are given out in order and only those given out are listed
(`Begun`), that only what is over was reported (`OnlyOverEnds`), that a terminal closed with its
host has its reason in the store while not more than the cap are over (`DetachIsSaid`), and that the
store holds one reason of a terminal. An eviction needs a full store and a new reason, so the cap
and one more are over; to push a marker out it takes one terminal besides, the one whose marker
goes (`RecordStep`, which counts with `IdsCounted` and `OverCounted`). Its proof attempt is where
the bound of `EndIsAnswered` was found to be wrong: with twice the cap TLC has a counterexample
for a cap of two. `RetainedFact`, what `retain` leaves of any list, is an induction over data,
done by the least prefix for which it fails (`LeastNat`).

`BackendProofs` is about the five parts of the run `backend` and their composition.

- `FilesTheorem`: `StoreSpec => FileKeptWhileOpen /\ []SoleOwner`, the safety part of
  `FilesFollowPanels`. `Owned` says of a flusher that its panel is closed, or its session is there, and
  then it is the one the panel awaits or names unless the panel gave up a mount (`Owner`, `Mine`), as
  long as no panel took over another one's session (`crossed`). So a file that goes is a closed
  panel's, and two flushers of a file are of one session. `MapIs`: sessions are numbered below `nextId`.
- `ScreenTheorem`: `PtySpec => ShowsARun`, the refinement of `TerminalScreen`. The initial states map
  to initial states, and every step of `PtyStream` is one of the screen's actions or leaves it
  alone: a mount and an unmount begin it anew, a snapshot repaints (`Painted`), a delivery, and the
  drain of what was buffered, append (`Delivers`). What has to be known for it is where each chunk
  is. `Flow`: those between the scrollback and the window are the newest ones in order, the one
  that is being fanned out, then those the relay has not taken, then those the webview has not got.
  `Joins`: the pending queue ends where the deliveries have come to; what it lost, the snapshot
  covers or a flag says that it does not (`view.dropped`), and then the view is painted again
  instead of being drained (`Healed`, `AskedAgain`). The drain of a queue, a recursive function, is
  `Drained`; what it returns for a queue of any length is proved by its least prefix for which it
  fails (`LeastNat`).
- `ExecIsHonestTheorem`: `SshSpec => []ExecIsHonest`, for any lengths, windows and queues. The
  invariant has a `Ledger` (accepted bytes are queued, in the writer's hands, on the wire or lost),
  `Hands` (when the writer can hold any), `Shut` (who may still offer or take input) and `Stages`
  (the verdict is given once, at the end, and only of an exec that was asked for). The theorem is
  why the writer must drain its queue when the remote command ends.
- `FramesAreTrueTheorem`: `TLSpec => []FramesAreTrue`, for any subagents, which are finitely many, and
  any streak and debounce. What the window shows is current as long as two different states never have
  the same fingerprint, which is made of sums. A poll that rebuilds no tail only lengthens frames and
  raises revisions (`FrameLonger`); sums that are the same then are of the same terms (`TotalGrows`),
  and the same revision is the same item, so the frames are the same (`SameFingerprint`). A poll that
  rebuilds one starts a generation (`SameGeneration`): without that number the theorem would be
  false. The memo of parents is right because it has one entry for a question (`OneEach`) and none that
  is ahead of its item or answers otherwise than an item of its revision (`Fits`). A frame that only
  grew keeps that; of one that is rebuilt, whose revisions start over, the purge leaves no entry
  (`PurgedFits`), as long as nothing was reopened on an empty file (`torn`, section 5).
- `FramesStayTheorem`: `TLSpec => FramesStay`, the safety part of `TimelineKeepsUp`.
- `StoreTypeTheorem`, `PtyTypeTheorem`, `TLTypeTheorem`, `SshTypeTheorem`: the types of each part. Not
  all are inductive as they stand: that the windows of the SSH channel never go below zero needs the
  ledger, and a thread's streaks need what `Frames` says of its tails.
- `BackendTypeTheorem`: `BackendSpec => []TypeOK`. A step of one part leaves the others' variables
  alone, and so is a step or a stutter of each; what the parts' specifications imply, the
  composition's does.

They rest on `StreamAssumption`, `TerminalStoreAssumption`, `RemoteTerminalsAssumption`,
`SshAssumption` and `TimelinePollAssumption`; the last says that a directory lists finitely many
subagents and that none is called as the model calls the session's own transcript.

`LibraryProofs` is about the four parts of the run `library`. `AdoptsRightlyTheorem`: `LvSpec =>
[]AdoptsRightly`, for any transcripts, processes and times. A process that wrote leaves a time
that is not before its start (`WroteAfterStart`); a verdict "free" says that every unpinned
process started later, by more than the clock can have moved (`FreeMeansLater`, which needs
`MaxShift < Epsilon` and the rounding of a second); so what had written has exited (`SeenBefore`).
That the threshold is a least element comes from the well-foundedness of the naturals
(`LeastInt`).

`ScanIsBoundedTheorem`: `HsSpec => []ScanIsBounded`, for any budgets, buffer and file. What is behind
the scan named no directory or was too long (`Passed`), as long as budget is left; while it drains
with budget left, the record was longer than the cap and not merely cut (`Drained`).

Of `SessionLibrary` it holds, for any sessions, windows, sidecars, cap and bounds
(`SessionLibraryAssumption`):

- `DismissalsTheorem`: `LibSpec => [](LibTypeOK /\ DeletedStaysAway /\ DismissalsKept) /\ TombstonesFirst`;
- `LibraryIsCurrentTheorem`: `LibSpec => LibraryIsCurrent`.

The first needs `KeptInv`. `Locked`: a delete that has read the list holds the lock alone, and the
list is still what it read. `Doomed`, about the sessions that are deleted: their stop flag is set;
none but a late writer is past its last check; and what is left of them, body, meta file or
sidecars, a delete still has before it, or it would have failed. `DismissedFact` says what a
dismissal makes of a list of any length, also of the empty one a delete that cannot read has in
hand: it keeps to the cap, and either nothing was evicted or only transcripts that exist are left
(`Without`, for `retain`, is a recursive function, so that this can be proved). The second adds
`AtEntry`: the body the listing met is not newer than the last snapshot, and what is there now is
not older; and `Snapped`, `HealsSnapped`: no file and no pending repair is ahead of a snapshot. A
repair can still put an older summary beside a newer body, and its length gives it away unless the
two are equal: `Sized` (every file has the length of the change it holds) is all that is known of
lengths, and `ListIsCurrent` excepts that case. Nothing is assumed of `SizeOf`.

Of `GitHistory`, for any branches, number of backups and bounds (`GitAssumption`):

- `HistoryIsKeptTheorem`: `GitSpec => HistoryIsKept`, the types and its three action properties.

A command reads the repository, and another git process writes it before the command's next one. So
`GitInv` says of each stage what is still true of what was read. `Past`: between the commit that is
reworded and the tip that was read lies a line without a merge, and once the new commits are built
they tell the old story but for one message; both only speak of commits, which are never changed
(`Grows`), so others cannot take them away. `Steady`: while nobody switches, HEAD is the branch that
was read and the branch only went up. So the backup, which is taken at HEAD as it is then, is not
below the tip that was read (`BackedPast`), and the swap succeeds only at that tip: then they are one.
A reset has no such swap and moves what is there; what it moves away from is backed up if nobody
moved HEAD (`BackedReset`), and the tree is clean if nothing ran meanwhile (`Cleaned`).

What the rebuilt branch tells is `RetoldFact`, an induction over the line from the reworded commit
upwards: the tip's only parent is the next one down (`GapFact`), and its copy comes last
(`AscendingFact`, `NewFact`). Ancestors and stories are recursive functions over the graph of
commits, which exist because parents are older (`AncestorsExist`, `StoriesExist`). That a prune
leaves at most `BackupKeep` backups is `NewestAreFew`: of any finite set, at most k have less than k
newer ones.

`TranscriptsProofs` is about the other parts of the run `transcripts` and their composition. It
holds of `CodexTabs`, for any tabs and transcripts, any skew, window and rescan, and any delay of
a session's opening within the window (`CodexAssumption`; the window was chosen for that, five times
the longest delay that was measured, `codex_rollout.rs` 229-235):

- `CxTypeTheorem`: `CxSpec => []CxTypeOK`;
- `TabsTheorem`: `CxSpec => []TabsShowTheirOwn`.

A transcript that a tab may take bears a mark and is no worker's, so it is some tab's (`Made`). If
it is another tab's first one, that tab covers it too (it was opened `InTime`, and `Delay <= Window`),
so it competes for it unless it has found another transcript: and that one, by the property itself
or because a tab has one first conversation (`Firsts`), shows that a second one was begun
(`OnlyItsOwn`). A page never has more than the file nor its signature more than the page (`Reads`),
and a signature is the length of the file, so one that equals it leaves nothing out. `Judging` says
that the look of a poll which found the process gone has in hand every transcript the tab owns: so
that look takes the one that is alone (`LastLookTakes`), and afterwards nothing makes another one
so (`AloneBefore`). `CxInv` is the conjunction; TLC looked for a counterexample to it first, in 22
million states of two tabs.

of `TranscriptMap`, for any calls and any length of the log (`TranscriptMapAssumption`):

- `TMTypeTheorem`: `TMSpec => []TMTypeOK`;
- `TimelineTheorem`: `TMSpec => TimelineIsTheLog`, its three invariants and its two action properties.

`LogInv` says that the mapper is `Mapped(log, applied)`, the one mapping of the complete lines read so
far, which is `ChunkingIsInvisible`. It is inductive because mapping a list in two parts is mapping it at
once (`MappedCut`). The others are about what that mapping does: `Told(s, n)` says of the timeline of
the first n records which calls it knows, which cannot be open any more, and what its tokens sum up
to, and is proved record by record (`ToldMore`); `Later` says how a timeline may follow another one
(`LineFact` for a line, `LaterMapped` for any number), and is what `ChangesCount` and
`NeverReopened` ask.

of `CodexRollout`, for any calls and any length of the file (`CodexRolloutAssumption`):

- `RolloutTypeTheorem`: `RolloutSpec => []RolloutTypeOK`;
- `RolloutTheorem`: `RolloutSpec => []RolloutIsMapped`.

`RolloutInv` says no more than that what was parsed is the parse of some transcript no longer than
the file. All else is about `Parsed` for any list of records. `Story` says of a parse of n records
what it counted, and of each item (`ItemStory`) which records made it what it is: the one its body
is from, the abort that canceled it, the call or the end it was opened by; `StoryStep` has a case
for each kind of record. `OrderIsInvisible` compares two files: the parses are the same up to the
call (`Prefix`), and where its two records were swapped they are `Alike`, that is, they differ in the
numbers of revisions at most (`SwapFact`, on `ItemAfter`, an item after one record that is about it);
every record that comes then keeps them so (`AlikeStep`).

Both need facts about recursive functions for arguments of any length, an induction over data that
the provers cannot take from the library. The detour: that such a function exists and unfolds
(`RunExists`), and that what holds of the empty list and is kept by a record holds of all
(`UpTo`), follow from a least counterexample, and that there is a least one (`LeastNat`) from the
well-foundedness of the naturals, `NatLessThanWellFounded`, which is about one relation and takes no
operator. This is why the models have `ApplyLines` and `Parsed` instead of a fold of the community
modules, which the provers cannot open.

- `TranscriptsTypeTheorem`: `TranscriptsSpec => []TypeOK`, from the type theorems of the four parts
  (`ArTypeTheorem` is in `ArchiveRunProofs`), as in `BackendProofs`.

`ArchiveRunProofs` holds, for any number of versions, memos, folder names and mishaps
(`ArchiveAssumption`, which says that they are numbers and that there is a version to archive):

- `ArInvTheorem`: `ArSpec => []ArInv`, the inductive invariant;
- `ArTypeTheorem`: `ArSpec => []ArTypeOK`: the types, and one folder to a name;
- `ArchiveTheorem`: `ArSpec => ArchiveIsKept`, all its parts.

`Visible` says of the folders that are visible, or come back if the new one cannot land, that a name
is one folder's (`NamesApart`), that of two of them a search passed one over (`OneSeen`), that each
has earned the marker it bears (`Earned`), and, from the second rename on, that the one at the run's path
is the run's own and any other was passed over (`Role`). Between the two renames only what was passed
over is visible, and `Displaced` says what can come back: the folders that were moved away, as they
were. `Metas`: a meta describes the content it lies with. `Kept`: what was visible once is in a folder
or in its history, also when a run dies before it has taken over the history. `Worked` says, stage
by stage, what a run without a warning has done, which earns the marker at its end. `Alone` and
`Summed` are about a run in which no operation failed (`Unharmed`): it takes in every folder that failed
runs left aside, and its folder has a summary if the last one had.
There is a lemma for each stage, with a case for a rename that fails and one for a crash.

`MemoEditorProofs` holds, for any windows and any number of edits, editors, failures and queued
flushes, and whether or not a webview's calls keep their order (`InOrder` is either):

- `MemoTypeCorrect`: `Spec => []TypeOK`;
- `SerialTheorem`: `Spec => []SerialSaves`;
- `CleanTheorem`: `Spec => CleanMeansSaved`;
- `StashTheorem`: `Spec => []StashIsLatest`.

They follow from `MemoTheorem`, `Spec => []MemoInv`. `SerialSaves` speaks of one window and is not
inductive: the answer of a save frees its saver, so that another save of the same run, in whatever
window, would be left without one. `OneSave` says it of all windows together. It is kept because
what an auto-saver does leaves a text that is being sent alone (`Kicked`, and `RunOnceFact` to
`LeftFact`), so that a new save (`QueueKept`, `DropKept`) begins only where none is on its way.
`CleanMeansSaved` needs `Flying` besides: a save that succeeded left its text in the file.
`StashIsLatest` needs `Latest` and `Apart`: what an editor holds is the last text typed in its
window too, and no two panels share an editor.

Every safety property of a passing run is stated by a theorem. Only model-checked:

- `ViewCatchesUp`, `LeaveSettles`, `CatchesUp`, `EndIsTold`, `ExecGoesOn` and the parts of
  `FilesFollowPanels` and `TimelineKeepsUp` that say that something happens: liveness under fairness,
  which rests on `ENABLED`, is outside the prover's reach;
- the assumptions of `CivilTime`: what a calendar computes for inputs within bounds.

## 7. Not modelled

`PROJECT.json` gives the reason for each component. In those that are modelled:
- Remote link: texts, titles, notices, attempt counts, `last_frame_at`, a session adopted when
  it has already exited, frames of an unknown type (they have no effect).
- Memo: tidy and its undo, export, read-only rows, `flushAllMemos` on quit, a row whose key
  changes, and the size cap, whose refusal is one of the failures.
- Sessions: the answers of `claude_write` and `claude_resize` (they read the driver and change
  nothing here), sessions opened with no uuid, layouts of other projects, quitting, and a
  popout's own automatic close. The adoption check is `SessionAdoption`'s.
- Terminals: bytes, escape sequences and the size of a screen; a chunk is a number.
- Remote terminals: the hosts' configuration and the text of the panel.
- SSH: the contents of `known_hosts` and of credentials, keep-alives, and the protocol itself.
- Timeline: cost figures, titles, diffs, the side-chain's text; codex titles and diffs are named by
  where they come from.
- Adoption: how `/proc` is parsed; a process is what may be seen of it. A clock set back, which
  makes files look older, is left out.
- Archive: the book's HTML, the prompt and the runner of the extraction, whose answers are
  parsed, empty, broken or none.
- Git: branches and worktrees but for their check, read-only queries, hooks and signing.

Left out altogether: the automatic fetch (`autoFetch.ts`), prompt refinement, badges and
notifications, which are state of one webview's event loop; the hook server, a receiver of
status lines; the layout functions and the workspace file, which are sequential; the file
tree, search, knowledge queries and the MCP server, which read once and answer.

## 8. What comes next

1. Modules for the automatic fetch's generations and for prompt refinement over `ClaudeSessions`.
2. Refinements: `MemoEditor` of a register with compare-and-swap, `ClaudeSessions` of a lock.

## 9. How to run

`tlc -config <Run>.cfg MC<Module>.tla` checks a run; `tlapm <Module>Proofs.tla` checks the proofs
of a module. `PROJECT.json` lists the runs with their configurations, the source lines of every
definition, the mutants, the hazards and the theorems.
