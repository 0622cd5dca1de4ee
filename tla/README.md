# Hyprscheme in TLA+

Hyprscheme is a Hyprland plugin that embeds Guile: the compositor is configured and
scripted in Scheme.  `src/cpp` is the C++ boundary (gsubrs, and the callbacks the
compositor calls), `src/hyprscheme` is the Scheme side (one module per family of the
API, and the layers built on them), `src/init.scm` builds a config generation.

This directory models the parts of it that keep state across calls, checks them with
TLC and proves what matters most with TLAPS.

Contents: [1 Inventory](#1-inventory), [2 How the parts interact](#2-how-the-parts-interact),
[3 The modules](#3-the-modules), [4 The runs](#4-the-runs), [5 Fairness](#5-fairness),
[6 The proofs](#6-the-proofs), [7 Where code and comments disagree](#7-where-code-and-comments-disagree),
[8 Assumptions about the outside](#8-assumptions-about-the-outside),
[9 Not modelled](#9-not-modelled), [10 Plan](#10-plan), [11 How to run it](#11-how-to-run-it).

## 1 Inventory

Almost everything runs on the compositor's event-loop thread.  The exceptions are the
detector thread (`Host.cpp:205-254`), the SIGALRM async of the Scheme watchdog, which lands
between two procedure entries of Scheme code, and the garbage collector, which queues
finalizers.  "Concurrency" therefore mostly means callbacks that run inside other
callbacks, and operations (a reload, an unload, a focus change, a file saved) that come
between two steps of another one.

| Component | State | Operations | What is hard | What makes it correct | Module |
|---|---|---|---|---|---|
| Host lifecycle (`Host.cpp`) | `g_up`, `g_generation`, `g_configPath`, `done`, `hl--ready`, the IPC command and its ready listener, the reload and start listeners | `init`, `shutdown`, `reloadScheme`, `buildGeneration`, `attachInterp`, `registerIpc` | the plugin may be loaded before, between or after the session's startup events, unloaded, and attached again to the live interpreter; a build can fail half way | what can still act belongs to the current generation; a detached plugin leaves nothing behind; attached exactly once | `Host`, `Generations` |
| Events and the start dispatch (`Event.cpp`, `event.scm`) | `g_eventConnections`, `g_pendingStart`, `g_startSeen`, lifecycle listeners | listen, cancel, the start dispatch, `doLater` for late handlers | a handler queued for the next pass of the loop; a reload in between | no held handler is stranded; a handler is of its generation | `Host` |
| Config errors and banner (`kernel.scm`, `core.scm`, `extras.scm`) | `hl--config-errors`, the overlay | `hl--load-config`, `hl-load`, `hl--report-config`, `hl--report-config-ok` | a nested file fails while the load that pulled it in survives | the banner is up exactly when a file failed | `Host` |
| Timers (`Timer.cpp`, `timer.scm`) | `g_timerIndex`, the loop's timer list, each timer's deadline | create, enable, re-tune, cancel, reload, fire | the callback acts on the timer that is firing, or reloads the config under it | index and loop agree; an ended timer stays quiet; an enabled one is armed, with the interval last asked for | `Timer` |
| Rules (`Rule.cpp`, `rule.scm`, `layer.scm`, `workspace.scm`, `core.scm`) | the rule in progress of each kind, the tables by name and by handle, the engine | begin, match, effect, commit, enable, clear | an item is refused, or the script abandoned, between begin and commit | items land on the rule of their own call; handles and names stand for live rules | `RuleStaging` |
| Scheme watchdog (`kernel.scm:700-805`) | `hl--watchdog-ms`, `hl--wd-handler`, `hl--wd-stack`, the alarm | `hl--wd-enter`, `hl--wd-exit`, `hl--guarded-run`, the SIGALRM handler, `reset` | nesting through calls to the compositor; an async in the middle of enter or exit; escapes | the outer handler is restored; a callback is never without a coming alarm; a hung one is abandoned | `Watchdog` |
| Detector thread (`Host.cpp:205-254`) | `g_callbackStartMs`, `g_callbackName`, the thread's `reported` | `watchdogEnter`, `watchdogExit`, the polling loop | three loads race two stores | a report is true, and made once; a hung callback is reported | `Detector` |
| Binds and keymaps (`Bind.cpp`, `bind.scm`) | the compositor's bind registry, keymap records, the current submap | add, unbind by handle or key, arm and disarm one bind or a keymap, switch submap | one record registered twice; binds that disappear under a keymap | an attached keymap follows its condition; a handle finds its bind | `Keymaps`, `Host` |
| Emacs key layer (`emacs-keymaps.scm:306-780`) | `global-map`, prefix submaps and their marks, `hl--window-conditions` | `define-key!`, `define-keymap`, attach, recheck | the user is in the middle of a key sequence when the keymap is disarmed, unbound or redefined | a sequence can always be left; an unbound key leads back | `Keymaps` |
| Modes (`emacs-keymaps.scm:783-1118`) | `hl--modes`: the flag of each mode, its state file, its colour rule | `make-mode`, `mode-active-set!`, `hl--mode-file-write!`, `hl--modes-apply-colors!`, `hl-modes-restore!` | hooks of a config set other modes, or their own, in the middle of a call, or raise; a reload or a crash leaves the files only, and the restore changes them while it reads them | colours, keymaps and files follow the flags; exclusive modes are never both on; what had a file comes back | `Modes` |
| Config watcher (`watch.scm`, `inotify.scm`, `Host.cpp:425-465`) | `hl--watch-loaded`, `hl--watch-dirs`, the inotify queue and watches | the load hook, the reader, one reload per matching event | files are saved, renamed, deleted, re-linked at any moment, also between the hook and the read | no edit of a watched file is lost; in the end the config is what the files say | `Watch` |
| Layouts (`SchemeLayout.cpp`, `kernel.scm:1058-1116`) | `g_layouts` and whether a provider is active, each algorithm's provider and `m_targets` | `layoutAdd`, `newTarget`, `movedTarget`, `removeTarget`, `swapTargets`, `moveTargetInDirection`, `recalculate`, `resizeTarget`, `layoutMsg`, `clear` | the callback of a pass may move windows, begin passes inside its own, or reload the config and so retire its own provider; a list of boxes is refused half applied | the targets are the workspace's windows; a failed pass is the default grid; a retired provider places boxes only in passes that were under way, and by a resize | `Layout`, `Host` |
| Notifications (`Notification.cpp`, `notification.scm`, `Handles.hpp:62`) | a weak reference and a `paused` bit per handle, the overlay's list and lock counts | create, dismiss, pause, update, the finalizer | every `hl-notifications` makes new handles to the same notification; a handle that is dropped while paused is unlocked when its finalizer runs | a notification's locks are its paused handles that were not finalized | `Notification` |
| Config options, monitor rules (`Config.cpp`, `config.scm`, `Monitor.cpp`, `monitor.scm:190`) | the scratch Lua stack, `g_monitorParser`, `g_configError` | begin, push, set; begin, field, commit; device, curve, animation and permission add | a call that stops between its begin and its commit, or raises between pushes | what a call commits is what this call staged; the error that is raised is this call's | `Config`, `Errors` |
| Gestures (`Gesture.cpp`, `gesture.scm`) | the manager's gestures, by registration spec; counted locks on thunks | add, remove by spec, begin, update, end | a reload or a removal between begin and end; a handle is a spec, which a later gesture may have | a thunk is locked exactly while a gesture object carries it | `Gestures` |
| Handles and GC (`Handles.cpp`, `SThunkRef.hpp`, `Guile.cpp`) | weak references, the finalizer queue | lock, unlock, finalize | finalizers run on the main thread, later; an address is used again | nothing is unlocked twice or left locked | `Handles` |
| Windows and actions (`Window.cpp`, `Exec.cpp`, `window.scm`) | the compositor's windows, focus, fullscreen modes | some sixty entry points, each on a handle or on `#f`, the focused window | for the compositor an absent window means the focused one; its fullscreen action clears a pair that is there already, and `'keep` is no mode to compare with | a call changes the windows it was given, as asked, and no other | `Windows` |
| Groups (`Group.cpp`, `group.scm`) | members, the lock of a group and what each member draws of it | add, remove, toggle, cycle, lock through the group or a window | the lock is drawn from a copy that each member must be told of | every member draws its group's lock | `Groups` |
| Workspaces and monitors (`Workspace.cpp`, `Monitor.cpp`, `extras.scm`) | workspaces, the special one open on each monitor, the window's place | move, focus, rename, toggle and set special, move and swap monitors | a missing workspace is created in the middle of a call, and its handlers run then | a call that goes on after them still does what it was asked | `Workspaces` |
| Key chords (`Bind.cpp:290-718`) | none | logical to physical and back, over the active keymap | layouts, levels, several ways to a level, symbols that print alike or nothing, symbols without a key | what is bound is what types the character meant, and is shown as written | `Keys` |
| Survive list, enums, values | none or one variable | one-call wrappers | nothing | - | not modelled |

The hazards of this code, each at its line and with the properties that cover it, are listed
in `PROJECT.json` under `hazards`.

## 2 How the parts interact

- The compositor calls the plugin: `init` and `shutdown`, `config.preReload` and
  `config.reloaded`, the start and ready events, timers, binds, layouts, the inotify reader.
  Every such call into Scheme goes through `watchdogEnter`/`watchdogExit` (Detector) and
  `hl--guarded-run` (Watchdog).
- `reloadScheme` is where most parts meet: it drops the rules, timers, event handlers,
  layouts and held start handlers of the outgoing generation (each has a clearing function
  of its own, which `Host` abstracts to the kinds it drops, and `Timer`, `RuleStaging` and
  `Keymaps` model in detail as `CancelAllTimers`, `ClearSchemeRules` and `Reset`), builds the
  next generation, and loads the config, which registers again.
- A load of the config runs the load hook of the watcher, and an event the watcher matches
  asks for a reload.
- Conditions of keymaps are evaluated on `window.active` and when a mode is toggled, and arm
  and disarm the binds of a keymap, while the user's keys move the current submap.

`Host` is the composition: it has every registry as a set of owning generations, and the
component modules look into one registry each.

## 3 The modules

Each action carries the name of the function it models in the comment above it, and
`PROJECT.json` gives the lines.

- **`Host`**.  The life of the Scheme side in one compositor process.  `reg[k]` is the set of
  generations that own a live registration of kind `k`: nine kinds, one for each place a
  registration can live in.  A reload is not atomic: `phase` goes through `preReload` (scripts'
  `hl-config-unload` handlers run), `reload` and `load` (the config runs), and scripts act in
  each.  `stage` is the session's startup, external.
- **`Generations`**.  The abstract promise: what a script hooked acts only while its generation
  is the current one.  `Host` implements it under `attached <- up, live <- Hooked`.
- **`Timer`**.  The index against the loop's own list, at the granularity of the event loop's
  calls: `Fire` begins a callback, script actions run inside it, `Again` or `Finished` is what
  `fireSchemeTimerRec` and its caller do after it.
- **`RuleStaging`**.  One action per gsubr of the begin, match, effect, commit protocol, with
  `Refuse` and `Abandon` for a maker that stops half way.
- **`Watchdog`**.  `hl--wd-enter` and `hl--wd-exit` are sequences of program-counter steps, and an
  async may land between any two of them.  A run is on the wind list (`runs`) from the step after
  its enter to the step before its exit: what escapes from it in between unwinds nothing of it.  Runs of
  callbacks nest through calls to the compositor (`CCall`, `CReturn`), and the kernel's `Reset` may
  come inside such a call.  `cut` remembers whether an async cut an enter past its push or an exit short
  of its handler, or a reload emptied the stack under a run.
- **`Detector`**.  Every atomic load and store of both threads is a step.
- **`Keymaps`**.  The compositor's bind list, keymaps and prefix chains as a record `km`; the
  functions of `bind.scm` and `emacs-keymaps.scm` are operators on that record, and each call of
  a script applies one.  A submap is the sequence of words that names it, the keymap of a prefix
  is known by its root and its submap.  `Press` is the compositor matching a key: the binds that fire
  are a set of places in the bind list, taken from left to right (`FoldAt`).
- **`Watch`**.  An editor and a dotfile manager change files, links and directories while the
  thread hooks, reads, wakes up, handles events and reloads.  Names are what a config loads,
  places are what canonical paths stand for.
- **`Layout`**.  A provider per generation, an algorithm per workspace, a stack of calls under
  way: a pass begins (`Recalculate`), its callback runs as a script that may begin other passes,
  and `Answer`, `AnswerFalse` or `ResizeFalse` ends it with the targets it was called for.  A
  window that goes to another workspace, or a swap across two, is a removal and an addition with
  a pass after each.  Where a window is placed is what placed it: the default grid's cell, or a
  box and the generation it was made in.  The record type of boxes is made once in a process, so a box
  of any generation is accepted; a callback that reloads may answer boxes from before or after.
- **`Modes`**.  `mode-active-set!` is a stack of calls: `Call` sets the flag, `HookSetsMode` makes
  the next call of the hook, `HookRaises` unwinds any number of them, and `Finish` does what comes
  after the hook.  `Load` is what a reload and a new session have in common, `Restore` one step of
  `hl-modes-restore!`.  `Keymaps` has modes as one of the conditions of an attached keymap; what a
  hook does to them is here.
- **`Errors`**.  `g_configError`, the one string in which an entry point of any family leaves the
  reason of its refusal, and which the wrapper in Scheme reads back and raises (`Fail`, `FailWith`).
- **`Handles`**.  A handle is a weak reference to an object at an address: objects die without
  asking, addresses are given out again, and a wrapper that Scheme drops is finalized later.
- **`Notification`** (on `Handles` and `Errors`).  Pausing takes a lock through a handle;
  resuming, dismissing and the finalizer give it back.
- **`Config`**.  A call is a record `call` with what it has still to send.  The stack of a value and
  the seeded monitor parser outlive the call, which may be refused or abandoned at any step.
- **`Windows`**, and **`Groups`** and **`Workspaces`** which extend it.  Entry points with one shape
  are one action: `Dispatch` and `Toggle` stand for the calls that hand a window to a compositor
  action, `Get`, `GetFlag`, `GetOptional` and `GetOrFocused` for what a getter answers of a dead
  window.  `FullscreenBy` and `FullscreenSync` have the wrapper in Scheme and the compositor's own
  action under it; `FullscreenSync` is asked for any mode or `'keep` (-1) on each side.  In `Workspaces` a call that creates its workspace is pushed on `calls`, handlers
  run calls of their own, the compositor may sweep, and `GoesOn` is the rest of the call.
- **`Gestures`**.  A registration makes an object that locks its thunks, phase by phase.  `Start`,
  `Update` and `Finish` are the manager's.
- **`Keys`**.  The two conversions as operators over a keymap, or none; `Convert` applies them to a chord.
  A keymap is the symbols of each level of each layout of each key; `Types` gives the ways to reach a
  level, of which the conversions take the first.  Symbols print or are named only, and several may
  print one character.
- **`Families`** composes these.  Wrappers never interleave, so a behaviour lets one family act
  (`acting`), over the shared string of the last error, which holds anything to begin with.
- **`MC*`** give the constants their values; **`*_proofs`** hold the theorems about the module they
  are named for.  Those of `Families_proofs` are about the specification of `Families`, one section
  for each of the modules it composes; `Watchdog_proofs` also has those about `Detector`, the host's
  backstop of the same callbacks, and `Host_proofs` those about `Timer`, whose timers the host counts.

Two kinds of variables are not in the program: history variables, marked as such (`broken`,
`off`, `fired`, `own`, `unseen`, `changed`, `covered`, `result`, `dirty`, `unsure`, `selfSet`,
`kept`, `raised`, `asked`, `byWindow`, `outcome`, `crashed`, `cut`, and the `fired` of `Gestures`), and
program counters.

Operators whose comment begins with "Mutant of" are not part of a model: they are plausible
mistakes in the operation below them, and `PROJECT.json` names the property that each of them
breaks.

## 4 The runs

| Run | Checks | Bounds, and why they are enough |
|---|---|---|
| `host` | types, ownership by generation, a clean unload, a complete attach, the banner, start handlers, the refinement of `Generations` | three generations (`MaxGen = 3`): a reload, a re-attach and one more of either after it; all nine kinds of registration.  752 thousand states.  Ownership, types, attach, banner and refinement are proved for any `MaxGen` |
| `timer` | index and loop, deadlines, timers that ended | two timers, two intervals: a callback acts on its own timer or on the other; any number of steps |
| `rules` | items, handles, names, staging | three calls: one that fails, one it could divert, one after it; a reload anywhere.  1.9 million states, names symmetric |
| `watchdog` | handlers restored, an alarm always coming, hung callbacks abandoned | nesting of 2, two names for runs, budgets and periods of a few ticks; names are reused, so behaviours are unbounded.  The async lands at any step of an enter and an exit, and reloads come inside callbacks.  47 thousand states; three names with a nesting of 2 or 3 (991 thousand, 1.6 million states) pass too |
| `detector` | reports are late enough, single, and made | limit 1, seven ticks: time for a report, an idle gap, and a second callback |
| `keymaps` | attached keymaps, ways out of a sequence | two keymaps (the global one and a submap's own), two keys, one window, two calls that register binds: one define-key! of a two-key sequence and one more of anything, with any number of arms, unbinds, focus and tag changes, modes and key presses.  872 thousand states |
| `watch` | no edit lost, the config is fresh in the end | a config and a file behind a link with two targets, two directories, four changes to the file system, a queue of three events read two at a time: enough for an overflow, for a directory removed, made again and written to, and for a save in two steps around a load.  347 thousand states |
| `layout` | targets, failed passes, whose windows a pass places, retired providers | two windows, two workspaces, two generations (one reload), two calls nested in a pass; a provider that recalculates and takes messages, and one that only resizes: enough for a swap or a move inside a pass of the other workspace, and for a pass across a reload.  714 thousand states, windows and workspaces symmetric |
| `modes` | colours, keymaps and files after nested calls, eviction, restore | three modes, two of them with a colour; three sets of hooks: two modes that evict each other, those with a third that clears itself, and a chain in which one turns on what another turns off.  Any number of calls, reloads, crashes and failed writes; 70 thousand states |
| `families` | locks of notifications, what is committed, whose reason is raised, arguments of calls, locks of groups, calls that outlast handlers, locks of thunks, key chords | one family acts in a behaviour.  An address given out twice and two handles: a handle and a later object at its address, and two handles of one notification.  One output, two fields, two fields a call: one that is kept and one refused.  Two windows and two groups: the argument and the other.  Three workspaces of which one is special, two monitors, one placed window, handlers nested twice.  Two gesture objects over one thunk.  A key of two levels, the second reached by either of two modifiers, and a key of two layouts, with every assignment of two symbols that print one character, another that prints and one that does not; and no keymap.  744 thousand states |
| `keymaps_prefix`, `modes_last` | one claim of the source each | expected to be violated, see section 7 |

What the passing runs show, in words:

- *Host.*  On any interleaving of reloads, failed builds, unloads, re-attaches and startup
  events, with scripts that register anything at any moment they can run, everything but late
  start handlers and named rules belongs to the current generation as soon as a config path is
  known.  The banner is up exactly when some file of the running config failed.
- *Timer.*  A callback may disable, re-tune, cancel or enable the timer that is firing, cancel
  all of them through a reload, or fail: the index and the loop hold the same timers, a timer
  that ended never fires again and a one-shot fires once.
- *Rules.*  A maker that stops half way leaves a staged rule behind, but no effect, and no match
  of a window rule, of a later call lands on it.
- *Watchdog.*  Wherever the asyncs land, nested callbacks give the outer one its handler back on
  return and escape, an alarm is always armed or pending while a callback runs, and the innermost
  callback ends even if it loops, until an async cuts an enter past its push or an exit short of its
  handler, or a reload inside a callback empties the stack.  After that nothing is promised until the
  next reset: `NestedRestored` (section 7) says what the first of these does.  An async that lands
  anywhere else, in the body, in the rest of an enter or an exit, with any handler or none, does no
  harm.
- *Detector.*  No race of the loads and stores produces an early or a second report, and a
  callback that starts from an idle poll and nests nothing is reported.
- *Keymaps.*  An attached keymap is armed exactly when its condition holds (except for the two
  cases `unseen` names).  A user in the middle of a sequence always has an armed `s-G` and an
  armed catchall, even when the keymap was disarmed or its keys unbound meanwhile, because the
  disarm does not walk the children: the mutant that does is the one that strands the user.
  An unbound key runs nothing and leads back.
- *Watch.*  A file that was watched when it was read, and no event of which the kernel dropped,
  never differs from what was read without an event or a reload on its way; in particular a file
  that was read half written is read again.

- *Layout.*  Whatever callbacks do inside a pass, an algorithm's targets are the windows of its
  workspace, each once.  A pass that is refused half way leaves the default grid.  A pass whose
  callback did not change the targets under it places its own workspace's windows only.  After a
  reload a provider that it retired places boxes only in the passes whose callbacks were under way
  then, however they nest, and by a resize; those passes do place theirs, because the reload leaves the
  record type as it is (`BoxTypeRebuilt`, section 7).
- *Modes.*  However hooks nest, raise or are cut short, after the next call that ends the colours
  and keymaps are those of the flags; a file is there exactly while its mode is on, unless the
  mode was set inside its own call or the write failed; two modes that evict each other are never
  both on, even when both had a file; a mode that had a file and that nothing evicts comes back.

- *Families.*  Two handles of one notification, a handle dropped while paused and one that outlives
  its notification leave the lock count at the number of paused handles.  A value or a monitor rule
  is what its own call sent, whatever an abandoned call left on the stack or in the parser.  Every
  failure but three (section 7) shows its own reason.  A dead handle never reaches the focused
  window, and a fullscreen call leaves its window as its `#:action` says, although the compositor's
  action toggles; with `'keep` for a side that is: the side is left alone, `'set` puts the other one in
  its mode or, if it was in it already, takes it off, and `'unset` does nothing.  A move whose workspace is created on the way, with handlers that move, toggle
  and let it be swept, lands on a workspace that exists.  The thunks of a gesture are locked
  exactly as often as objects carry them, also while a removed gesture is still being performed and
  after a registration that the manager refused.  A chord bound by its character types that character,
  and is shown with it, on every keymap that places the character where a bind can reach it
  (`Placed`): in the first layout, by the level's own modifiers, on the first key that Hyprland takes for
  it.  Named keys (Return, F1) and events come back as they were, and every chord has one form.

Deadlock checking is on, except in `watch`, where a detached plugin whose editor has stopped has
nothing to do, and in `families`, where the addresses, windows and gesture objects of an instance run
out.

Several properties join two that belong together, each a definition of its own: `AttachmentWhole`
(`AttachedOnce`, `DetachedLeavesNothing`), `LoopAsAsked` (`IndexIsTheLoop`, `ArmedAsAsked`),
`OverIsOver` (`EndedStaysQuiet`, `OneShotOnce`), `WatchNested` (`OuterHandlersKept`, `Supervised`),
`HangsReportedOnce` (`LoggedLateAndOnce`, `LoneReported`), `PrefixIsLeft` (`PrefixNotStranded`,
`AbandonReturns`), `FlagsAreFollowed` (`EffectsFollow`, `FileFollows`), `EvictionDecides`
(`EvictedIsOff`, `RestoredUnlessEvicted`), `CallsOutlastHandlers` (`MovesLand`, `SpecialAsAsked`) and
`CallsAsAsked` (`ActsOnArgument`, `FullscreenAsAsked`).

## 5 Fairness

- `Watchdog!FairSpec`: weak fairness of time, of the delivery of an async that is due, and of the
  straight-line code of enter and exit; strong fairness of `CReturn`, because the compositor's
  functions return, even if callbacks are dispatched in between.  Nothing is assumed of a
  callback: that it may loop is the question.
- `DetectorFairSpec`: weak fairness of the polling thread's steps, of the clock and of the
  second store of `watchdogEnter`.
- `Watch!FairSpec`: weak fairness of the event loop (a descriptor that stays readable is drained:
  `doOnReadable` is armed again after each wakeup), of the load that is under way, and of a
  reload that was asked for.  The editor owes nothing, and may leave a file half written.
- `Host`, `Timer`, `RuleStaging`, `Keymaps`, `Layout`, `Modes` and `Families` state safety only: a
  callback, a hook, a user and the garbage collector owe nothing.

## 6 The proofs

Proved, for every value of the constants:

| Theorem | Statement |
|---|---|
| `Host_proofs!TypeCorrect` | `Spec => []TypeOK` |
| `Host_proofs!GenerationOwnership` | `Spec => []OwnedByGeneration` |
| `Host_proofs!Attachment` | `Spec => []AttachmentWhole` |
| `Host_proofs!BannerTold` | `Spec => []BannerIsTrue` |
| `Host_proofs!StartHandlersMove` | `Spec => []StartNotStranded` |
| `Host_proofs!Implementation` | `Spec => KeepsPromise`, the refinement of `Generations` |
| `Host_proofs!TimerTypeCorrect` | `TimerSpec => []TimerTypeOK` |
| `Host_proofs!LoopSound` | `TimerSpec => []LoopAsAsked` |
| `Host_proofs!Over` | `TimerSpec => OverIsOver`, an action property |
| `RuleStaging_proofs!TypeCorrect` | `Spec => []TypeOK` |
| `RuleStaging_proofs!ItemsHome` | `Spec => []ItemsStayHome` |
| `RuleStaging_proofs!LiveHandles` | `Spec => []HandlesAndNamesAreLive` |
| `Watchdog_proofs!TypeCorrect` | `Spec => []TypeOK` |
| `Watchdog_proofs!NestedAreWatched` | `Spec => []WatchNested` |
| `Watchdog_proofs!DetectorTypes` | `DetectorSpec => []DetectorTypeOK` |
| `Watchdog_proofs!ReportsLateAndOnce` | `DetectorSpec => [](\A s \in Times : LoggedLateAndOnce(s))`, the safety half of `HangsReportedOnce` |
| `Keymaps_proofs!TypeCorrect` | `Spec => []TypeOK` |
| `Keymaps_proofs!Follows` | `Spec => []AttachedFollows` |
| `Keymaps_proofs!Left` | `Spec => []PrefixIsLeft` |
| `Watch_proofs!TypeCorrect` | `Spec => []TypeOK` |
| `Watch_proofs!EditsAreNoticed` | `Spec => []NoEditLost` |
| `Layout_proofs!CellsFit` | in the default grid, for any number of windows and of columns, no cell is outside and no two windows share one |
| `Layout_proofs!TypeCorrect` | `Spec => []TypeOK` |
| `Layout_proofs!ListsAreRight` | `Spec => []TargetsAreTheWindows` |
| `Layout_proofs!FailedPasses` | `Spec => []FailedPassIsGrid` |
| `Layout_proofs!OwnWindows` | `Spec => OwnWindowsOnly`, an action property |
| `Layout_proofs!RetiredPlaces` | `Spec => RetiredPlacesInFlight`, an action property |
| `Modes_proofs!TypeCorrect` | `Spec => []TypeOK` |
| `Modes_proofs!FlagsFollowed` | `Spec => []FlagsAreFollowed` |
| `Modes_proofs!Evictions` | `Spec => []EvictionDecides` |
| `Families_proofs!TypeCorrect` | `Spec => []TypeOK`, of all the families |
| `Families_proofs!OwnReason` | `Spec => []RaisedIsOwn` |
| `Families_proofs!CallsOnArgument` | `Spec => CallsAsAsked`, an action property |
| `Families_proofs!LocksDrawn` | `Spec => []LockIsDrawn` |
| `Families_proofs!HandlersOutlasted` | `Spec => []CallsOutlastHandlers` |
| `Families_proofs!LocksFollowThePauses` | `Spec => []LocksAreThePauses` |
| `Families_proofs!CallsWriteAsAsked` | `Spec => []WrittenAsAsked` |
| `Families_proofs!ThunksStayLocked` | `Spec => []ThunksLocked` |
| `Families_proofs!ChordsRoundTrip` | `Spec => []KeysRoundTrip` |

*Host.*  The inductive invariant is `TypeInv /\ Flags /\ Owned`.  `OwnedByGeneration` alone is not
inductive: it says nothing while the plugin is detached, or before a config path is known, and a
re-attach would start from a state it does not describe.  `Owned` therefore also says what a
detached plugin still holds (timers only, and what the compositor keeps), and `Flags` ties the
listeners, the IPC command and the phase to `g_up`, so that an attach that finds the reload
listener in place is known not to add a second one.  Each of the three parts has a lemma with one
step per action (`TypeStep`, `FlagsStep`, `OwnedStep`); the refinement uses the invariant to show
that a step that clears the hooks of one generation maps to `Renew` or `Detach`, and one that adds
one to `Hook`.

*Timer.*  The invariant adds `History` to the properties: a timer in the index was made, a timer
that fires is made, and a one-shot that has fired is out of the index once its callback is over.
Without it, `EndedStaysQuiet` does not follow from the index alone.

*Watchdog.*  The stack holds, innermost first, what each run came after; between an enter and an exit
it does so for the runs under way, and the handler is the innermost one (`Settled`).  Inside
`hl--wd-enter` and `hl--wd-exit` the same is said of the run that begins or leaves, step by step
(`Entering`, `Exiting`).  These hold as long as `cut` is `"no"`; the invariant is that implication and
`Phases`, which holds always.  The async is considered at each step of both: with the outer handler
still installed, it re-arms or escapes from the outer run, and an enter that has not pushed yet, or an
exit that has put the handler back already, is abandoned with nothing lost; every other escape sets `cut`.
The theorem has no hypothesis but the constants' own.

*Detector.*  What makes a second report impossible is that starts increase: every start the main
thread or the polling thread still holds is not later than the one stored last (`StartsPrecede`), so
a start that comes back is the one that was reported, and while the polling thread can find it,
`reported` is still set (`Remembered`).  A report is late because the thread measures from a start it
has read, however long ago (`Measured`).

*Keymaps.*  The inductive invariant is `Sound(km) /\ Conditioned` and the types.  `PrefixIsLeft` speaks of
the submap the user is in; what is kept is about every prefix that was made, whoever is in it:

- its two ways out are registered and armed in its submap (`Ways`).  No call disarms them, because the
  only keymaps a script arms and disarms are the roots, and a bind that `define-key!` made is held
  only by a keymap of its own submap (`Owned`), which for a way out of a prefix is no root: the last
  word of the name of a prefix is a chord, and no root is named so (`Named`).  No call removes them
  either, because unbinding works on binds of the config and on chords of the user;
- every catchall of a prefix only switches, to the default map or to its root's own submap, and the
  compositor accepts that submap whatever else is unbound, because the root's own `s-G` is in it
  (`Abandons`, `Accepts`, `Exits`).  A pressed key may fire several catchalls, one of each keymap
  that shares the prefix; the last one decides (`PressedLeads`).

Within one call this does not hold: a prefix is made and entered before it is given its ways out, and so
`SoundBut(s, X)` excepts the keymaps of `X`, one for the length of each prefix (`DescendKeeps`) and none
once the call is over (`DefineKeeps`).  `AttachedFollows` needs that no keymap has two conditions and that
each attached keymap was made (`Conditioned`): applying the conditions, last attached first, then leaves
each keymap as its only condition says (`ApplyKeeps`).

The calls fold over conditions, prefixes and binds of any number.  The library's induction takes an operator,
so the lemmas about folds argue by a least counterexample instead: `LeastElement` comes from the
well-foundedness of the naturals, `PlacesInduction` says for a *set* of good places what an induction would
for a predicate, and `FoldExists` that the function by which a fold is defined exists, so that `CHOOSE`
finds it.  `KeepIs` (what is left of a sequence), `DescendAllKeeps`, `ApplyKeeps` and `PressedLeads` follow
from these.

*Watch.*  A file is covered from the moment it is read in a watched directory until an event is
dropped, its directory goes or its link is changed.  `CoveredIsWatched` says that its place is then
noted and that its directory's watch is alive, so the next change queues an event with a name that is
looked for; `HookedIsNoted` that the place is noted already when the file is opened, which is why an
edit between the hook and the read is not lost either; and `DetachedReadNothing` that what a detached
plugin misses is nothing it has read.

*Layout.*  `CellsFit` is arithmetic: the rows are `n` divided by the columns and rounded up, an
index is columns times row plus column, so a row beyond the last would need an index of `n` or
more, and two indices with the same row and column are equal.  `RetiredPlaces` goes through the
actions: only an answer to a pass places a box, and boxes of any generation are accepted.  The
invariant behind it (`GoodStack`) says that a `'recalculate` pass that is under way was begun by the
provider of its workspace's algorithm in that provider's own generation, and that while this
generation is the current one the provider is the registered one: a pass begun since the last reload
is of an active provider, because `callLayout` asked for it, and no later call retires that one
without beginning a new generation.

The targets are tied to the workspaces of the windows by `Scene`.  The two differ in the middle of a
call: a window on its way to another workspace is in neither list (`Arrivals`), and after the first
half of a swap across workspaces one list has its new window while the other still has its old one
(`HalfSwaps`; there is one such swap at most, see section 9).
With each algorithm's list then known, a list without repetitions gives each of its windows one cell.
`FailedPassIsGrid` adds that the windows a failed pass placed stay in their cells, or that another
pass of that workspace is under way and will place them (`Grids`); `StepShape` classifies the steps
once, as requests of a pass, ends of one, and steps that lay out nothing, and serves it and
`OwnWindowsOnly`.

*Modes.*  The inductive invariant is `TypeOK /\ FilesOfTheRest /\ FlagsOfCalls /\ EffectsOutside`.
`FileFollows` speaks of the time when no call is under way; to carry it through nested calls,
`FlagsOfCalls` says that a call that no other call for its mode interrupted will write what the
flag is by then, and `FilesOfTheRest` that a mode with no call of its own under way agrees with its
file already, or is still waiting to be restored.  Hooks are constants of any shape here, so the
result holds for every config that sets modes from hooks.

`EvictionDecides` has an invariant of its own.  Two modes that evict each other can both be on, but
only while a call for one of them has still to reach the setting that turns the other off
(`EvictionsOfCalls`), or was cut short; of several calls for one mode only the innermost was not
interrupted (`AgainBelow`), so that one decides.  A mode that no hook turns off keeps the file it had
at the load, and is on from its turn in the restore on (`KeptOn`).

*RuleStaging.*  The inductive invariant adds `Numbered` and `CallOwns` to the properties: what has
not been called has nothing, a rule in progress is of its kind and registered, and the call under way
owns the rule in progress of its kind, which has everything the call has sent.  The last part is
what lets a commit give its handle a rule with the whole of the spec; that the rule in progress is of
its kind is what keeps an effect, which goes to the rule of its own kind, at home after a call that
was abandoned.

*Families.*  Each theorem has the part of the invariant that its family needs, and one lemma that the
other families leave it alone.

- `OwnReason` needs that a monitor call under way has a parser (`ParserBegun`): without one the field
  entry points refuse with a reason of the begin.
- `CallsOnArgument` follows from the types alone once the argument is resolved (`NamedIs`): an action
  on a handle and the wrapper name the same window, or none.  What a fullscreen call leaves goes by its
  action, and by whether a side that it was asked to keep makes the wrapper's guard miss.
- `LocksDrawn` (`GroupsSound`) needs that groups are numbered as they are made, hold open windows, and
  that only a group that exists has a lock: a new group then begins without one.
- `HandlersOutlasted` (`SpacesSound`) carries the waiting calls: a workspace that a move waits for was
  not created as empty, so the sweep passes it by (`Waits`), and a special workspace's call remembers
  the view it was decided on.
- `LocksFollowThePauses` counts: the locks of a notification that exists are the handles paused on it
  (`NotificationsSound`), and each of pausing, resuming, dismissing, finalizing and dying adds or
  removes one handle of that set, or none.
- `ThunksStayLocked` counts places, an object and a phase, because one object may carry a thunk in
  several phases; and it needs that a thunk that is called is carried by the object being performed
  (`FiredIsPerformed`), which holds its locks after its removal.
- `CallsWriteAsAsked` follows a call through its fields (`CallHolds`): what the parser has collected,
  with what is left of the call over it, is at every step the whole call over the output's rule.  What
  an abandoned call left in the parser is not in the way, because a begin seeds the parser anew.
- `ChordsRoundTrip` is a fact about two functions: the conversion to a physical key takes the first
  key, layout and level that carry the symbol; where these are such that a bind reaches them (`Placed`),
  the way back finds the same key by its base symbol, the same level by its modifiers, and takes off the
  modifiers that were put on.  That the first exists is the well-foundedness of the naturals.
- `TypeCorrect` puts the types of the families together; beside the parts above it needs that the
  focused window is open, that a workspace exists exactly while it has a monitor, and that a special
  workspace is shown on one monitor at most (`FocusOpen`, `GroupsRest`, `SpacesRest`).

Assumptions are the constants' own: `MaxGen \in Nat`, `Used \subseteq Kinds`
(`HostAssumption`), intervals are naturals and `None` is neither a timer nor an interval
(`TimerAssumption`), specs are sequences of items and `Anon` is no name (`RuleAssumption`), `None` is
no run, the period and the budgets are naturals, the period is not 0 and there is a longest budget
(`WatchdogAssumption`), the limit is not 0 (`DetectorAssumption`), a config loads at least one file,
each file stands for at least one place, and buffer and queue hold something (`WatchAssumption`),
windows are finite and `None` is neither a window nor a workspace (`LayoutAssumption`), `Order` lists
each mode once (`ModesAssumption`), `None` is no value, and no value is both good and bad
(`ConfigAssumption`), `Focused` is no window and `NoMode` is a mode (`WindowsAssumption`), there is a
monitor and `NoSpace` is none (`WorkspacesAssumption`), addresses are given out a natural number of
times (`HandlesAssumption`), a gesture shadows itself and `NoThunk` is no thunk (`GesturesAssumption`).
`KeysAssumption` says of xkbcommon's names what the conversions rely on: several symbols may print one
character (`plus`, `KP_Add`), and xkbcommon gives one of these for the character; a symbol that prints is
no named key and its name no event; no modifiers are the first way to a key's first level, and the levels of one
layout are reached by different modifiers.  The other bounds
(`MaxGroups`, `MaxCalls`, `MaxDepth`, `MaxTime`, `MaxEdits`, ...) are naturals of any size.

Of keymaps and key sequences `KeymapsAssumption` says what their names rely on: the configs' sequences are of
chords of the user, of which `s-G` and `catchall` are none (a config that binds or unbinds these two
by hand is outside the model), no word of a keymap's own submap is such a chord, and `Stay` names no
submap.  TLC checked the inductive invariant on the instance of `keymaps` first.

Only model-checked: liveness (`InnermostEnds`, `EditsArrive`, and `LoneReported`, the other half of
`HangsReportedOnce`), which needs fairness and `ENABLED`, and these the prover cannot treat.  Every
invariant and every action property of a passing run is proved for all values of the constants.

## 7 Where code and comments disagree

Two are runs, with the line they quote under `findings` in `PROJECT.json`:

| Run | The source says | The code does |
|---|---|---|
| `keymaps_prefix` | emacs-keymaps.scm:584-586, the disarm covers the prefix submaps too | it covers the keymap's own binds only |
| `modes_last` | emacs-keymaps.scm:1087-1089, if two files exist, the mode defined last wins the eviction | the first one's hook evicts the second and removes its file before the restore looks at it, so the first one stays |

The others are stated as definitions in their modules.  To see the counterexample, name the
definition as the only INVARIANT or PROPERTY of the module's `.cfg`.

| Definition | What happens |
|---|---|
| `Host!StartFiresAfterStartup` | event.scm:25 says that a handler registered after startup fires at once; a plugin loaded after startup never saw the start event and holds the handler for ever |
| `Host!StartOwned` | a start handler queued with `doLater` outlives the reload of its generation (Event.cpp:287 against Host.cpp:374) |
| `Host!TimersOwned` | without a config path, `reloadScheme` returns before it cancels timers (Host.cpp:342 against :353) |
| `Host!RulesOwned` | the re-attach's reload handler follows no reload of the compositor, so named rules stay (Host.cpp:345) |
| `Host!DetachedLeavesNoTimer` | `shutdown` does not cancel timers (Host.cpp:620) |
| `Host!FailedReloadKeepsGeneration` | a failed build has already dropped what the previous generation registered (Host.cpp:379) |
| `Timer!DisabledStaysOff` | timer.scm:29 says `#t/#f set`; a repeating timer that disables itself is armed again when its callback returns |
| `RuleStaging!LayerMatchesStayHome` | layer.scm:28-30, a layer rule matches what its own `#:match` says; after a window rule failed half way the matches go to that window rule |
| `Watchdog!ZeroDisables` | a budget of 0 abandons everything (kernel.scm:723) |
| `Watchdog!AlarmRestored` | `hl--wd-alarm` answers its argument, so the outermost exit arms the alarm (kernel.scm:738) |
| `Watchdog!EveryRunEnds` | a loop that dispatches more often than the period is never abandoned |
| `Watchdog!NestedRestored` | kernel.scm:776-777 says that nested dispatches save and restore the outer alarm state; a nested run that is over its budget when an async lands between its enter and its entry in the wind list is left without an exit, and the outer one goes on with its handler and an entry too many on the stack (kernel.scm:755) |
| `Detector!BackstopReports` | a callback that starts between two polls after a reported one is not reported |
| `Detector!OuterReported` | a nested exit clears the outer start |
| `Detector!NamesTheStuckOne` | the line may name another callback |
| `Keymaps!ModeIsEntered` | define-key!'s own exit leaves the submap the thunk has just entered (emacs-keymaps.scm:385 against :523) |
| `Keymaps!ModeNotTrapped` | a mode keymap that is disarmed disarms its own `s-G` (:473) |
| `Watch!LoadedIsWatched` | watch.scm:55-57 says that the loaded files are the paths whose changes reload the config; a directory that was gone, or made again, is not watched |
| `Layout!NeverMisplaced` | a callback that moves a window away and then answers a box for it places it in its old workspace (SchemeLayout.cpp:371) |
| `Layout!BoxTypeRebuilt` | SchemeLayout.cpp:228-229 says that a reload rebuilds the module and with it the record type of boxes; the type is made once in a process (core.scm:47, init.scm:15-17), and a pass whose callback reloads places the boxes made before |
| `Layout!RetiredIsDeactivated` | a resize does not ask whether the provider is active (SchemeLayout.cpp:131) |
| `Modes!FileIsTheMode` | a mode that is set inside its own call leaves the file of the outer one (emacs-keymaps.scm:844) |
| `Modes!FlagAndEffectsAgree` | a hook that raises leaves the flag without its effects (emacs-keymaps.scm:809) |
| `Notification!PausedUntilDismissed` | notification.scm:159 says that a paused notification stays until dismissed; once the handle it was paused through is dropped, the finalizer resumes it |
| `Notification!ResumedRuns` | `#:on? #f` through another handle than the one that paused does nothing |
| `Windows!SetTwiceIsOnce` | window.scm:465-468 says that the guards make `'set` called twice idempotent; with `'keep` for a side the guard compares -1 with a mode and never holds: the second `'set` takes the fullscreen off, and `'unset` does nothing (window.scm:474) |
| `Windows!DeadIsRefused` | a fullscreen call on a dead handle answers success |
| `Groups!LockIsAlwaysDrawn` | group.scm:93 calls the lock through a window the same operation as the one through the group; it tells that window only, and the other members draw the old lock |
| `Groups!ArgumentIsUsed` | `hl-window-deny-from-group!` looks at the focused window, whatever it is given |
| `Workspaces!SpecialAlwaysAsAsked` | a created-handler that opens the special workspace has it closed again by the toggle that created it |
| `Workspaces!DeadFailsCleanly` | workspace.scm:164 says that a dead handle fails cleanly; on a monitor it closes the special workspace that is open |
| `Workspaces!NoCrash` | a move of a window that is gone to a workspace that is missing creates it on the monitor of a null window |
| `Keys!KeysAlwaysRoundTrip` | a symbol of the keypad comes back as the other key with its character; a symbol that only the second layout has is bound where it is not typed; a modifier of the user's that selects a level of the key is taken for part of the symbol |
| `Errors!RaisedIsAlwaysOwn` | `hl-group-add!` and `hl-group-remove!` on a dead group, and `hl-exec!` when the process cannot be spawned, raise the reason of an earlier call |

`Handles!DeadStaysDead` and `Notification!PinnedStays` hold in the same way, but follow from the weak
reference and from `LocksAreThePauses`, so no run is spent on them.

More that was met while reading needs no model:

- a layout without a `'resize` callback falls back to `'recalculate` with five arguments where the
  contract has two (kernel.scm:1103-1111), so that a callback of the documented shape raises and the
  pass is done again without the resize;
- `hl-loaded-files` answers the oldest file first where its documentation says the most recent
  (watch.scm:55, :62), and `hl-keymap-add!` arms a bind in a disabled keymap although "the flag and
  the binds cannot disagree" (bind.scm:335);
- `hl-spring-curve-add!` refuses exactly 0.5, and its message says ">= 0.5" (Config.cpp:591);
- `windowMatchesSelector` matches every window with a selector that it does not recognise
  (Query.cpp:175); a selector by address may name a later window at that address;
- `hlLayers` with a handle of a monitor that is gone lists the layers of all (Layer.cpp:132);
- a device field accepts NaN, which no range excludes (Config.cpp:319);
- `hl-gesture-remove!` with an old handle removes whatever is registered under that spec now
  (Gesture.cpp:312); `hl-group-window-move-next!` ignores its window;
- `hl-workspace-special-set!` answers 0 rather than `#t` when there is nothing to do;
- the modifier tokens of `hl-send-key!` map `MOD2` to the bit of `SUPER` (Exec.cpp:294), where the
  table of binds has them apart (Bind.cpp:316);
- `"%"` and `"percent"` name one key and have different canonical forms.

## 8 Assumptions about the outside

What is not in this repository is modelled from how it is used, and marked `external` in the map:

- the compositor reloads its own config around `config.preReload` and `config.reloaded`, clears
  its binds and its named rules then, and leaves the current submap;
- a key fires every armed bind of the current submap on it, in the order of registration, all of
  them found before the first one runs, and the catchalls if there is none; a submap without a
  bind is refused;
- whether `hl-config-reload!` reloads within the call or later is unknown: `Watch` allows both,
  `Host` lets a reload begin from the loop, and `Watchdog` and `Layout` allow it inside a callback's call;
- hyprutils drops a listener when its handle is reset; emission to a listener that goes away during
  the emission is not modelled;
- Guile runs asyncs at procedure entries and never inside a foreign call;
- the compositor asks an algorithm for a pass at any moment, refreshes workspaces between passes
  only, and answers a move across workspaces with a removal and then an addition;
- a compositor action whose optional window is absent acts on the focused one; the fullscreen action
  leaves alone a side that is to be kept, and clears a window that has what is asked of the others; a group hands each member's decoration a copy of its
  lock; a workspace made by a call is announced at once, and one made as empty may be swept when
  nothing is on it;
- the gesture manager owns an object from its birth, refuses one whose spec shadows another's, and
  may go on with one that it no longer lists; xkbcommon gives each key its symbols by layout and level, and
  a state made afresh is of the first layout;
- Guile queues a dropped wrapper's finalizer at a collection and runs it on the main thread later;
- inotify queues an event for each change to a watched directory until its limit, then drops them,
  and a watch dies with its directory; `%load-hook` is called before the file is opened.

## 9 Not modelled

Listed as components with their reason in `PROJECT.json`: the survive list (one variable, moved in and
out at a reload), enums and values (tables), the deprecated Chez prototype under `src/chez`, which
is more than a third of the repository's C++ and is built into nothing, and the tools and tests.  In
the modelled parts, left out are: the text of errors, banners and logs; the flags of a bind and
device filters; what each event's payload carries; the parsing of whole key sequences; the lighter
and the words of a mode's notification, and two modes that share a name and so a file; a layout's
open and close callbacks, its error notification and `getNextCandidate`; a script that moves a
window in the middle of a swap across workspaces; gestures' ownership by generation (they are not
among the kinds of `Host`); the contents of the getters of windows, layers and monitors, geometry,
and `hl-workspace-id-set!`, which hands its arguments on; `hl-window-fullscreen-set!` asked for `'keep` or for
a mode by its number; levels with several symbols, the transformation of Caps Lock, and keymaps that change between a
chord's binding and its description; the table of modifier tokens of
`hl-send-key!`; the search for the config's path and the scheme directory; reading a file while it
changes, which is a read of a partial file here; bare `(load ...)`, whose error ends the config where
`hl-load` does not.  The files of a config that are reached through a link that is made to point
elsewhere, and those read before an overflow, are outside `NoEditLost` and `EditsArrive`: the code has no answer to
either.  A listener that goes away during the emission to it (`Event.cpp:443`) has no model.  Two things
are modelled and promised nothing about: a bind record that is registered twice, whose handle reaches the
first registration only (`Bind.cpp:173`, `HlKeymapAddAgain`), and the tags of the focused window changing
without an event that makes the conditions of keymaps be looked at again (`emacs-keymaps.scm:750`), which
`AttachedFollows` excludes (`unseen`).

## 10 Plan

In the order of their weight; the first nine groups are done, with their safety properties proved.

1. `Host` with `Generations`, and their proofs.  *Done.*
2. `Timer` and its proofs.  *Done.*
3. `RuleStaging`, `Watchdog`, `Detector`.  *Done; their safety properties are proved.*
4. `Keymaps`: binds, keymaps, prefix chains, conditions.  *Done and proved.*
5. `Watch`: loaded files against a changing file system.  *Done, safety proved.*
6. `Layout`: providers against the compositor's targets, passes inside passes, a resize after a
   reload.  *Done and proved.*
7. `Modes`: hooks, state files, colours, restore after a reload or a crash.  *Done and proved.*
8. `Notification` with `Handles` and `Errors`.  *Done and proved.*
9. `Config`, `Windows`, `Groups`, `Workspaces`, `Gestures`, `Keys` and their composition `Families`.
   *Done and proved.*
10. The composition of `Keymaps` and `Modes`: a mode hook that arms and disarms keymaps in the middle
    of a key sequence.
11. The tags of the focused window in `AttachedFollows`, should the compositor or the plugin get an event for
    them: `unseen` would then lose its second reason.

## 11 How to run it

    tlc -workers 2 -config MCHost.cfg MCHost
    tlapm Host_proofs.tla

and likewise for the other runs of `PROJECT.json`.  The longest runs take about three minutes.  `Families` is
checked with `MCFamilies`; to see a claim of section 7 refuted, name it in the module's `.cfg` in place of the
properties that are there.
