-------------------------------- MODULE Host --------------------------------
(* The plugin host: the life of the Scheme side inside one compositor          *)
(* process (src/cpp/Host.cpp, with the start dispatch and the subscription      *)
(* boundary of src/cpp/Event.cpp).                                              *)
(*                                                                              *)
(* The Scheme side is rebuilt from source on every config reload; each build is  *)
(* a GENERATION, numbered here in the order they are swapped in.  What scripts   *)
(* register with the compositor is abstracted to WHICH generations own a live    *)
(* registration of each kind: `reg[k]` is the set of the generations that were   *)
(* current when some registration of kind k, still live, was made.  What a       *)
(* handler does is whatever the script actions below do between two steps.       *)
(*                                                                              *)
(* Everything runs on the compositor's event-loop thread, so a step is one       *)
(* uninterrupted stretch of that thread; `phase` says how far a config reload    *)
(* has come, because scripts run in the middle of one.                           *)
EXTENDS Naturals

CONSTANTS
    MaxGen,  \* bound on the generations built in the life of the process
    Used     \* the kinds of registration the user's scripts make

\* The places a script's registration can live in.
Kinds == { "event",      \* g_eventConnections, every bus event but the next one
           "preReload",  \* g_eventConnections, config.preReload (hl-config-unload)
           "timer",      \* g_timerIndex and the event loop's timer list
           "pending",    \* g_pendingStart
           "later",      \* start handlers queued with doLater
           "layout",     \* g_layouts, active providers
           "named",      \* the rule engine's rules with a name
           "anon",       \* the rule engine's rules without one
           "bind" }      \* binds in the compositor's registry tagged "scheme:"

ASSUME HostAssumption == MaxGen \in Nat /\ Used \subseteq Kinds

Gens   == 1 .. MaxGen
Phases == { "idle",       \* the event loop is between two callbacks
            "preReload",  \* the compositor is emitting config.preReload
            "reload",     \* the host's reload handler is about to run
            "load" }      \* hl--load-config is evaluating the config
Stages == { "early", "socket", "ready", "started" }

VARIABLES
    up,              \* g_up
    done,            \* init's static `done`
    cfgPath,         \* g_configPath is not empty
    gen,             \* g_generation; 0 is SCM_BOOL_F
    ready,           \* the kernel's hl--ready
    ipc,             \* "none", "deferred" (g_ipcReadyListener), "registered"
    reloadListener,  \* g_reloadListener holds a connection
    startListeners,  \* the connections in g_lifecycleListeners
    startSeen,       \* g_startSeen
    reg,             \* live registrations, by kind: the generations owning one
    errors,          \* hl--config-errors is not empty
    banner,          \* the overlay the kernel asked for is up
    broken,          \* history: a file of this load of the config failed
    phase,
    stage            \* how far the session's startup has come (compositor)

plugin  == <<up, done, cfgPath, gen, ready, ipc, reloadListener, startListeners>>
report  == <<errors, banner, broken>>
vars    == <<plugin, startSeen, reg, report, phase, stage>>

Init ==
    /\ up = FALSE /\ done = FALSE /\ cfgPath = FALSE
    /\ gen = 0 /\ ready = FALSE
    /\ ipc = "none" /\ reloadListener = FALSE /\ startListeners = 0
    /\ startSeen = FALSE
    /\ reg = [k \in Kinds |-> {}]
    /\ errors = FALSE /\ banner = FALSE /\ broken = FALSE
    /\ phase = "idle"
    /\ stage = "early"

------------------------------------------------------------------------------
(* Helpers *)

\* The registrations left once those of the kinds in K are torn down.
Without(K) == [k \in Kinds |-> IF k \in K THEN {} ELSE reg[k]]

\* shutdownEvents: every subscription of a script.
Subscriptions == {"event", "preReload"}

\* clearSchemeRules unregisters the rules without a name and forgets the others.
RulesCleared == {"anon"}

\* Mutants of ReloadDrops: the handler forgets cancelAllTimers, dropEventHandlers.
ReloadDropsNoTimers == RulesCleared \cup Subscriptions \cup {"layout", "pending"}
ReloadDropsNoEvents == RulesCleared \cup {"timer", "layout", "pending"}

\* reloadScheme, before the new generation is built: clearSchemeRules,
\* cancelAllTimers, dropEventHandlers, Layouts::clear, forgetPendingStart.
ReloadDrops == RulesCleared \cup {"timer"} \cup Subscriptions
                 \cup {"layout"} \cup {"pending"}

\* Mutant of ShutdownDrops: the tagged binds are left in the registry.
ShutdownDropsNoBinds == Subscriptions \cup {"layout"}

\* shutdown: shutdownEvents, Layouts::clear and the binds tagged "scheme:".
ShutdownDrops == Subscriptions \cup {"layout", "bind"}

\* buildGeneration, every step done: hl--ready is set and the module swapped in.
BuildOk ==
    /\ gen < MaxGen
    /\ gen' = gen + 1
    /\ ready' = TRUE

\* buildGeneration giving up: without a machinery directory or a module nothing
\* has changed; when init.scm fails hl--ready was already cleared.
BuildFail ==
    /\ gen' = gen
    /\ ready' \in {ready, FALSE}

\* Mutant of RegisterIpc: without a socket the registration is skipped.
RegisterIpcSkips ==
    ipc' = IF stage = "early" /\ ipc # "registered" THEN ipc ELSE "registered"

\* registerIpc: with no command socket yet the registration waits for `ready`.
RegisterIpc ==
    ipc' = CASE ipc = "registered"  -> ipc
             [] stage = "early"     -> "deferred"
             [] OTHER               -> "registered"

------------------------------------------------------------------------------
(* The plugin: entry, exit and the reload handler *)

\* attachInterp succeeding, and what both branches of init do after it.
Attach ==
    /\ phase = "idle"
    /\ BuildOk
    /\ up' = TRUE
    /\ RegisterIpc
    /\ reloadListener' = TRUE
    /\ startListeners' = startListeners + 1

\* init, the first time: the config path is fixed here, and the config loaded
\* when there is a file at it.
FirstInit ==
    /\ ~done
    /\ done' = TRUE
    /\ Attach
    /\ cfgPath' = TRUE
    /\ phase' \in {"reload", "idle"}
    /\ UNCHANGED <<startSeen, reg, report, stage>>

\* init after an unload: a second attach to the live interpreter, then the
\* reload handler, called directly, which returns at once without a config path.
Reattach ==
    /\ done /\ ~up
    /\ Attach
    /\ phase' = IF cfgPath THEN "reload" ELSE "idle"
    /\ UNCHANGED <<done, cfgPath, startSeen, reg, report, stage>>

\* init when attachInterp fails: `done` is set before the attempt, the config
\* path only after it.
AttachFails ==
    /\ phase = "idle" /\ ~up
    /\ done' = TRUE
    /\ BuildFail
    /\ UNCHANGED <<up, cfgPath, ipc, reloadListener, startListeners, startSeen,
                   reg, report, phase, stage>>

\* shutdown: the interpreter stays, what points into the module is unregistered.
Shutdown ==
    /\ phase = "idle" /\ up
    /\ up' = FALSE
    /\ ipc' = "none"
    /\ reloadListener' = FALSE
    /\ startListeners' = 0
    /\ reg' = Without(ShutdownDrops)
    /\ UNCHANGED <<done, cfgPath, gen, ready, startSeen, report, phase, stage>>

\* reloadScheme up to the config: everything the outgoing generation registered
\* goes, the next generation is built, and hl--load-config begins by clearing
\* the error list.
ReloadScheme ==
    /\ phase = "reload"
    /\ reg' = Without(ReloadDrops)
    /\ BuildOk
    /\ phase' = "load"
    /\ errors' = FALSE
    /\ broken' = FALSE
    /\ UNCHANGED <<up, done, cfgPath, ipc, reloadListener, startListeners, startSeen,
                   banner, stage>>

\* reloadScheme when buildGeneration fails: the registrations are already gone
\* and no config is loaded.
ReloadSchemeFails ==
    /\ phase = "reload"
    /\ reg' = Without(ReloadDrops)
    /\ BuildFail
    /\ phase' = "idle"
    /\ UNCHANGED <<up, done, cfgPath, ipc, reloadListener, startListeners, startSeen,
                   report, stage>>

\* hl--load-config when the config itself raises: hl--report-config records the
\* error and puts the banner up; the answer is #f.
LoadRaises ==
    /\ phase = "load"
    /\ errors' = TRUE /\ broken' = TRUE
    /\ banner' = TRUE
    /\ phase' = "idle"
    /\ UNCHANGED <<plugin, startSeen, reg, stage>>

\* Mutant of LoadDone: a load that did not raise counts as clean.
LoadDoneUnlessRaised ==
    /\ phase = "load"
    /\ banner' = FALSE /\ errors' = FALSE
    /\ phase' = "idle"
    /\ UNCHANGED <<plugin, startSeen, reg, broken, stage>>

\* hl--load-config answers whether nothing was recorded; the host then calls
\* hl--report-config-ok, which takes the banner down.
LoadDone ==
    /\ phase = "load"
    /\ banner' = errors
    /\ phase' = "idle"
    /\ UNCHANGED <<plugin, startSeen, reg, errors, broken, stage>>

------------------------------------------------------------------------------
(* Scripts: the config while it loads, a handler or an eval between callbacks,  *)
(* a config.preReload handler while the compositor emits that event.            *)

\* Mutant of ScriptRuns: a gsubr without the `!g_up` guard.
ScriptRunsDetached == phase \in {"idle", "load"}

ScriptRuns ==
    /\ up
    /\ \/ phase = "load"
       \/ phase = "preReload" /\ reg["preReload"] # {}
       \/ phase = "idle" /\ (ipc = "registered" \/ \E k \in Kinds : reg[k] # {})

\* A gsubr storing a registration of kind k made by the current generation.
Owns(k) ==
    /\ ScriptRuns
    /\ k \in Used
    /\ reg' = [reg EXCEPT ![k] = @ \cup {gen}]
    /\ UNCHANGED <<plugin, startSeen, report, phase, stage>>

EventListen      == Owns("event")
ConfigUnloadListen == Owns("preReload")
TimerAdd         == Owns("timer")
LayoutAdd        == Owns("layout")
WindowRuleBegin  == Owns("named") \/ Owns("anon")
BindAdd          == Owns("bind")

\* Mutant of StartListen: every handler is held.
StartListenHolds == Owns("pending")

\* hlSchemeLifecycleListen, the start event: held until the dispatch, or queued
\* for the next pass of the loop once the dispatch has run.
StartListen == IF startSeen THEN Owns("later") ELSE Owns("pending")

\* hl-event-cancel! on the last subscription of the current generation.
EventCancel ==
    /\ ScriptRuns
    /\ \E k \in Subscriptions :
         /\ gen \in reg[k]
         /\ reg' = [reg EXCEPT ![k] = @ \ {gen}]
    /\ UNCHANGED <<plugin, startSeen, report, phase, stage>>

\* hl-load of a file that raises: recorded and reported, the caller goes on.
NestedLoadRaises ==
    /\ ScriptRuns
    /\ errors' = TRUE /\ broken' = TRUE
    /\ banner' = TRUE
    /\ UNCHANGED <<plugin, startSeen, reg, phase, stage>>

------------------------------------------------------------------------------
(* The event loop and the compositor *)

\* A timer's entry goes: a one-shot fired, hl-timer-cancel!, or a timer that
\* fired while the plugin was detached and so failed.
TimerEnds ==
    /\ phase = "idle" \/ ScriptRuns
    /\ \E g \in reg["timer"] : reg' = [reg EXCEPT !["timer"] = @ \ {g}]
    /\ UNCHANGED <<plugin, startSeen, report, phase, stage>>

\* The next pass of the loop runs what doLater queued.
RunLater ==
    /\ phase = "idle" /\ reg["later"] # {}
    /\ reg' = Without({"later"})
    /\ UNCHANGED <<plugin, startSeen, report, phase, stage>>

\* Socket1 is created.
OpenSocket ==
    /\ phase = "idle" /\ stage = "early"
    /\ stage' = "socket"
    /\ UNCHANGED <<plugin, startSeen, reg, report, phase>>

\* The ready event: the deferred registration of the command runs.
EmitReady ==
    /\ phase = "idle" /\ stage = "socket"
    /\ stage' = "ready"
    /\ IF ipc = "deferred" THEN RegisterIpc ELSE ipc' = ipc
    /\ UNCHANGED <<up, done, cfgPath, gen, ready, reloadListener, startListeners,
                   startSeen, reg, report, phase>>

\* The start event, emitted once in a session: registerStartDispatch's listener,
\* if one is connected, marks it seen and fires the handlers held for it.
EmitStart ==
    /\ phase = "idle" /\ stage = "ready"
    /\ stage' = "started"
    /\ IF startListeners > 0
       THEN startSeen' = TRUE /\ reg' = Without({"pending"})
       ELSE UNCHANGED <<startSeen, reg>>
    /\ UNCHANGED <<plugin, report, phase>>

\* The compositor starts a config reload by emitting config.preReload.
BeginReload ==
    /\ phase = "idle" /\ gen < MaxGen
    /\ phase' = "preReload"
    /\ UNCHANGED <<plugin, startSeen, reg, report, stage>>

\* The compositor clears its binds and rules, reads its own config, and emits
\* config.reloaded, to which the host answers if it is connected, up and has a
\* config path.
Reparse ==
    /\ phase = "preReload"
    /\ reg' = Without({"bind", "named", "anon"})
    /\ phase' = IF reloadListener /\ up /\ cfgPath THEN "reload" ELSE "idle"
    /\ UNCHANGED <<plugin, startSeen, report, stage>>

------------------------------------------------------------------------------
Plugin     == FirstInit \/ Reattach \/ AttachFails \/ Shutdown
                \/ ReloadScheme \/ ReloadSchemeFails \/ LoadRaises \/ LoadDone
Scripts    == EventListen \/ ConfigUnloadListen \/ TimerAdd \/ LayoutAdd
                \/ WindowRuleBegin \/ BindAdd \/ StartListen \/ EventCancel
                \/ NestedLoadRaises
Compositor == TimerEnds \/ RunLater \/ OpenSocket \/ EmitReady \/ EmitStart
                \/ BeginReload \/ Reparse

Next == Plugin \/ Scripts \/ Compositor

Spec == Init /\ [][Next]_vars

------------------------------------------------------------------------------
(* Properties *)

\* The values of the variables.
TypeOK ==
    /\ up \in BOOLEAN /\ done \in BOOLEAN /\ cfgPath \in BOOLEAN
    /\ gen \in 0 .. MaxGen
    /\ ready \in BOOLEAN
    /\ ipc \in {"none", "deferred", "registered"}
    /\ reloadListener \in BOOLEAN
    /\ startListeners \in Nat
    /\ startSeen \in BOOLEAN
    /\ reg \in [Kinds -> SUBSET Gens]
    /\ errors \in BOOLEAN /\ banner \in BOOLEAN /\ broken \in BOOLEAN
    /\ phase \in Phases /\ stage \in Stages

\* What a reload is trusted to discard.
Bounded == Kinds \ {"later", "named"}

\* Once a config path is known, every callback and registration that can still
\* act belongs to the current generation: no handler, timer, held start handler,
\* layout, bind or rule without a name of a discarded generation is left, on any
\* order of reloads, failed builds, unloads and re-attaches (Host.cpp reloadScheme
\* and shutdown).  Inside the reload handler, before it has cleared anything, the
\* timers of an unloaded generation may still be there.
OwnedByGeneration ==
    up /\ cfgPath /\ phase # "reload" =>
        \A k \in Bounded : reg[k] \subseteq {gen}

\* What a script hooks into the compositor's buses and registries.
HookKinds == {"event", "preReload", "layout", "bind"}

\* A detached plugin has no command, listener, subscription, layout or bind left
\* in the compositor, whatever was registered before and however often it was
\* attached (Host.cpp shutdown).
DetachedLeavesNothing ==
    ~up => /\ ipc = "none" /\ ~reloadListener /\ startListeners = 0
           /\ \A k \in HookKinds : reg[k] = {}

\* An attached plugin has one reload listener and one start listener, never a
\* second after a re-attach, and its command is registered as soon as startup has
\* passed the ready event, however the attach and the event interleave
\* (registerIpc, registerStartDispatch).
AttachedOnce ==
    up => /\ reloadListener /\ startListeners = 1
          /\ stage \in {"ready", "started"} => ipc = "registered"

\* Both: after any history of loads and unloads the plugin is in the compositor
\* wholly or not at all.
AttachmentWhole == DetachedLeavesNothing /\ AttachedOnce

\* Outside a load the banner is up exactly when a file of the current config
\* failed, be it the config or a file it pulled in, and hl--config-errors agrees:
\* a nested failure does not let the load that survived it take the banner down
\* (kernel.scm hl--load-config).
BannerIsTrue ==
    phase # "load" => (banner = broken /\ errors = broken)

\* No start handler waits for a dispatch that has already run: once the event was
\* seen a new handler is queued instead of held (Event.cpp hlSchemeLifecycleListen).
StartNotStranded == startSeen => reg["pending"] = {}

\* The host implements the promise, for what scripts hook into the compositor's
\* buses and registries: subscriptions, layouts and binds (timers are left out:
\* see TimersOwned).
Hooked == UNION {reg[k] : k \in HookKinds}
Promise == INSTANCE Generations WITH attached <- up, live <- Hooked
KeepsPromise == Promise!Spec

------------------------------------------------------------------------------
(* What the source says of itself and the runs refute *)

\* Event.cpp:454 and Host.cpp:373: a start handler belongs to the generation that
\* registered it and is not replayed into a later one.
StartOwned == up /\ cfgPath /\ phase # "reload" => reg["later"] \subseteq {gen}

\* Host.cpp:353: timers from the previous generation must not fire into the new
\* one, with a config path or without.
TimersOwned == up /\ phase # "reload" => reg["timer"] \subseteq {gen}

\* event.scm:24: handlers registered after startup fire at once; none is held
\* for a start event that will not come again.
StartFiresAfterStartup == stage = "started" => reg["pending"] = {}

\* Host.cpp:345: the rule engine holds no rule of an earlier generation once the
\* reload handler has run.
RulesOwned == phase = "load" => reg["named"] \cup reg["anon"] \subseteq {gen}

\* Host.cpp:620: everything pointing into the module is unregistered at unload.
DetachedLeavesNoTimer == ~up => reg["timer"] = {}

\* Host.cpp:378: a reload whose build fails leaves the previous generation in
\* place, with what it had registered.
FailedReloadKeepsGeneration ==
    [][phase = "reload" /\ phase' = "idle" => reg'["event"] = reg["event"]]_vars

=============================================================================
