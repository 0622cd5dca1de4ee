----------------------------- MODULE Host_proofs -----------------------------
(* Proofs about Host.tla, for every bound on the generations and every set of   *)
(* registrations the scripts make, and about the timers it counts (Timer.tla).  *)
EXTENDS Host, Timer, TLAPS

\* Before the first init nothing exists.
Untouched ==
    ~done => /\ ~up /\ ~cfgPath
             /\ \A k \in Kinds : reg[k] = {}

\* The control points of a reload: its handler runs in an attached plugin with a
\* config path, after the binds are gone; the config loads in an attached one.
Control ==
    /\ phase = "reload" => up /\ cfgPath /\ reg["bind"] = {}
    /\ phase = "load" => up

\* What scripts hook belongs to the generation at every point of a reload, with a
\* config path or without.
HooksOwned == up => \A k \in HookKinds : reg[k] \subseteq {gen}

\* The command registration is done or waiting for the ready event.
IpcWaits ==
    up => \/ ipc = "registered"
          \/ ipc = "deferred" /\ stage \in {"early", "socket"}

\* The error list and the history agree, and what failed in a load still running
\* has put the banner up.
ErrorsTold ==
    /\ errors = broken
    /\ broken => banner
    /\ phase # "load" => banner = broken

------------------------------------------------------------------------------
\* Type correctness is inductive but for one fact: a script, which registers in
\* the name of the current generation, runs only once there is one.
TypeInv == TypeOK /\ (up => gen \in Gens)

\* Tearing registrations down leaves a registration table.
LEMMA WithoutType ==
    ASSUME NEW K, reg \in [Kinds -> SUBSET Gens]
    PROVE  Without(K) \in [Kinds -> SUBSET Gens]
  BY DEF Without

\* A build that succeeds leaves a generation within the bound.
LEMMA BuildType ==
    ASSUME gen \in 0 .. MaxGen, BuildOk
    PROVE  gen' \in 0 .. MaxGen /\ gen' \in Gens /\ ready' = TRUE
  BY HostAssumption DEF BuildOk, Gens

\* So does one that fails.
LEMMA BuildFailType ==
    ASSUME ready \in BOOLEAN, BuildFail
    PROVE  gen' = gen /\ ready' \in BOOLEAN
  <1>1. ready' = ready \/ ready' = FALSE
    BY Zenon DEF BuildFail
  <1>2. QED
    BY <1>1 DEF BuildFail

\* Taking one generation out of the owners of a kind leaves a table.
LEMMA RemoveType ==
    ASSUME reg \in [Kinds -> SUBSET Gens], NEW k \in Kinds, NEW g
    PROVE  [reg EXCEPT ![k] = @ \ {g}] \in [Kinds -> SUBSET Gens]
  OBVIOUS

\* The type invariant, strengthened, is preserved by every step.
LEMMA TypeStep == TypeInv /\ [Next]_vars => TypeInv'
  <1> SUFFICES ASSUME TypeInv, [Next]_vars PROVE TypeInv'
    OBVIOUS
  <1> USE HostAssumption DEF TypeInv, TypeOK, Phases, Stages, plugin, report
  <1>1. CASE FirstInit
    BY <1>1, BuildType DEF FirstInit, Attach, RegisterIpc
  <1>2. CASE Reattach
    BY <1>2, BuildType DEF Reattach, Attach, RegisterIpc
  <1>3. CASE AttachFails
    BY <1>3, BuildFailType DEF AttachFails
  <1>4. CASE Shutdown
    BY <1>4, WithoutType DEF Shutdown
  <1>5. CASE ReloadScheme
    <2>1. reg' \in [Kinds -> SUBSET Gens]
      BY <1>5, WithoutType DEF ReloadScheme
    <2>2. QED
      BY <1>5, <2>1, BuildType DEF ReloadScheme
  <1>6. CASE ReloadSchemeFails
    <2>1. reg' \in [Kinds -> SUBSET Gens]
      BY <1>6, WithoutType DEF ReloadSchemeFails
    <2>2. QED
      BY <1>6, <2>1, BuildFailType DEF ReloadSchemeFails
  <1>7. CASE LoadRaises
    BY <1>7 DEF LoadRaises
  <1>8. CASE LoadDone
    BY <1>8 DEF LoadDone
  <1>9. CASE EventListen
    BY <1>9 DEF EventListen, Owns, ScriptRuns
  <1>10. CASE ConfigUnloadListen
    BY <1>10 DEF ConfigUnloadListen, Owns, ScriptRuns
  <1>11. CASE TimerAdd
    BY <1>11 DEF TimerAdd, Owns, ScriptRuns
  <1>12. CASE LayoutAdd
    BY <1>12 DEF LayoutAdd, Owns, ScriptRuns
  <1>13. CASE WindowRuleBegin
    BY <1>13 DEF WindowRuleBegin, Owns, ScriptRuns
  <1>14. CASE BindAdd
    BY <1>14 DEF BindAdd, Owns, ScriptRuns
  <1>15. CASE StartListen
    BY <1>15 DEF StartListen, Owns, ScriptRuns
  <1>16. CASE EventCancel
    <2>1. Subscriptions \subseteq Kinds
      BY DEF Subscriptions, Kinds
    <2>2. reg' \in [Kinds -> SUBSET Gens]
      BY <1>16, <2>1, RemoveType DEF EventCancel
    <2>3. QED
      BY <1>16, <2>2 DEF EventCancel
  <1>17. CASE NestedLoadRaises
    BY <1>17 DEF NestedLoadRaises, ScriptRuns
  <1>18. CASE TimerEnds
    <2>1. "timer" \in Kinds
      BY DEF Kinds
    <2>2. reg' \in [Kinds -> SUBSET Gens]
      BY <1>18, <2>1, RemoveType DEF TimerEnds
    <2>3. QED
      BY <1>18, <2>2 DEF TimerEnds
  <1>19. CASE RunLater
    BY <1>19, WithoutType DEF RunLater
  <1>20. CASE OpenSocket
    BY <1>20 DEF OpenSocket
  <1>21. CASE EmitReady
    BY <1>21 DEF EmitReady, RegisterIpc
  <1>22. CASE EmitStart
    <2>1. reg' \in [Kinds -> SUBSET Gens]
      BY <1>22, WithoutType DEF EmitStart
    <2>2. startSeen' \in BOOLEAN /\ stage' \in Stages
      BY <1>22 DEF EmitStart
    <2>3. UNCHANGED <<plugin, report, phase>>
      BY <1>22 DEF EmitStart
    <2>4. QED
      BY <2>1, <2>2, <2>3
  <1>23. CASE BeginReload
    BY <1>23 DEF BeginReload
  <1>24. CASE Reparse
    BY <1>24, WithoutType DEF Reparse
  <1>25. CASE UNCHANGED vars
    BY <1>25 DEF vars
  <1>26. QED
    BY <1>1, <1>2, <1>3, <1>4, <1>5, <1>6, <1>7, <1>8, <1>9, <1>10, <1>11, <1>12, <1>13, <1>14, <1>15, <1>16, <1>17, <1>18, <1>19, <1>20, <1>21, <1>22, <1>23, <1>24, <1>25 DEF Next, Plugin, Scripts, Compositor

------------------------------------------------------------------------------
\* The flags of the connections, the errors and the start dispatch.
Flags ==
    /\ Untouched
    /\ Control
    /\ DetachedLeavesNothing
    /\ up => reloadListener /\ startListeners = 1
    /\ IpcWaits
    /\ ErrorsTold
    /\ StartNotStranded

\* A registration by a script touches none of them, provided a start handler is
\* held only while the event is not seen.
LEMMA OwnsFlags ==
    ASSUME TypeOK, Flags, NEW k \in Kinds, Owns(k), k = "pending" => ~startSeen
    PROVE  Flags'
  <1> USE DEF Owns, ScriptRuns, plugin, report
  <1>1. up /\ up' /\ done' = done /\ phase' = phase /\ phase # "reload"
    BY DEF Flags
  <1>2. Untouched' /\ Control' /\ DetachedLeavesNothing'
    BY <1>1 DEF Flags, Untouched, Control, DetachedLeavesNothing
  <1>3. StartNotStranded'
    BY DEF Flags, StartNotStranded, TypeOK, Kinds
  <1>4. QED
    BY <1>1, <1>2, <1>3 DEF Flags, IpcWaits, ErrorsTold

\* Those flags are preserved by every step.
LEMMA FlagsStep == TypeOK /\ Flags /\ [Next]_vars => Flags'
  <1> SUFFICES ASSUME TypeOK, Flags, [Next]_vars PROVE Flags'
    OBVIOUS
  <1> USE DEF Flags, Untouched, Control, DetachedLeavesNothing, ShutdownDrops, HookKinds, Subscriptions, IpcWaits,
               ErrorsTold, StartNotStranded, TypeOK, Kinds, plugin, report
  <1>1. CASE FirstInit
    BY <1>1 DEF FirstInit, Attach, BuildOk, RegisterIpc
  <1>2. CASE Reattach
    BY <1>2 DEF Reattach, Attach, BuildOk, RegisterIpc
  <1>3. CASE AttachFails
    BY <1>3 DEF AttachFails, BuildFail
  <1>4. CASE Shutdown
    BY <1>4 DEF Shutdown, Without
  <1>5. CASE ReloadScheme
    BY <1>5 DEF ReloadScheme, Without, ReloadDrops, BuildOk
  <1>6. CASE ReloadSchemeFails
    BY <1>6 DEF ReloadSchemeFails, Without, ReloadDrops
  <1>7. CASE LoadRaises
    BY <1>7 DEF LoadRaises
  <1>8. CASE LoadDone
    BY <1>8 DEF LoadDone
  <1>9. CASE EventListen
    BY <1>9, OwnsFlags DEF EventListen
  <1>10. CASE ConfigUnloadListen
    BY <1>10, OwnsFlags DEF ConfigUnloadListen
  <1>11. CASE TimerAdd
    BY <1>11, OwnsFlags DEF TimerAdd
  <1>12. CASE LayoutAdd
    BY <1>12, OwnsFlags DEF LayoutAdd
  <1>13. CASE WindowRuleBegin
    BY <1>13, OwnsFlags DEF WindowRuleBegin
  <1>14. CASE BindAdd
    BY <1>14, OwnsFlags DEF BindAdd
  <1>15. CASE StartListen
    BY <1>15, OwnsFlags DEF StartListen
  <1>16. CASE EventCancel
    BY <1>16 DEF EventCancel, ScriptRuns
  <1>17. CASE NestedLoadRaises
    BY <1>17 DEF NestedLoadRaises, ScriptRuns
  <1>18. CASE TimerEnds
    BY <1>18 DEF TimerEnds, ScriptRuns
  <1>19. CASE RunLater
    BY <1>19 DEF RunLater, Without
  <1>20. CASE OpenSocket
    BY <1>20 DEF OpenSocket
  <1>21. CASE EmitReady
    BY <1>21 DEF EmitReady, RegisterIpc
  <1>22. CASE EmitStart
    BY <1>22 DEF EmitStart, Without
  <1>23. CASE BeginReload
    BY <1>23 DEF BeginReload
  <1>24. CASE Reparse
    BY <1>24 DEF Reparse, Without
  <1>25. CASE UNCHANGED vars
    BY <1>25 DEF vars
  <1>26. QED
    BY <1>1, <1>2, <1>3, <1>4, <1>5, <1>6, <1>7, <1>8, <1>9, <1>10, <1>11, <1>12, <1>13, <1>14, <1>15, <1>16, <1>17, <1>18, <1>19, <1>20, <1>21, <1>22, <1>23, <1>24, <1>25 DEF Next, Plugin, Scripts, Compositor

------------------------------------------------------------------------------
\* Ownership: hooks always, everything bounded by a reload once a config path is
\* known.
Owned == HooksOwned /\ OwnedByGeneration

\* A registration by a script is made in the name of the current generation.
LEMMA OwnsOwned ==
    ASSUME TypeOK, Owned, NEW k \in Kinds, Owns(k)
    PROVE  Owned'
  <1>1. \A j \in Kinds : reg'[j] \subseteq reg[j] \cup {gen}
    BY DEF Owns, TypeOK
  <1>2. UNCHANGED <<up, cfgPath, gen, phase>>
    BY DEF Owns, plugin
  <1>3. HookKinds \subseteq Kinds /\ Bounded \subseteq Kinds
    BY DEF ShutdownDrops, HookKinds, Subscriptions, Bounded, Kinds
  <1>4. up /\ phase # "reload"
    BY DEF Owns, ScriptRuns
  <1>5. HooksOwned'
    BY <1>1, <1>2, <1>3, <1>4 DEF Owned, HooksOwned
  <1>6. OwnedByGeneration'
    BY <1>1, <1>2, <1>3, <1>4 DEF Owned, OwnedByGeneration
  <1>7. QED
    BY <1>5, <1>6 DEF Owned

\* Ownership is preserved by every step.
LEMMA OwnedStep == TypeOK /\ Flags /\ Owned /\ [Next]_vars => Owned'
  <1> SUFFICES ASSUME TypeOK, Flags, Owned, [Next]_vars PROVE Owned'
    OBVIOUS
  <1> USE DEF Owned, HooksOwned, OwnedByGeneration, Flags, Untouched, Control,
              DetachedLeavesNothing, ShutdownDrops, HookKinds, Subscriptions, Bounded, TypeOK, Kinds,
              plugin, report
  <1>1. CASE FirstInit
    BY <1>1 DEF FirstInit, Attach, BuildOk
  <1>2. CASE Reattach
    BY <1>2 DEF Reattach, Attach, BuildOk
  <1>3. CASE AttachFails
    BY <1>3 DEF AttachFails, BuildFail
  <1>4. CASE Shutdown
    BY <1>4 DEF Shutdown, Without
  <1>5. CASE ReloadScheme
    BY <1>5 DEF ReloadScheme, BuildOk, Without, ReloadDrops, RulesCleared
  <1>6. CASE ReloadSchemeFails
    BY <1>6 DEF ReloadSchemeFails, BuildFail, Without, ReloadDrops, RulesCleared
  <1>7. CASE LoadRaises
    BY <1>7 DEF LoadRaises
  <1>8. CASE LoadDone
    BY <1>8 DEF LoadDone
  <1>9. CASE EventListen
    BY <1>9, OwnsOwned DEF EventListen
  <1>10. CASE ConfigUnloadListen
    BY <1>10, OwnsOwned DEF ConfigUnloadListen
  <1>11. CASE TimerAdd
    BY <1>11, OwnsOwned DEF TimerAdd
  <1>12. CASE LayoutAdd
    BY <1>12, OwnsOwned DEF LayoutAdd
  <1>13. CASE WindowRuleBegin
    BY <1>13, OwnsOwned DEF WindowRuleBegin
  <1>14. CASE BindAdd
    BY <1>14, OwnsOwned DEF BindAdd
  <1>15. CASE StartListen
    BY <1>15, OwnsOwned DEF StartListen
  <1>16. CASE EventCancel
    BY <1>16 DEF EventCancel
  <1>17. CASE NestedLoadRaises
    BY <1>17 DEF NestedLoadRaises
  <1>18. CASE TimerEnds
    BY <1>18 DEF TimerEnds
  <1>19. CASE RunLater
    BY <1>19 DEF RunLater, Without
  <1>20. CASE OpenSocket
    BY <1>20 DEF OpenSocket
  <1>21. CASE EmitReady
    BY <1>21 DEF EmitReady
  <1>22. CASE EmitStart
    BY <1>22 DEF EmitStart, Without
  <1>23. CASE BeginReload
    BY <1>23 DEF BeginReload
  <1>24. CASE Reparse
    BY <1>24 DEF Reparse, Without
  <1>25. CASE UNCHANGED vars
    BY <1>25 DEF vars
  <1>26. QED
    BY <1>1, <1>2, <1>3, <1>4, <1>5, <1>6, <1>7, <1>8, <1>9, <1>10, <1>11, <1>12, <1>13, <1>14, <1>15, <1>16, <1>17, <1>18, <1>19, <1>20, <1>21, <1>22, <1>23, <1>24, <1>25 DEF Next, Plugin, Scripts, Compositor

------------------------------------------------------------------------------
(* The invariants of the specification *)

\* The inductive invariant.
IInv == TypeInv /\ Flags /\ Owned

\* It holds initially.
LEMMA InitInv == Init => IInv
  <1> SUFFICES ASSUME Init PROVE IInv
    OBVIOUS
  <1> USE HostAssumption DEF Init
  <1>1. TypeInv
    <2>1. reg \in [Kinds -> SUBSET Gens]
      OBVIOUS
    <2>2. gen \in 0 .. MaxGen /\ startListeners \in Nat
      OBVIOUS
    <2>3. ~up
      OBVIOUS
    <2>4. TypeOK
      BY <2>1, <2>2, Zenon DEF TypeOK, Phases, Stages
    <2>5. QED
      BY <2>3, <2>4 DEF TypeInv
  <1>2. Flags
    <2>1. \A k \in Kinds : reg[k] = {}
      OBVIOUS
    <2>2. HookKinds \subseteq Kinds /\ "pending" \in Kinds
      BY DEF ShutdownDrops, HookKinds, Subscriptions, Kinds
    <2>3. Untouched /\ Control /\ IpcWaits
      BY <2>1 DEF Untouched, Control, IpcWaits
    <2>4. DetachedLeavesNothing
      BY <2>1, <2>2 DEF DetachedLeavesNothing
    <2>5. ErrorsTold /\ StartNotStranded
      BY <2>1, <2>2 DEF ErrorsTold, StartNotStranded
    <2>6. QED
      BY <2>3, <2>4, <2>5 DEF Flags
  <1>3. Owned
    BY DEF Owned, HooksOwned, OwnedByGeneration
  <1>4. QED
    BY <1>1, <1>2, <1>3 DEF IInv

\* Every step preserves it.
LEMMA StepInv == IInv /\ [Next]_vars => IInv'
  BY TypeStep, FlagsStep, OwnedStep DEF IInv, TypeInv

\* The inductive invariant is an invariant of the plugin host.
THEOREM Invariance == Spec => []IInv
  BY InitInv, StepInv, PTL DEF Spec

\* The variables of the host keep their types, for any number of generations and
\* any use of the registries.
THEOREM TypeCorrect == Spec => []TypeOK
  <1>1. IInv => TypeOK
    BY DEF IInv, TypeInv
  <1>2. QED
    BY <1>1, Invariance, PTL

\* No handler, timer, held start handler, layout, bind or unnamed rule of a
\* discarded generation survives a reload, a failed build, or an unload and a
\* re-attach, once the config path is known (reloadScheme, shutdown).
THEOREM GenerationOwnership == Spec => []OwnedByGeneration
  <1>1. IInv => OwnedByGeneration
    BY DEF IInv, Owned
  <1>2. QED
    BY <1>1, Invariance, PTL

\* A detached plugin left none of its connections behind (shutdown).
THEOREM DetachClean == Spec => []DetachedLeavesNothing
  <1>1. IInv => DetachedLeavesNothing
    BY DEF IInv, Flags
  <1>2. QED
    BY <1>1, Invariance, PTL

\* An attached plugin is connected once and its command is there after the ready
\* event (init, registerIpc, registerStartDispatch).
THEOREM AttachComplete == Spec => []AttachedOnce
  <1>1. IInv => AttachedOnce
    BY DEF IInv, Flags, IpcWaits, AttachedOnce
  <1>2. QED
    BY <1>1, Invariance, PTL

\* The plugin is in the compositor wholly or not at all (init, shutdown).
THEOREM Attachment == Spec => []AttachmentWhole
  BY DetachClean, AttachComplete, PTL DEF AttachmentWhole

\* The banner says whether the current config failed, nested files included
\* (hl--load-config, hl--report-config-ok).
THEOREM BannerTold == Spec => []BannerIsTrue
  <1>1. IInv => BannerIsTrue
    BY DEF IInv, Flags, ErrorsTold, BannerIsTrue
  <1>2. QED
    BY <1>1, Invariance, PTL

\* No start handler is held back once the startup event has been seen
\* (hl--on-start, registerStartDispatch).
THEOREM StartHandlersMove == Spec => []StartNotStranded
  <1>1. IInv => StartNotStranded
    BY DEF IInv, Flags
  <1>2. QED
    BY <1>1, Invariance, PTL

------------------------------------------------------------------------------
(* The host implements the promise of module Generations *)

\* What the promise counts as live.
LEMMA HookedIff ==
    \A x : x \in Hooked <=> \E k \in HookKinds : x \in reg[k]
  BY DEF Hooked

\* A script's registration is a hook, or invisible to the promise.
LEMMA OwnsHooks ==
    ASSUME TypeOK, NEW k \in Kinds, Owns(k)
    PROVE  Promise!Hook \/ UNCHANGED Promise!vars
  <1>1. up /\ UNCHANGED <<gen, up>>
    BY DEF Owns, ScriptRuns, plugin
  <1>2. \A j \in Kinds : reg'[j] = IF j = k THEN reg[j] \cup {gen} ELSE reg[j]
    BY DEF Owns, TypeOK
  <1>3. HookKinds \subseteq Kinds
    BY DEF ShutdownDrops, HookKinds, Subscriptions, Kinds
  <1>4. CASE k \in HookKinds
    <2>1. \A x : x \in Hooked' <=> \E j \in HookKinds : x \in reg'[j]
      BY DEF Hooked
    <2>2. \A x : x \in Hooked' <=> x \in Hooked \/ x = gen
      BY <1>2, <1>3, <1>4, <2>1, HookedIff
    <2>3. Hooked' = Hooked \cup {gen}
      BY <2>2
    <2>4. QED
      BY <1>1, <2>3 DEF Promise!Hook
  <1>5. CASE k \notin HookKinds
    <2>1. Hooked' = Hooked
      BY <1>2, <1>3, <1>5 DEF Hooked
    <2>2. QED
      BY <1>1, <2>1 DEF Promise!vars
  <1>6. QED
    BY <1>4, <1>5

\* Taking registrations away unhooks.
LEMMA LessHooked ==
    ASSUME UNCHANGED <<gen, up>>, \A k \in HookKinds : reg'[k] \subseteq reg[k]
    PROVE  Promise!Unhook
  BY DEF Promise!Unhook, Hooked

\* A step that leaves the generation, the attachment and the table alone stutters.
LEMMA Stutters ==
    ASSUME UNCHANGED <<gen, up, reg>>
    PROVE  UNCHANGED Promise!vars
  BY DEF Promise!vars, Hooked

\* Every step of the host is a step of the promise or leaves it unchanged.
LEMMA PromiseStep == IInv /\ [Next]_vars => [Promise!Next]_Promise!vars
  <1> SUFFICES ASSUME IInv, [Next]_vars PROVE [Promise!Next]_Promise!vars
    OBVIOUS
  <1>0. TypeOK /\ Flags /\ (gen \in Nat)
    BY HostAssumption DEF IInv, TypeInv, TypeOK
  <1> USE DEF plugin, Promise!Next
  <1>1. CASE FirstInit
    BY <1>0, <1>1 DEF FirstInit, Attach, BuildOk, Hooked, Flags, Untouched, Promise!Attach
  <1>2. CASE Reattach
    BY <1>0, <1>2 DEF Reattach, Attach, BuildOk, Hooked, Flags, Untouched, Promise!Attach
  <1>3. CASE AttachFails
    BY <1>3, Stutters DEF AttachFails, BuildFail
  <1>4. CASE Shutdown
    <2>1. Hooked' = {}
      BY <1>4 DEF Shutdown, Without, Hooked, ShutdownDrops, HookKinds, Subscriptions, Kinds
    <2>2. QED
      BY <1>4, <2>1 DEF Shutdown, Promise!Detach
  <1>5. CASE ReloadScheme
    <2>1. Hooked' = {}
      BY <1>0, <1>5 DEF ReloadScheme, Without, ReloadDrops, Hooked, ShutdownDrops, HookKinds, Subscriptions,
                         Kinds, Flags, Control, TypeOK
    <2>2. up /\ up' = up
      BY <1>0, <1>5 DEF ReloadScheme, Flags, Control
    <2>3. QED
      BY <1>5, <2>1, <2>2 DEF ReloadScheme, BuildOk, Promise!Renew
  <1>6. CASE ReloadSchemeFails
    <2>1. Hooked' = {}
      BY <1>0, <1>6 DEF ReloadSchemeFails, Without, ReloadDrops, Hooked, ShutdownDrops, HookKinds, Subscriptions,
                         Kinds, Flags, Control, TypeOK
    <2>2. up /\ up' = up
      BY <1>0, <1>6 DEF ReloadSchemeFails, Flags, Control
    <2>3. QED
      BY <1>6, <2>1, <2>2 DEF ReloadSchemeFails, BuildFail, Promise!Renew
  <1>7. CASE LoadRaises
    BY <1>7, Stutters DEF LoadRaises
  <1>8. CASE LoadDone
    BY <1>8, Stutters DEF LoadDone
  <1>9. CASE EventListen
    BY <1>0, <1>9, OwnsHooks DEF EventListen, Kinds
  <1>10. CASE ConfigUnloadListen
    BY <1>0, <1>10, OwnsHooks DEF ConfigUnloadListen, Kinds
  <1>11. CASE TimerAdd
    BY <1>0, <1>11, OwnsHooks DEF TimerAdd, Kinds
  <1>12. CASE LayoutAdd
    BY <1>0, <1>12, OwnsHooks DEF LayoutAdd, Kinds
  <1>13. CASE WindowRuleBegin
    BY <1>0, <1>13, OwnsHooks DEF WindowRuleBegin, Kinds
  <1>14. CASE BindAdd
    BY <1>0, <1>14, OwnsHooks DEF BindAdd, Kinds
  <1>15. CASE StartListen
    BY <1>0, <1>15, OwnsHooks DEF StartListen, Kinds
  <1>16. CASE EventCancel
    <2>1. \A k \in Kinds : reg'[k] \subseteq reg[k]
      BY <1>0, <1>16 DEF EventCancel, Subscriptions, TypeOK
    <2>2. UNCHANGED <<gen, up>>
      BY <1>16 DEF EventCancel
    <2>3. QED
      BY <2>1, <2>2, LessHooked DEF ShutdownDrops, HookKinds, Subscriptions, Kinds
  <1>17. CASE NestedLoadRaises
    BY <1>17, Stutters DEF NestedLoadRaises
  <1>18. CASE TimerEnds
    <2>1. \A k \in Kinds : reg'[k] \subseteq reg[k]
      BY <1>0, <1>18 DEF TimerEnds, TypeOK
    <2>2. UNCHANGED <<gen, up>>
      BY <1>18 DEF TimerEnds
    <2>3. QED
      BY <2>1, <2>2, LessHooked DEF ShutdownDrops, HookKinds, Subscriptions, Kinds
  <1>19. CASE RunLater
    <2>1. \A k \in Kinds : reg'[k] \subseteq reg[k]
      BY <1>0, <1>19 DEF RunLater, Without, TypeOK
    <2>2. UNCHANGED <<gen, up>>
      BY <1>19 DEF RunLater
    <2>3. QED
      BY <2>1, <2>2, LessHooked DEF ShutdownDrops, HookKinds, Subscriptions, Kinds
  <1>20. CASE OpenSocket
    BY <1>20, Stutters DEF OpenSocket
  <1>21. CASE EmitReady
    BY <1>21, Stutters DEF EmitReady
  <1>22. CASE EmitStart
    <2>1. \A k \in Kinds : reg'[k] \subseteq reg[k]
      BY <1>0, <1>22 DEF EmitStart, Without, TypeOK
    <2>2. UNCHANGED <<gen, up>>
      BY <1>22 DEF EmitStart
    <2>3. QED
      BY <2>1, <2>2, LessHooked DEF ShutdownDrops, HookKinds, Subscriptions, Kinds
  <1>23. CASE BeginReload
    BY <1>23, Stutters DEF BeginReload
  <1>24. CASE Reparse
    <2>1. \A k \in Kinds : reg'[k] \subseteq reg[k]
      BY <1>0, <1>24 DEF Reparse, Without, TypeOK
    <2>2. UNCHANGED <<gen, up>>
      BY <1>24 DEF Reparse
    <2>3. QED
      BY <2>1, <2>2, LessHooked DEF ShutdownDrops, HookKinds, Subscriptions, Kinds
  <1>25. CASE UNCHANGED vars
    BY <1>25, Stutters DEF vars
  <1>26. QED
    BY <1>1, <1>2, <1>3, <1>4, <1>5, <1>6, <1>7, <1>8, <1>9, <1>10, <1>11, <1>12, <1>13, <1>14, <1>15, <1>16, <1>17, <1>18, <1>19, <1>20, <1>21, <1>22, <1>23, <1>24, <1>25 DEF Next, Plugin, Scripts, Compositor

\* The host implements Generations: what a script hooked into the buses and the
\* registries acts only while its generation is the current one of an attached
\* plugin, whatever the order of reloads, failures, unloads and re-attaches.
THEOREM Implementation == Spec => KeepsPromise
  <1>1. Init => Promise!Init
    BY DEF Init, Promise!Init, Hooked, ShutdownDrops, HookKinds, Subscriptions, Kinds
  <1>2. QED
    BY <1>1, PromiseStep, Invariance, PTL DEF Spec, KeepsPromise, Promise!Spec

------------------------------------------------------------------------------
(* The timers, for any number of them and any intervals.                        *)

\* Only timers that were made are known to the index, the loop or the history; the
\* one whose callback runs has fired, and a one-shot that has fired is in the index
\* only while it runs.
History ==
    /\ index \cup loop \cup fired \cup cancelled \subseteq made
    /\ firing \in Timers => firing \in fired
    /\ \A t \in fired : ~repeat[t] /\ firing # t => t \notin index

\* The inductive invariant.
TimerInv == TimerTypeOK /\ IndexIsTheLoop /\ History /\ ArmedAsAsked

\* Tearing timers down keeps the typing and the index in step with the loop.
LEMMA TearDownKeeps ==
    ASSUME TimerInv, NEW T \in SUBSET Timers, TearDown(T)
    PROVE  /\ cancelled' \in SUBSET Timers /\ expiry' \in [Timers -> Intervals \cup {None}]
           /\ index' = index \ T /\ loop' = loop \ T
           /\ index' = loop' /\ loop' \cap cancelled' = {}
           /\ \A t \in index' : expiry'[t] = expiry[t]
  BY TimerAssumption DEF TimerInv, TimerTypeOK, IndexIsTheLoop, TearDown

\* The invariant holds initially.
LEMMA TimerInitInv == TimerInit => TimerInv
  <1> SUFFICES ASSUME TimerInit PROVE TimerInv
    OBVIOUS
  <1>1. TimerTypeOK
    BY TimerAssumption DEF TimerInit, TimerTypeOK
  <1>2. IndexIsTheLoop /\ History /\ ArmedAsAsked
    BY TimerAssumption DEF TimerInit, IndexIsTheLoop, History, ArmedAsAsked
  <1>3. QED
    BY <1>1, <1>2 DEF TimerInv

\* Every step preserves the typing.
LEMMA TimerTypeStep == TimerInv /\ [TimerNext]_timerVars => TimerTypeOK'
  <1> SUFFICES ASSUME TimerInv, [TimerNext]_timerVars PROVE TimerTypeOK'
    OBVIOUS
  <1> USE TimerAssumption DEF TimerTypeOK, recordVars
  <1>0. TimerTypeOK
    BY DEF TimerInv
  <1>1. ASSUME NEW t \in Timers, HlSchemeTimer(t) PROVE TimerTypeOK'
    BY <1>0, <1>1 DEF HlSchemeTimer
  <1>2. ASSUME NEW t \in Timers, NEW e \in BOOLEAN, HlTimerSetEnabled(t, e) PROVE TimerTypeOK'
    BY <1>0, <1>2 DEF HlTimerSetEnabled
  <1>3. ASSUME NEW t \in Timers, NEW m \in Intervals, HlTimerSetTimeout(t, m) PROVE TimerTypeOK'
    BY <1>0, <1>3 DEF HlTimerSetTimeout
  <1>4. ASSUME NEW t \in Timers, HlTimerCancel(t) PROVE TimerTypeOK'
    BY <1>0, <1>4, TearDownKeeps DEF HlTimerCancel
  <1>5. ASSUME NEW t \in Timers, Fire(t) PROVE TimerTypeOK'
    BY <1>0, <1>5 DEF Fire
  <1>6. ASSUME NEW t \in Timers, Again(t) PROVE TimerTypeOK'
    BY <1>0, <1>6 DEF Again
  <1>7. ASSUME NEW t \in Timers, Finished(t) PROVE TimerTypeOK'
    BY <1>0, <1>7, TearDownKeeps DEF Finished
  <1>8. CASE CancelAllTimers
    BY <1>0, <1>8, TearDownKeeps DEF CancelAllTimers
  <1>9. CASE TimersShutdown
    BY <1>0, <1>9 DEF TimersShutdown
  <1>10. CASE TimersReattach
    BY <1>0, <1>10, TearDownKeeps DEF TimersReattach
  <1>11. CASE UNCHANGED timerVars
    BY <1>0, <1>11 DEF timerVars
  <1>12. QED
    BY <1>1, <1>2, <1>3, <1>4, <1>5, <1>6, <1>7, <1>8, <1>9, <1>10, <1>11
    DEF TimerNext, Script, Loop

\* Every step preserves the rest of the invariant.
LEMMA TimerRestStep ==
    TimerInv /\ [TimerNext]_timerVars => (IndexIsTheLoop /\ History /\ ArmedAsAsked)'
  <1> DEFINE Rest == IndexIsTheLoop /\ History /\ ArmedAsAsked
  <1> SUFFICES ASSUME TimerInv, [TimerNext]_timerVars PROVE Rest'
    OBVIOUS
  <1> USE TimerAssumption DEF TimerInv, TimerTypeOK, recordVars, IndexIsTheLoop, History,
                              ArmedAsAsked
  <1>1. ASSUME NEW t \in Timers, HlSchemeTimer(t) PROVE Rest'
    BY <1>1 DEF HlSchemeTimer
  <1>2. ASSUME NEW t \in Timers, NEW e \in BOOLEAN, HlTimerSetEnabled(t, e) PROVE Rest'
    BY <1>2 DEF HlTimerSetEnabled
  <1>3. ASSUME NEW t \in Timers, NEW m \in Intervals, HlTimerSetTimeout(t, m) PROVE Rest'
    BY <1>3 DEF HlTimerSetTimeout
  <1>4. ASSUME NEW t \in Timers, HlTimerCancel(t) PROVE Rest'
    BY <1>4 DEF HlTimerCancel, TearDown
  <1>5. ASSUME NEW t \in Timers, Fire(t) PROVE Rest'
    BY <1>5 DEF Fire
  <1>6. ASSUME NEW t \in Timers, Again(t) PROVE Rest'
    BY <1>6 DEF Again
  <1>7. ASSUME NEW t \in Timers, Finished(t) PROVE Rest'
    BY <1>7 DEF Finished, TearDown
  <1>8. CASE CancelAllTimers
    BY <1>8 DEF CancelAllTimers, TearDown
  <1>9. CASE TimersShutdown
    BY <1>9 DEF TimersShutdown
  <1>10. CASE TimersReattach
    BY <1>10 DEF TimersReattach, TearDown
  <1>11. CASE UNCHANGED timerVars
    BY <1>11 DEF timerVars
  <1>12. QED
    BY <1>1, <1>2, <1>3, <1>4, <1>5, <1>6, <1>7, <1>8, <1>9, <1>10, <1>11
    DEF TimerNext, Script, Loop

\* The inductive invariant is an invariant of the timers.
LEMMA TimerInvariance == TimerSpec => []TimerInv
  <1>1. TimerInv /\ [TimerNext]_timerVars => TimerInv'
    BY TimerTypeStep, TimerRestStep DEF TimerInv
  <1>2. QED
    BY <1>1, TimerInitInv, PTL DEF TimerSpec

\* The variables keep their types.
THEOREM TimerTypeCorrect == TimerSpec => []TimerTypeOK
  <1>1. TimerInv => TimerTypeOK
    BY DEF TimerInv
  <1>2. QED
    BY <1>1, TimerInvariance, PTL

\* The index and the event loop hold the same timers, none cancelled, whatever the
\* callbacks do to their own timers (hlTimerCancel, cancelAllTimers, hlSchemeTimer).
THEOREM IndexSound == TimerSpec => []IndexIsTheLoop
  <1>1. TimerInv => IndexIsTheLoop
    BY DEF TimerInv
  <1>2. QED
    BY <1>1, TimerInvariance, PTL

\* An enabled timer is armed and a re-tuned one waits for its new interval.
THEOREM Armed == TimerSpec => []ArmedAsAsked
  <1>1. TimerInv => ArmedAsAsked
    BY DEF TimerInv
  <1>2. QED
    BY <1>1, TimerInvariance, PTL

\* Only firing starts a callback, and only of a timer in the index.
LEMMA FiringStarts ==
    ASSUME TimerInv, [TimerNext]_timerVars, NEW t \in Timers, firing # t, firing' = t
    PROVE  Fire(t) /\ t \in index
  <1> USE TimerAssumption DEF TimerInv, TimerTypeOK
  <1>1. \E u \in Timers : Fire(u)
    BY DEF TimerNext, Script, Loop, HlSchemeTimer, HlTimerSetEnabled, HlTimerSetTimeout,
           HlTimerCancel, Again, Finished, CancelAllTimers, TimersShutdown, TimersReattach, timerVars
  <1>2. Fire(t)
    BY <1>1 DEF Fire
  <1>3. QED
    BY <1>2 DEF Fire, IndexIsTheLoop

\* Each timer that can fire can be reached and waits as asked (hlSchemeTimer,
\* hlTimerSetTimeout, cancelAllTimers).
THEOREM LoopSound == TimerSpec => []LoopAsAsked
  BY IndexSound, Armed, PTL DEF LoopAsAsked

\* What has ended, by its own run or by anyone's call, is over.
THEOREM Over == TimerSpec => OverIsOver
  <1>1. TimerInv /\ [TimerNext]_timerVars => [EndedStaysQuiet]_timerVars
    BY FiringStarts DEF TimerInv, TimerTypeOK, EndedStaysQuiet
  <1>2. TimerInv /\ [TimerNext]_timerVars => [OneShotOnce]_timerVars
    BY FiringStarts DEF TimerInv, TimerTypeOK, History, OneShotOnce
  <1>3. TimerInv /\ [TimerNext]_timerVars => [EndedStaysQuiet /\ OneShotOnce]_timerVars
    BY <1>1, <1>2
  <1>4. QED
    BY <1>3, TimerInvariance, PTL DEF TimerSpec, OverIsOver

=============================================================================
