-------------------------------- MODULE Layout -------------------------------
(* Custom layouts (SchemeLayout.cpp and the dispatch in kernel.scm): a config   *)
(* registers a provider, the compositor builds an algorithm from it for each    *)
(* workspace, and each change of the algorithm's targets runs a pass, in which  *)
(* the provider's callback says where the windows go.  A callback is a script:  *)
(* it may move and swap windows, send layout messages and reload the config,    *)
(* and so begin passes of the same or another workspace inside its own.         *)
(*                                                                              *)
(* A generation registers one provider at most: there is one name.  Spaces, the *)
(* calls the compositor makes on an algorithm, and when it builds another one   *)
(* are external.                                                                *)
EXTENDS Integers, Sequences, SequencesExt

CONSTANTS
    Windows,   \* the tiled windows
    Spaces,    \* the workspaces
    Specs,     \* the sets of callbacks that configs name
    None,      \* no workspace; in a result, an item that is no placement
    MaxGen,    \* bound on the generations
    MaxDepth   \* bound on the calls under way

ASSUME LayoutAssumption ==
    /\ MaxGen \in Nat \ {0} /\ MaxDepth \in Nat /\ IsFiniteSet(Windows)
    /\ None \notin Windows /\ None \notin Spaces
    /\ Specs \subseteq SUBSET {"recalculate", "resize", "layout-msg"}

VARIABLES
    gen,         \* the current generation
    registered,  \* g_layouts: the generation of the active provider, 0 if there is none
    spec,        \* the callbacks each generation's provider names
    algo,        \* the generation of the provider a space's algorithm holds, 0 for a
                 \* built-in algorithm
    targets,     \* m_targets of the algorithm of a space
    home,        \* the space of a window, None while it is closed or on its way
    pos,         \* what placed a window last
    stack,       \* the calls under way, the innermost last
    result       \* history: how the last pass of a space ended

sceneVars == <<targets, home>>
regVars   == <<gen, registered, spec>>
vars      == <<regVars, algo, sceneVars, pos, stack, result>>

\* Mutant of Active: a provider acts as long as an algorithm holds it.
HeldIsActive(p) == p # 0

\* A provider acts until a reload clears it.
Active(p) == p # 0 /\ p = registered

\* A callback under way, with the targets it was called for and the generation it began
\* in; or a call the compositor has yet to make.
Frame(k, s, snap) == [kind |-> k, space |-> s, snap |-> snap, payload |-> gen]
Top       == Last(stack)
InScript  == stack # <<>> /\ Top.kind \in {"recalc", "resize", "again", "msg"}
\* Scripts act in a callback of a layout and, like the compositor, between passes.
CanAct    == (stack = <<>> \/ InScript) /\ Len(stack) < MaxDepth
IndexOf(w, ts) == CHOOSE i \in DOMAIN ts : ts[i] = w
InSwap    == \E i \in DOMAIN stack : stack[i].kind = "swap"

------------------------------------------------------------------------------
(* The default grid *)

\* The least number of columns whose square holds n cells.
Cols(n) == CHOOSE c \in 1..n : c * c >= n /\ (c - 1) * (c - 1) < n

\* The rows that n cells take in c columns, and the cell of index i.
Rows(n, c)  == (n + c - 1) \div c
ColOf(i, c) == i % c
RowOf(i, c) == i \div c

OnGrid(s, i, n) ==
    [by |-> "grid", space |-> s, col |-> ColOf(i, Cols(n)), row |-> RowOf(i, Cols(n)), of |-> n]
InBox(s, g) == [by |-> "box", space |-> s, gen |-> g]
Elsewhere   == [by |-> "other", space |-> None]

\* Mutant of Gridded: a failed pass leaves what was placed before the failure.
KeepPartial(p, s, snap) == p

\* applyDefaultGrid: every target gets the cell of its index.
Gridded(p, s, snap) ==
    [w \in Windows |-> IF w \in ToSet(snap) THEN OnGrid(s, IndexOf(w, snap) - 1, Len(snap))
                       ELSE p[w]]

------------------------------------------------------------------------------
(* A pass *)

Ended(s, snap, how) ==
    result' = [result EXCEPT ![s] = IF snap = targets[s] THEN how ELSE "stale"]

\* recalculate, callLayout: without an active provider, or a callback, the grid.
Recalculate(s, ts, rest) ==
    /\ targets' = [targets EXCEPT ![s] = ts]
    /\ IF ts # <<>> /\ Active(algo[s]) /\ "recalculate" \in spec[algo[s]]
       THEN /\ stack' = Append(rest, Frame("recalc", s, ts))
            /\ UNCHANGED <<pos, result>>
       ELSE /\ stack' = rest /\ pos' = Gridded(pos, s, ts)
            /\ result' = [result EXCEPT ![s] = IF ts = <<>> THEN "none" ELSE "grid"]

\* Mutant of Accepted: a window that is not in the layout is placed too.
AcceptAnyone(f, ws) ==
    {ws[i] : i \in {i \in DOMAIN ws : \A j \in 1..i : ws[j] \in Windows}}

\* applyBoxes: items are applied in order until one is no placement or names a window the
\* pass was not called for.  The record type of boxes is made once in a process, so isBox
\* takes a box of any generation.
Accepted(f, ws) ==
    {ws[i] : i \in {i \in DOMAIN ws : \A j \in 1..i : ws[j] \in ToSet(f.snap)}}

Valid(f, ws) == Accepted(f, ws) = ToSet(ws)

Placed(f, ws, g) ==
    [w \in Windows |-> IF w \in Accepted(f, ws) THEN InBox(f.space, g) ELSE pos[w]]

\* What a geometry callback may answer: windows in some order.
Answers == {ws \in SeqOf(Windows \cup {None}, 2) : IsInjective(ws)}

Geometry == {"recalc", "resize", "again"}

\* The callback answers a list; a list that is refused falls back to the grid.  The boxes are
\* those it was given or made, in any generation since it began.
Answer(ws, g) ==
    /\ stack # <<>> /\ Top.kind \in Geometry /\ g \in Top.payload..gen
    /\ pos' = IF Valid(Top, ws) THEN Placed(Top, ws, g)
              ELSE Gridded(Placed(Top, ws, g), Top.space, Top.snap)
    /\ Ended(Top.space, Top.snap, IF Valid(Top, ws) THEN "boxes" ELSE "grid")
    /\ stack' = Front(stack)
    /\ UNCHANGED <<regVars, algo, sceneVars>>

\* The callback raises, is abandoned or answers #f.
AnswerFalse ==
    /\ stack # <<>> /\ Top.kind \in {"recalc", "again"}
    /\ pos' = Gridded(pos, Top.space, Top.snap)
    /\ Ended(Top.space, Top.snap, "grid")
    /\ stack' = Front(stack)
    /\ UNCHANGED <<regVars, algo, sceneVars>>

\* dispatchRecalculate on the same targets, for a resize that answered #f.
Again(s, snap, rest) ==
    IF "recalculate" \in spec[algo[s]]
    THEN stack' = Append(rest, Frame("again", s, snap)) /\ UNCHANGED <<pos, result>>
    ELSE /\ stack' = rest /\ pos' = Gridded(pos, s, snap)
         /\ Ended(s, snap, "grid")

ResizeFalse ==
    /\ stack # <<>> /\ Top.kind = "resize"
    /\ Again(Top.space, Top.snap, Front(stack))
    /\ UNCHANGED <<regVars, algo, sceneVars>>

------------------------------------------------------------------------------
(* What the compositor and scripts ask of an algorithm *)

\* newTarget, movedTarget
NewTarget(w, s, rest) ==
    /\ home' = [home EXCEPT ![w] = s]
    /\ IF algo[s] = 0
       THEN stack' = rest /\ pos' = [pos EXCEPT ![w] = Elsewhere] /\ UNCHANGED <<targets, result>>
       ELSE Recalculate(s, Append(targets[s], w), rest)
    /\ UNCHANGED <<regVars, algo>>

\* erase_if takes every occurrence: a list has at most one (TargetsAreTheWindows).
Without(ts, w) == IF w \in ToSet(ts) THEN RemoveAt(ts, IndexOf(w, ts)) ELSE ts

\* removeTarget
RemoveTarget(w, rest) ==
    LET s == home[w] IN
    /\ home' = [home EXCEPT ![w] = None]
    /\ IF algo[s] = 0
       THEN stack' = rest /\ UNCHANGED <<targets, pos, result>>
       ELSE Recalculate(s, Without(targets[s], w), rest)
    /\ UNCHANGED <<regVars, algo>>

Open(w, s) == stack = <<>> /\ home[w] = None /\ NewTarget(w, s, stack)
Close(w)   == stack = <<>> /\ home[w] # None /\ RemoveTarget(w, stack)

\* A window goes to another workspace: removed from one algorithm, then added to the other.
Move(w, s) ==
    /\ CanAct /\ ~InSwap /\ home[w] \notin {None, s}
    /\ RemoveTarget(w, Append(stack, Frame("add", s, <<w>>)))

Arrive ==
    /\ stack # <<>> /\ Top.kind = "add"
    /\ NewTarget(Top.snap[1], Top.space, Front(stack))

\* Mutant of Swapped: only two targets of this algorithm change places.
SwapWithin(ts, a, b) ==
    IF {a, b} \subseteq ToSet(ts)
    THEN [i \in DOMAIN ts |-> CASE ts[i] = a -> b [] ts[i] = b -> a [] OTHER -> ts[i]]
    ELSE ts

\* swapTargets: both in this algorithm, or the one that is gives its place to the other.
Swapped(ts, a, b) ==
    [i \in DOMAIN ts |-> CASE ts[i] = a -> b [] ts[i] = b -> a [] OTHER -> ts[i]]

SwapIn(s, a, b, rest) ==
    IF algo[s] = 0
    THEN /\ stack' = rest /\ UNCHANGED <<targets, result>>
         /\ pos' = [w \in Windows |-> IF w \in {a, b} /\ home'[w] = s THEN Elsewhere ELSE pos[w]]
    ELSE Recalculate(s, Swapped(targets[s], a, b), rest)

Swap(a, b) ==
    /\ CanAct /\ ~InSwap /\ a # b /\ home[a] # None /\ home[b] # None
    /\ home' = [home EXCEPT ![a] = home[b], ![b] = home[a]]
    /\ SwapIn(home[a], a, b,
              IF home[a] = home[b] THEN stack ELSE Append(stack, Frame("swap", home[b], <<a, b>>)))
    /\ UNCHANGED <<regVars, algo>>

SwapRest ==
    /\ stack # <<>> /\ Top.kind = "swap"
    /\ UNCHANGED <<regVars, algo, home>>
    /\ SwapIn(Top.space, Top.snap[1], Top.snap[2], Front(stack))

\* moveTargetInDirection: one place up or down the list, and nothing at its ends.
MoveInDirection(w, step) ==
    /\ CanAct /\ home[w] # None /\ w \in ToSet(targets[home[w]])
    /\ LET s  == home[w]
           ts == targets[s]
           i  == IndexOf(w, ts) IN
       /\ i + step \in DOMAIN ts
       /\ Recalculate(s, Swapped(ts, ts[i], ts[i + step]), stack)
    /\ UNCHANGED <<regVars, algo, home>>

\* The compositor asks for a pass of its own (a monitor, a gap or an animation changed).
AskPass(s) ==
    /\ CanAct /\ algo[s] # 0
    /\ Recalculate(s, targets[s], stack) /\ UNCHANGED <<regVars, algo, home>>

\* resizeTarget: does not ask whether the provider is active.  Without a resize callback
\* hl--layout-resize calls the recalculate callback with five arguments, which raises.
Resize(s) ==
    /\ CanAct /\ algo[s] # 0 /\ targets[s] # <<>>
    /\ IF "resize" \in spec[algo[s]]
       THEN stack' = Append(stack, Frame("resize", s, targets[s])) /\ UNCHANGED <<pos, result>>
       ELSE Again(s, targets[s], stack)
    /\ UNCHANGED <<regVars, algo, sceneVars>>

\* layoutMsg: without a callback the message is rejected, and nothing changes.
LayoutMsg(s) ==
    /\ CanAct /\ Active(algo[s]) /\ "layout-msg" \in spec[algo[s]]
    /\ stack' = Append(stack, Frame("msg", s, <<>>))
    /\ UNCHANGED <<regVars, algo, sceneVars, pos, result>>

MsgAnswers(accepted) ==
    /\ stack # <<>> /\ Top.kind = "msg"
    /\ IF accepted THEN Recalculate(Top.space, targets[Top.space], Front(stack))
       ELSE stack' = Front(stack) /\ UNCHANGED <<targets, pos, result>>
    /\ UNCHANGED <<regVars, algo, home>>

------------------------------------------------------------------------------
(* Registration and reload *)

\* layoutAdd: a name that is taken is rejected.
LayoutAdd(cbs) ==
    /\ stack = <<>> \/ InScript
    /\ registered = 0
    /\ registered' = gen /\ spec' = [spec EXCEPT ![gen] = cbs]
    /\ UNCHANGED <<gen, algo, sceneVars, pos, stack, result>>

\* Mutant of Reload: the provider stays registered.
ReloadKeepsProvider ==
    /\ stack = <<>> \/ InScript
    /\ gen < MaxGen /\ gen' = gen + 1
    /\ UNCHANGED <<registered, spec, algo, sceneVars, pos, stack, result>>

\* reloadScheme: clear retires the providers, then the generation is built.
Reload ==
    /\ stack = <<>> \/ InScript
    /\ gen < MaxGen /\ gen' = gen + 1
    /\ registered' = 0
    /\ UNCHANGED <<spec, algo, sceneVars, pos, stack, result>>

\* The compositor gives a workspace another algorithm, which gets the windows one by one: the
\* refresh that layoutAdd and clear schedule, or a rule.  It comes between passes.
Refresh(s, p) ==
    /\ stack = <<>> /\ p \in {0, registered} \ {algo[s]}
    /\ algo' = [algo EXCEPT ![s] = p]
    /\ \E order \in SetToSeqs({w \in Windows : home[w] = s}) :
         stack' = [i \in DOMAIN order |-> Frame("add", s, <<order[i]>>)]
    /\ targets' = [targets EXCEPT ![s] = <<>>]
    /\ home' = [w \in Windows |-> IF home[w] = s THEN None ELSE home[w]]
    /\ result' = [result EXCEPT ![s] = "none"]
    /\ UNCHANGED <<regVars, pos>>

Init ==
    /\ gen = 1 /\ registered = 0 /\ spec = [g \in 1..MaxGen |-> {}]
    /\ algo = [s \in Spaces |-> 0] /\ targets = [s \in Spaces |-> <<>>]
    /\ home = [w \in Windows |-> None] /\ pos = [w \in Windows |-> Elsewhere]
    /\ stack = <<>> /\ result = [s \in Spaces |-> "none"]

Next ==
    \/ \E ws \in Answers, g \in 1..MaxGen : Answer(ws, g)
    \/ AnswerFalse \/ ResizeFalse \/ Arrive \/ SwapRest
    \/ \E w \in Windows, s \in Spaces : Open(w, s) \/ Move(w, s)
    \/ \E w \in Windows : Close(w)
    \/ \E a, b \in Windows : Swap(a, b)
    \/ \E w \in Windows, step \in {-1, 1} : MoveInDirection(w, step)
    \/ \E s \in Spaces : AskPass(s) \/ Resize(s) \/ LayoutMsg(s)
    \/ \E accepted \in BOOLEAN : MsgAnswers(accepted)
    \/ \E cbs \in Specs : LayoutAdd(cbs)
    \/ Reload
    \/ \E s \in Spaces, p \in 0..MaxGen : Refresh(s, p)

Spec == Init /\ [][Next]_vars

------------------------------------------------------------------------------
(* Properties *)

FrameType ==
    [kind : {"recalc", "resize", "again", "msg", "add", "swap"}, space : Spaces,
     snap : Seq(Windows), payload : 1..MaxGen]

PosType ==
    [by : {"other"}, space : {None}] \cup [by : {"box"}, space : Spaces, gen : 1..MaxGen]
    \cup [by : {"grid"}, space : Spaces, col : Nat, row : Nat, of : Nat]

\* Types of the variables (SchemeLayout.hpp, struct SSchemeLayoutProvider).
TypeOK ==
    /\ gen \in 1..MaxGen /\ registered \in {0, gen} /\ spec \in [1..MaxGen -> Specs \cup {{}}]
    /\ algo \in [Spaces -> 0..MaxGen] /\ targets \in [Spaces -> Seq(Windows)]
    /\ home \in [Windows -> Spaces \cup {None}]
    /\ \A w \in Windows : pos[w] \in PosType
    /\ \A i \in DOMAIN stack : stack[i] \in FrameType
    /\ result \in [Spaces -> {"none", "grid", "boxes", "stale"}]

\* However callbacks nest moves, swaps and reloads, an algorithm's targets are the windows of
\* its workspace, each of them once (newTarget, removeTarget, swapTargets).
TargetsAreTheWindows ==
    \A s \in Spaces : IF algo[s] = 0 THEN targets[s] = <<>>
                      ELSE ~InSwap => /\ IsInjective(targets[s])
                                      /\ ToSet(targets[s]) = {w \in Windows : home[w] = s}

\* After a failed pass nothing of what it had placed is left: the windows are on the default
\* grid, each in a cell of its own (applyDefaultGrid).  A window that another workspace's pass
\* has placed since is the subject of OwnWindowsOnly.
FailedPassIsGrid ==
    stack = <<>> =>
        \A s \in {s \in Spaces : result[s] = "grid"} :
            LET n    == Len(targets[s])
                mine == {i \in DOMAIN targets[s] : pos[targets[s][i]].space = s} IN
            /\ \A i \in mine : pos[targets[s][i]] = OnGrid(s, i - 1, n)
            /\ \A i \in mine : LET p == pos[targets[s][i]] IN p.col < Cols(n) /\ p.row < Rows(n, Cols(n))

Placing == {w \in Windows : pos'[w] # pos[w] /\ pos'[w].by # "other"}

\* The pass that ends was called for other targets than the algorithm has by now.
StaleEnd == stack # <<>> /\ Top.kind \in Geometry /\ Top.snap # targets[Top.space]

\* A pass places windows of its own workspace only, unless its callback changed the targets
\* under it (applyBoxes matches by window).
OwnWindowsOnly ==
    [][~InSwap /\ ~StaleEnd => \A w \in Placing : pos'[w].space = home'[w]]_vars

\* The provider of a workspace's algorithm is the one the current generation registered.
Current(s) == Active(algo[s]) /\ algo[s] = gen

\* A provider that a reload retired places windows only in the passes that were under way at
\* the reload, however they nest, and by a resize, which does not ask whether it is active
\* (SSchemeLayoutProvider::active, layoutClear).
RetiredPlacesInFlight ==
    [][\A w \in Placing : pos'[w].by = "box" =>
           \/ Current(pos'[w].space)
           \/ Top.payload # gen
           \/ Top.kind \in {"resize", "again"}]_vars

------------------------------------------------------------------------------
(* What the source says of itself *)

\* SchemeLayout.cpp:371, a window that is not in this layout is rejected, not mis-placed.
NeverMisplaced ==
    [][~InSwap => \A w \in Placing : pos'[w].space = home'[w]]_vars

\* SchemeLayout.cpp:228, "a reload rebuilds the module, and with it the record type": the boxes
\* that are placed were made since the last reload.
BoxTypeRebuilt ==
    [][\A w \in Placing : pos'[w].by = "box" => pos'[w].gen = gen]_vars

\* SchemeLayout.hpp:75, called on config reload: deactivate all scheme layouts.
RetiredIsDeactivated ==
    [][\A w \in Placing : pos'[w].by = "box" => Active(algo[pos'[w].space])]_vars
==============================================================================
