----------------------------- MODULE RuleStaging -----------------------------
(* Adding a rule: the Scheme maker (core.scm hl--window-rule-mk, workspace.scm  *)
(* hl-workspace-rule-add!) begins a rule, sends its spec item by item and       *)
(* commits it, and the C++ side (src/cpp/Rule.cpp) keeps the rule in progress   *)
(* in a global between those calls.  An item can be refused, and the watchdog   *)
(* can abandon the script between two items; what was staged then stays.        *)
(*                                                                              *)
(* Calls of the makers are numbered as they are made, and a rule is known by    *)
(* the number of the call that created it.                                      *)
EXTENDS Naturals, Sequences

CONSTANTS
    MaxCalls,  \* bound on the calls made in a session
    Names,     \* the names rules are given
    Anon,      \* no name
    Specs      \* the specs scripts write: sequences of items

Items == {"match", "effect", "bad"}  \* "bad" is one the maker or C++ refuses

ASSUME RuleAssumption ==
    /\ MaxCalls \in Nat
    /\ Anon \notin Names
    /\ Specs \subseteq Seq(Items)

Calls == 1 .. MaxCalls
Kinds == {"window", "layer", "workspace"}
EngineKinds == {"window", "layer"}

VARIABLES
    made,     \* the calls made so far
    kind,     \* what each call adds
    spec,     \* its spec
    running,  \* the call in progress, 0 if none
    at,       \* how many of its items were accepted
    cur,      \* g_curWindowRule, g_curLayerRule, g_curWorkspaceRule; 0 is empty
    byName,   \* g_windowRules and g_layerRules: the rule of a name, or 0
    engine,   \* the rules registered with the compositor
    enabled,  \* the rules enabled
    content,  \* the items each rule received, as <<call, position>>
    handle,   \* g_ruleIndex: the rule a call's handle stands for, or 0
    own       \* history: the rule a call began, or 0

callVars == <<made, kind, spec>>
vars == <<callVars, running, at, cur, byName, engine, enabled, content, handle, own>>

Init ==
    /\ made = 0
    /\ kind = [c \in Calls |-> "window"]
    /\ spec = [c \in Calls |-> <<>>]
    /\ running = 0 /\ at = 0
    /\ cur = [k \in Kinds |-> 0]
    /\ byName = [k \in EngineKinds |-> [n \in Names |-> 0]]
    /\ engine = {} /\ enabled = {}
    /\ content = [c \in Calls |-> {}]
    /\ handle = [c \in Calls |-> 0]
    /\ own = [c \in Calls |-> 0]

------------------------------------------------------------------------------
\* A script calls a maker for a rule of kind k with spec s.
Call(k, s) ==
    /\ running = 0 /\ made < MaxCalls
    /\ made' = made + 1
    /\ kind' = [kind EXCEPT ![made'] = k]
    /\ spec' = [spec EXCEPT ![made'] = s]
    /\ running' = made' /\ at' = 0

\* hlWindowRuleBegin, hlLayerRuleBegin: a name in use gives its rule again,
\* anything else a rule of its own, registered at once; either is (dis)abled.
RuleBegin(k, n, on) ==
    LET old  == IF n = Anon THEN 0 ELSE byName[k][n]
        rule == IF old # 0 THEN old ELSE made'
    IN  /\ \E s \in Specs : Call(k, s)
        /\ byName' = IF n = Anon THEN byName ELSE [byName EXCEPT ![k][n] = rule]
        /\ engine' = engine \cup {rule}
        /\ enabled' = IF on THEN enabled \cup {rule} ELSE enabled \ {rule}
        /\ cur' = [cur EXCEPT ![k] = rule]
        /\ own' = [own EXCEPT ![made'] = rule]
        /\ UNCHANGED <<content, handle>>

\* hlWorkspaceRuleBegin: a value in the host, unknown to the compositor.
WorkspaceRuleBegin ==
    /\ \E s \in Specs : Call("workspace", s)
    /\ cur' = [cur EXCEPT !["workspace"] = made']
    /\ own' = [own EXCEPT ![made'] = made']
    /\ UNCHANGED <<byName, engine, enabled, content, handle>>

\* The next item of the running call is x.
Sends(x) ==
    /\ running # 0 /\ at < Len(spec[running])
    /\ spec[running][at + 1] = x

\* Mutant of Receives: positions are counted from 0.
ReceivesFromZero(r) ==
    /\ r # 0
    /\ content' = [content EXCEPT ![r] = @ \cup {<<running, at>>}]
    /\ at' = at + 1
    /\ UNCHANGED <<callVars, running, cur, byName, engine, enabled, handle, own>>

\* The rule r receives the item.
Receives(r) ==
    /\ r # 0
    /\ content' = [content EXCEPT ![r] = @ \cup {<<running, at + 1>>}]
    /\ at' = at + 1
    /\ UNCHANGED <<callVars, running, cur, byName, engine, enabled, handle, own>>

\* hlRuleMatch, for window and layer rules alike: the window rule in progress, if
\* there is one, otherwise the layer rule.
RuleMatch ==
    /\ Sends("match") /\ kind[running] # "workspace"
    /\ Receives(IF cur["window"] # 0 THEN cur["window"] ELSE cur["layer"])

\* Mutant of RuleEffect: the effect goes where a match goes.
RuleEffectAsMatch ==
    /\ Sends("effect")
    /\ Receives(IF cur["layer"] # 0 THEN cur["layer"] ELSE cur[kind[running]])

\* hlWindowRuleEffect, hlLayerRuleEffect and the setters of a workspace rule's
\* fields: each to the rule in progress of its own kind.
RuleEffect ==
    /\ Sends("effect")
    /\ Receives(cur[kind[running]])

\* Mutant of Refuse: the item is passed over.
RefuseSkips ==
    /\ \/ Sends("bad")
       \/ Sends("match") /\ kind[running] = "workspace"
    /\ at' = at + 1
    /\ UNCHANGED <<callVars, running, cur, byName, engine, enabled, content, handle, own>>

\* The maker raises: the spec has an item of the wrong type or an unknown name (a
\* workspace rule takes no match).
Refuse ==
    /\ \/ Sends("bad")
       \/ Sends("match") /\ kind[running] = "workspace"
    /\ running' = 0
    /\ UNCHANGED <<callVars, at, cur, byName, engine, enabled, content, handle, own>>

\* The watchdog abandons the script in the middle of the call.
Abandon ==
    /\ running # 0
    /\ running' = 0
    /\ UNCHANGED <<callVars, at, cur, byName, engine, enabled, content, handle, own>>

\* The whole spec was accepted.
SpecSent == running # 0 /\ at = Len(spec[running])

\* Mutant of RuleCommit: the rule stays in progress.
RuleCommitKeeps ==
    /\ SpecSent /\ kind[running] \in EngineKinds
    /\ handle' = [handle EXCEPT ![running] = cur[kind[running]]]
    /\ running' = 0
    /\ UNCHANGED <<callVars, at, cur, byName, engine, enabled, content, own>>

\* hlWindowRuleCommit, hlLayerRuleCommit: the handle is indexed.
RuleCommit ==
    /\ SpecSent /\ kind[running] \in EngineKinds
    /\ handle' = [handle EXCEPT ![running] = cur[kind[running]]]
    /\ cur' = [cur EXCEPT ![kind[running]] = 0]
    /\ running' = 0
    /\ UNCHANGED <<callVars, at, byName, engine, enabled, content, own>>

\* hlWorkspaceRuleCommit: the value moves into the compositor's list (a selector
\* of its own for each call: what replaceOrAdd merges is the compositor's).
WorkspaceRuleCommit ==
    /\ SpecSent /\ kind[running] = "workspace"
    /\ engine' = engine \cup {cur["workspace"]}
    /\ cur' = [cur EXCEPT !["workspace"] = 0]
    /\ running' = 0
    /\ UNCHANGED <<callVars, at, byName, enabled, content, handle, own>>

\* hlRuleSetEnabled, through the handle of a call that returned one.
RuleSetEnabled ==
    /\ running = 0
    /\ \E c \in Calls, on \in BOOLEAN :
         /\ handle[c] # 0
         /\ enabled' = IF on THEN enabled \cup {handle[c]} ELSE enabled \ {handle[c]}
    /\ UNCHANGED <<callVars, running, at, cur, byName, engine, content, handle, own>>

\* Mutants of ClearSchemeRules: the handles, or the names, outlive the reload.
ClearKeepsHandles ==
    /\ running = 0
    /\ engine' = {} /\ cur' = [k \in Kinds |-> 0]
    /\ byName' = [k \in EngineKinds |-> [n \in Names |-> 0]]
    /\ UNCHANGED <<callVars, running, at, enabled, content, handle, own>>
ClearKeepsNames ==
    /\ running = 0
    /\ engine' = {} /\ cur' = [k \in Kinds |-> 0]
    /\ handle' = [c \in Calls |-> 0]
    /\ UNCHANGED <<callVars, running, at, byName, enabled, content, own>>

\* A config reload: the compositor has emptied its rule engine, clearSchemeRules
\* forgets the names, the handles and whatever was in progress.
ClearSchemeRules ==
    /\ running = 0
    /\ engine' = {}
    /\ byName' = [k \in EngineKinds |-> [n \in Names |-> 0]]
    /\ handle' = [c \in Calls |-> 0]
    /\ cur' = [k \in Kinds |-> 0]
    /\ UNCHANGED <<callVars, running, at, enabled, content, own>>

Next ==
    \/ \E k \in EngineKinds, n \in Names \cup {Anon}, on \in BOOLEAN : RuleBegin(k, n, on)
    \/ WorkspaceRuleBegin
    \/ RuleMatch \/ RuleEffect \/ Refuse \/ Abandon
    \/ RuleCommit \/ WorkspaceRuleCommit
    \/ RuleSetEnabled \/ ClearSchemeRules

Spec == Init /\ [][Next]_vars

------------------------------------------------------------------------------
(* Properties *)

Rules == 0 .. MaxCalls

\* The values of the variables.
TypeOK ==
    /\ made \in Rules /\ running \in Rules /\ at \in Nat
    /\ kind \in [Calls -> Kinds] /\ spec \in [Calls -> Specs \cup {<<>>}]
    /\ cur \in [Kinds -> Rules]
    /\ byName \in [EngineKinds -> [Names -> Rules]]
    /\ engine \in SUBSET Calls /\ enabled \in SUBSET Calls
    /\ content \in [Calls -> SUBSET (Calls \X (Nat \ {0}))]
    /\ handle \in [Calls -> Rules] /\ own \in [Calls -> Rules]

\* The items of call c, and those of a given sort.
ItemsOf(c)    == {<<c, i>> : i \in 1 .. Len(spec[c])}
SortOf(x)     == spec[x[1]][x[2]]

\* A handle stands for the rule its call began, registered now, and that rule has
\* every effect of the call's spec and, of a window rule, every match.  A name finds
\* a registered rule too, never one of before the last reload or of another name.
HandlesAndNamesAreLive ==
    /\ \A c \in Calls : handle[c] # 0 =>
         /\ handle[c] = own[c] /\ own[c] \in engine
         /\ \A x \in ItemsOf(c) :
              (kind[c] = "window" \/ SortOf(x) = "effect") => x \in content[own[c]]
    /\ \A k \in EngineKinds : \A n \in Names : byName[k][n] # 0 =>
         /\ byName[k][n] \in engine /\ kind[byName[k][n]] = k
         /\ \A m \in Names \ {n} : byName[k][m] # byName[k][n]

\* An effect lands on the rule of its own call, and so does a match of a window
\* rule, after any mixture of calls that failed or were abandoned half way.  The
\* compositor sees a workspace rule whole or not at all: no field of a call that
\* failed gets there, and none of a call that returned is missing.
ItemsStayHome ==
    /\ \A r \in Calls : \A x \in content[r] :
         (SortOf(x) = "effect" \/ kind[x[1]] = "window") => own[x[1]] = r
    /\ \A c \in engine : kind[c] = "workspace" => content[c] = ItemsOf(c)

------------------------------------------------------------------------------
(* What the source says of itself and a run refutes *)

\* layer.scm:28: a layer rule matches on what is inside its own #:match.
LayerMatchesStayHome ==
    \A r \in Calls : \A x \in content[r] : kind[x[1]] = "layer" => own[x[1]] = r

=============================================================================
