------------------------------- MODULE Keymaps -------------------------------
(* Keymaps: groups of binds that are armed and disarmed together, the submap    *)
(* chain define-key! builds for a key sequence, and the conditions that arm a   *)
(* keymap while they hold of the focused window (hyprscheme/bind.scm,           *)
(* hyprscheme/emacs-keymaps.scm and the bind functions of src/cpp/Bind.cpp).    *)
(*                                                                              *)
(* The compositor keeps one current submap and fires the armed binds of that    *)
(* submap on the key that is pressed.  A submap is a name: here the sequence of *)
(* the words hl--expand joins, <<>> being the default map.  A keymap of the     *)
(* config is a ROOT; a keymap that define-key! makes for a prefix is known by   *)
(* its root and its submap, because it is found by that name in its parent.     *)
EXTENDS Naturals, Sequences, SequencesExt

CONSTANTS
    Roots,     \* the keymaps of a config
    Base,      \* the submap each root is placed in
    Keys,      \* the chords a user presses, besides s-G
    Seqs,      \* the key sequences configs bind
    Windows,   \* the windows
    NoWindow,  \* #f, nothing focused
    Stay,      \* no switch of submap
    Conditions,  \* the conditions configs attach keymaps to
    MaxCalls   \* bound on the calls that register binds in a generation

\* The words of the names of submaps.
Words == Keys \cup UNION {ToSet(Base[r]) : r \in Roots}

ASSUME KeymapsAssumption ==
    /\ DOMAIN Base = Roots /\ Seqs \subseteq Seq(Keys) \ {<<>>}
    /\ NoWindow \notin Windows /\ MaxCalls \in Nat
    /\ Conditions \subseteq {"tagged", "untagged", "mode"}
    /\ \A r \in Roots : /\ Base[r] \in Seq(Words)
                        /\ \A i \in DOMAIN Base[r] : Base[r][i] \notin Keys
    /\ {"s-G", "catchall"} \cap Keys = {} /\ Stay \notin Seq(Words)

\* op over the entries of s at the places I, from left to right.
FoldAt(op(_, _), base, s, I) ==
    MapThenFoldSet(LAMBDA e, acc : op(acc, e), base, LAMBDA i : s[i], Max, I)

\* The entries of s at the places I, in their order.
Keep(s, I) == FoldAt(Append, <<>>, s, I)

\* A keymap: its root and its submap.
Root(r) == <<r, Base[r]>>

VARIABLES
    km,       \* the binds and the keymaps: a record, see NoKeymaps
    conds,    \* hl--window-conditions: <<root, condition>>, the last attached first
    current,  \* the compositor's current submap
    focus,    \* the focused window, or NoWindow
    tagged,   \* the windows carrying the tag
    mode,     \* the flag of a mode
    calls,    \* calls that registered binds in this generation
    unseen    \* history: attached roots that a script armed or disarmed, or whose
              \* window's tags changed, since the registry last looked

vars == <<km, conds, current, focus, tagged, mode, calls, unseen>>

NoKeymaps == [ reg     |-> <<>>,  \* the compositor's binds, in registration order
               held    |-> {},    \* <<keymap, record>>: what keymaps hold
               made    |-> {},    \* the keymaps made
               marks   |-> {},    \* <<keymap, mark>>
               enabled |-> {},    \* the keymaps whose `enabled` is #t
               next    |-> 1 ]    \* the next bind record

Init ==
    /\ km = NoKeymaps /\ conds = <<>> /\ current = <<>>
    /\ focus = NoWindow /\ tagged = {} /\ mode = FALSE
    /\ calls = 0 /\ unseen = {}

------------------------------------------------------------------------------
(* Binds and keymaps, as functions of the record s *)

\* findSchemeBind: registration i is the one its record's tag finds.
Found(s, i) == \A j \in 1 .. i - 1 : s.reg[j].rec # s.reg[i].rec

\* hlSchemeBindEnabledSet on each record of R.
EnabledSet(s, R, on) ==
    [s EXCEPT !.reg = [i \in DOMAIN @ |->
        IF @[i].rec \in R /\ Found(s, i) THEN [@[i] EXCEPT !.on = on] ELSE @[i]]]

\* The records a keymap holds, stale ones included.
Binds(s, k) == {r \in 1 .. s.next : <<k, r>> \in s.held}

\* Mutant of KeymapSet: the keymaps below are walked too.
KeymapSetTree(s, k, on) ==
    [EnabledSet(s, UNION {Binds(s, c) : c \in {d \in s.made : d[1] = k[1]}}, on)
        EXCEPT !.enabled = IF on THEN @ \cup {k} ELSE @ \ {k}]

\* hl-keymap-enable!, hl-keymap-disable!: the keymap's own binds and its flag.
KeymapSet(s, k, on) ==
    [EnabledSet(s, Binds(s, k), on)
        EXCEPT !.enabled = IF on THEN @ \cup {k} ELSE @ \ {k}]

\* hl-make-keymap: enabled at birth.
MakeKeymap(s, k) == [s EXCEPT !.made = @ \cup {k}, !.enabled = @ \cup {k}]

\* Mutant of KeymapAdd: the record of a fresh bind is taken again.
KeymapAddReuses(s, k, rec, key, want, exit, user) ==
    [s EXCEPT !.reg  = Append(@, [rec |-> rec, sub |-> k[2], key |-> key, on |-> TRUE,
                                  want |-> want, exit |-> exit, user |-> user,
                                  root |-> k[1]]),
              !.held = @ \cup {<<k, rec>>}]

\* hl-keymap-add!, hlSchemeBind: the record is registered in the keymap's submap,
\* armed, and held.  Its thunk activates `want`, then `exit`.
KeymapAdd(s, k, rec, key, want, exit, user) ==
    [s EXCEPT !.reg  = Append(@, [rec |-> rec, sub |-> k[2], key |-> key, on |-> TRUE,
                                  want |-> want, exit |-> exit, user |-> user,
                                  root |-> k[1]]),
              !.held = @ \cup {<<k, rec>>},
              !.next = IF rec = @ THEN @ + 1 ELSE @]

\* A fresh bind that only switches to the submap `to`.
Switch(s, k, key, to) == KeymapAdd(s, k, s.next, key, to, Stay, FALSE)

\* Mutant of Once: one mark stands for both ways out.
OnceForBoth(s, k, mark, key, to) ==
    IF <<k, "exit">> \in s.marks THEN s
    ELSE Switch([s EXCEPT !.marks = @ \cup {<<k, "exit">>}], k, key, to)

\* hl--ensure-exit!, one mark: what it stands for is done once.
Once(s, k, mark, key, to) ==
    IF <<k, mark>> \in s.marks THEN s
    ELSE Switch([s EXCEPT !.marks = @ \cup {<<k, mark>>}], k, key, to)

\* hl--ensure-exit!: the ways out of a submap, none in the default map.
EnsureExit(s, k, to, catchall) ==
    LET g == Once(s, k, "exit", "s-G", to)
    IN  IF k[2] = <<>> THEN s
        ELSE IF catchall THEN Once(g, k, "catchall", "catchall", to) ELSE g

\* define-key!, one prefix: the child is found in its parent or built, entered
\* by `chord` and given its ways out.
Descend(at, chord, exit) ==
    LET child == <<at.k[1], Append(at.k[2], chord)>>
    IN  [ k |-> child,
          s |-> IF child \in at.s.made THEN at.s
                ELSE EnsureExit(Switch(MakeKeymap(at.s, child), at.k, chord, child[2]),
                                child, exit, TRUE) ]

\* define-key!, the prefixes of a sequence.
DescendAll(at, chords, exit) ==
    FoldLeft(LAMBDA below, chord : Descend(below, chord, exit), at, chords)

\* define-key! of a thunk that activates `want`: leaves to the default map, or to
\* the keymap's own submap.
DefineKeyIn(s, r, seq, topLevel, want) ==
    LET exit == IF topLevel THEN <<>> ELSE Base[r]
        base == EnsureExit(s, Root(r), <<>>, Base[r] # exit)
        last == DescendAll([s |-> base, k |-> Root(r)], Front(seq), exit)
    IN  KeymapAdd(last.s, last.k, last.s.next, Last(seq), want, exit, TRUE)

------------------------------------------------------------------------------
(* What scripts call *)

Made(r) == Root(r) \in km.made

\* The roots that are attached to a condition.
Attached == {conds[i][1] : i \in DOMAIN conds}

\* A call that registers binds, leaving the keymaps as s.
Registers(s) ==
    /\ calls < MaxCalls
    /\ calls' = calls + 1
    /\ km' = s
    /\ UNCHANGED <<conds, current, focus, tagged, mode, unseen>>

\* hl-make-keymap, named by the config.
HlMakeKeymap(r) == ~Made(r) /\ Registers(MakeKeymap(km, Root(r)))

\* What a bind's thunk switches to: nothing, or the submap of a mode.
Wants == ({Stay} \cup {Base[r] : r \in Roots}) \ {<<>>}

\* define-key! (global-set-key! when the root is in the default map).
DefineKey(r) ==
    /\ Made(r)
    /\ \E seq \in Seqs, top \in BOOLEAN, want \in Wants :
         Registers(DefineKeyIn(km, r, seq, top, want))

\* define-keymap, with one clause: made, bound, then disarmed.
DefineKeymap(r) ==
    /\ ~Made(r)
    /\ \E seq \in Seqs, top \in BOOLEAN :
         Registers(KeymapSet(DefineKeyIn(MakeKeymap(km, Root(r)), r, seq, top, Stay),
                             Root(r), FALSE))

\* hl-keymap-add! of a fresh bind.
HlKeymapAdd(r) ==
    /\ Made(r)
    /\ \E key \in Keys :
         Registers(KeymapAdd(km, Root(r), km.next, key, Stay, Stay, TRUE))

\* hl-keymap-add! of a bind that is registered already: a second registration.
HlKeymapAddAgain(r) ==
    /\ Made(r)
    /\ \E i \in DOMAIN km.reg :
         LET b == km.reg[i]
         IN  b.user /\ Registers(KeymapAdd(km, Root(r), b.rec, b.key, b.want, b.exit, TRUE))

\* The binds alone become reg.
Rebound(reg) ==
    /\ km' = [km EXCEPT !.reg = reg]
    /\ UNCHANGED <<conds, current, focus, tagged, mode, calls, unseen>>

\* hl-unbind! with the handle of a bind the config made: the first registration.
HlUnbind ==
    \E i \in DOMAIN km.reg :
        km.reg[i].user /\ Found(km, i) /\ Rebound(RemoveAt(km.reg, i))

\* hl-unbind-key!: every bind on the key.
HlUnbindKey ==
    \E key \in Keys :
        Rebound(Keep(km.reg, {i \in DOMAIN km.reg : km.reg[i].key # key}))

\* hl-bind-enabled-set! on one bind of the config.
HlBindEnabledSet ==
    \E i \in DOMAIN km.reg, on \in BOOLEAN :
        km.reg[i].user /\ Rebound(EnabledSet(km, {km.reg[i].rec}, on).reg)

\* hl-keymap-enable!, hl-keymap-disable! by a script.
HlKeymapSet(r) ==
    /\ Made(r)
    /\ \E on \in BOOLEAN : km' = KeymapSet(km, Root(r), on)
    /\ unseen' = unseen \cup ({r} \cap Attached)
    /\ UNCHANGED <<conds, current, focus, tagged, mode, calls>>

------------------------------------------------------------------------------
(* Conditions *)

\* What condition c answers for the window w.
Holds(c, w, tags, m) ==
    \/ c = "tagged" /\ w \in tags
    \/ c = "untagged" /\ w \notin tags
    \/ c = "mode" /\ m

\* hl--condition-apply: every attached keymap is told what it should be now.
ConditionApply(entries, w, tags, m) ==
    FoldLeft(LAMBDA s, e : KeymapSet(s, Root(e[1]), Holds(e[2], w, tags, m)), km, entries)

\* The attached keymaps have just been looked at.
Looked == unseen' = {}

\* hl-keymap-attach-to-window-condition!: replaces the keymap's condition.
Attach(r) ==
    /\ Made(r)
    /\ \E c \in Conditions :
         conds' = <<<<r, c>>>> \o Keep(conds, {i \in DOMAIN conds : conds[i][1] # r})
    /\ km' = ConditionApply(conds', focus, tagged, mode)
    /\ Looked
    /\ UNCHANGED <<current, focus, tagged, mode, calls>>

\* window.active: the listener is there since the first attach.
WindowActive ==
    /\ \E w \in Windows \cup {NoWindow} : w # focus /\ focus' = w
    /\ km' = ConditionApply(conds, focus', tagged, mode)
    /\ Looked
    /\ UNCHANGED <<conds, current, tagged, mode, calls>>

\* Mutant of ModeActiveSet: the recheck is forgotten.
ModeActiveSetOnly ==
    /\ mode' = ~mode
    /\ UNCHANGED <<km, conds, current, focus, tagged, calls, unseen>>

\* mode-active-set!: the flag, then hl-keymaps-recheck!.
ModeActiveSet ==
    /\ mode' = ~mode
    /\ km' = ConditionApply(conds, focus, tagged, mode')
    /\ Looked
    /\ UNCHANGED <<conds, current, focus, tagged, calls>>

\* hl-window-tag-add!, or a rule that tags: nobody looks at the conditions.
WindowTag(w) ==
    /\ tagged' = IF w \in tagged THEN tagged \ {w} ELSE tagged \cup {w}
    /\ unseen' = IF w = focus THEN unseen \cup Attached ELSE unseen
    /\ UNCHANGED <<km, conds, current, focus, mode, calls>>

------------------------------------------------------------------------------
(* The compositor *)

\* setSubmap: a submap no bind is in is refused.
Goto(cur, to) ==
    IF to = <<>> \/ \E i \in DOMAIN km.reg : km.reg[i].sub = to THEN to ELSE cur

\* enterSubmap, by a script.
HlSubmapActivate ==
    /\ \E r \in Roots : current' = Goto(current, Base[r])
    /\ UNCHANGED <<km, conds, focus, tagged, mode, calls, unseen>>

\* The places of the armed binds of the current submap on a key.
Matches(key) ==
    LET Armed(b) == b.on /\ b.sub = current /\ b.key = key
    IN  {i \in DOMAIN km.reg : Armed(km.reg[i])}

\* What a key fires: every match, and the catchalls when there is none.
Fires(key) == IF Matches(key) = {} THEN Matches("catchall") ELSE Matches(key)

\* fireSchemeBindRec: the thunk switches, and leaves by its exit.
Fire(cur, b) == Goto(Goto(cur, b.want), b.exit)

\* The submap a key leads to: its binds fire in the order of their registration.
Pressed(key) == FoldAt(Fire, current, km.reg, Fires(key))

\* A key is pressed.
Press(key) ==
    /\ current' = Pressed(key)
    /\ UNCHANGED <<km, conds, focus, tagged, mode, calls, unseen>>

\* A config reload: the compositor clears the binds and leaves the submap, `reset`
\* forgets the keymaps, the conditions and the modes.
Reset ==
    /\ km' = NoKeymaps /\ conds' = <<>> /\ current' = <<>> /\ mode' = FALSE
    /\ calls' = 0 /\ Looked
    /\ UNCHANGED <<focus, tagged>>

Script ==
    \/ \E r \in Roots : \/ HlMakeKeymap(r) \/ DefineKey(r) \/ DefineKeymap(r)
                        \/ HlKeymapAdd(r) \/ HlKeymapAddAgain(r)
                        \/ HlKeymapSet(r) \/ Attach(r)
    \/ HlUnbind \/ HlUnbindKey \/ HlBindEnabledSet \/ HlSubmapActivate

User ==
    \/ WindowActive \/ ModeActiveSet
    \/ \E w \in Windows : WindowTag(w)
    \/ \E key \in Keys \cup {"s-G"} : Press(key)

Next == Script \/ User \/ Reset

Spec == Init /\ [][Next]_vars

------------------------------------------------------------------------------
(* Properties *)

\* The submaps define-key! made for prefixes.
ChainSubmaps == {k[2] : k \in {c \in km.made : c # Root(c[1])}}

\* The values of the variables.
TypeOK ==
    /\ \A i \in DOMAIN km.reg :
         /\ km.reg[i].rec \in 1 .. km.next - 1 /\ km.reg[i].on \in BOOLEAN
         /\ km.reg[i].root \in Roots
    /\ km.held \subseteq km.made \X (1 .. km.next - 1)
    /\ km.enabled \subseteq km.made
    /\ \A i \in DOMAIN conds : conds[i] \in Roots \X Conditions
    /\ focus \in Windows \cup {NoWindow} /\ tagged \subseteq Windows
    /\ calls \in 0 .. MaxCalls /\ unseen \subseteq Attached

\* An attached keymap is armed exactly while its condition holds, of whatever
\* window has the focus and whatever the mode is, unless a script set it by hand or
\* the tags of the focused window changed since the registry last looked
\* (hl--condition-apply, hl-keymaps-recheck!).
AttachedFollows ==
    \A i \in DOMAIN conds : conds[i][1] \notin unseen =>
        (Root(conds[i][1]) \in km.enabled) = Holds(conds[i][2], focus, tagged, mode)

\* In the middle of a key sequence there is always a way out: an armed s-G and an
\* armed catchall, even when the keymap that began the sequence has been disarmed
\* or its binds removed meanwhile (hl--ensure-exit!).
PrefixNotStranded ==
    current \in ChainSubmaps => Matches("s-G") # {} /\ Matches("catchall") # {}

\* A key that nothing in a prefix's submap is bound to abandons the sequence: it
\* runs no action, and leads to the default map or to a mode's own.
AbandonReturns ==
    \A key \in Keys : current \in ChainSubmaps /\ Matches(key) = {} =>
        /\ \A i \in Fires(key) : ~km.reg[i].user
        /\ Pressed(key) \in {<<>>} \cup {Base[r] : r \in Roots}

\* Both: a prefix can be left, by the keys for it and by any other key, and leaving it
\* does nothing else.
PrefixIsLeft == PrefixNotStranded /\ AbandonReturns

------------------------------------------------------------------------------
(* What the source says of itself and the runs refute *)

\* emacs-keymaps.scm:585: the disarm of a keymap covers every bind of it,
\* including the prefix submaps.  What a disarmed keymap keeps behind a prefix is
\* not run, unless its own prefix key is armed.
DisarmedIsSilent ==
    \A key \in Keys : \A b \in {km.reg[i] : i \in Fires(key)} :
        b.user /\ current \in ChainSubmaps /\ Root(b.root) \notin km.enabled =>
            \E p \in ToSet(km.reg) : p.root = b.root /\ p.want = current /\ p.on

\* emacs-keymaps.scm:385: (global-set-key! ... (lambda () (hl-submap-activate! "resize")))
\* is how a mode is entered: the key leads to the submap its thunk asks for.
ModeIsEntered ==
    \A key \in Keys : \A b \in {km.reg[i] : i \in Fires(key)} :
        b.want # Stay => Pressed(key) = Goto(current, b.want)

\* emacs-keymaps.scm:473: the s-G of a mode's own map still leaves it, so a mode
\* with an s-G never traps the user.
ModeNotTrapped ==
    \A r \in Roots : current = Base[r] /\ <<Root(r), "exit">> \in km.marks =>
        \E b \in ToSet(km.reg) : b.on /\ b.sub = current /\ b.key = "s-G"

=============================================================================
