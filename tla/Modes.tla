-------------------------------- MODULE Modes --------------------------------
(* Modes (hyprscheme/emacs-keymaps.scm:783-1118): a named flag with a colour, a *)
(* state file and two hooks.  mode-active-set! sets the flag, runs a hook of    *)
(* the config, and then makes the file, the colours and the keymaps follow.  A  *)
(* hook may set modes itself (that is how modes evict each other), and it may   *)
(* raise, or be abandoned by the watchdog, and take the rest with it.  A reload *)
(* or a crash of the compositor leaves the state files only, from which         *)
(* hl-modes-restore! turns the modes on again.                                  *)
EXTENDS Naturals, Sequences, SequencesExt

CONSTANTS
    Order,     \* the modes, in the order the config makes them
    Colored,   \* those with a colour, and so a window rule
    HookSets   \* what the hooks of a config may be: for a mode and what it is set
               \* to, the modes the hook sets

AllModes == ToSet(Order)
Settings == AllModes \X BOOLEAN

ASSUME ModesAssumption ==
    /\ Order \in Seq(AllModes) /\ IsInjective(Order) /\ Colored \subseteq AllModes
    /\ HookSets \subseteq [Settings -> Seq(Settings)]

VARIABLES
    hooks,      \* the config's hooks
    active,     \* the flag of each mode
    file,       \* the modes whose state file exists
    lit,        \* the modes whose colour rule is enabled
    armed,      \* the modes a keymap is armed for: one whose condition reads the flag
    stack,      \* the calls of mode-active-set! under way, the innermost last
    restoring,  \* the modes hl-modes-restore! has yet to look at
    dirty,      \* history: a hook has raised, and no call has ended since
    unsure,     \* history: modes whose last call did not end or could not write, or that
                \* the config has not restored
    selfSet,    \* history: modes whose last call to end had another one inside
    kept        \* history: modes that had a file at the load, until a script sets one

histVars == <<dirty, unsure, selfSet, kept>>
vars     == <<hooks, active, file, lit, armed, stack, restoring, histVars>>

On        == {m \in AllModes : active[m]}
Idle      == stack = <<>> /\ restoring = <<>>
Top       == Last(stack)
UnderWay(st) == {st[i].mode : i \in DOMAIN st}

Before(m, n) == \E i, j \in DOMAIN Order : Order[i] = m /\ Order[j] = n /\ i < j

\* The first mode that is on and has a colour (hl--modes-apply-colors!).
Winner(flags) ==
    {m \in Colored : flags[m] /\ \A n \in Colored : flags[n] => ~Before(n, m)}

------------------------------------------------------------------------------
(* mode-active-set! *)

\* Mutant of Call: the list of what the hook does is counted from zero.
CallFromZero(m, on, st) ==
    /\ active' = [active EXCEPT ![m] = on]
    /\ stack'  = Append(st, [mode |-> m, on |-> on, next |-> 0, again |-> FALSE])

\* A call that another one for m is made inside of.
Marked(f, m) == [f EXCEPT !.again = @ \/ f.mode = m]

\* The call begins: the flag is set before the hook runs.
Call(m, on, st) ==
    /\ active' = [active EXCEPT ![m] = on]
    /\ stack'  = Append([i \in DOMAIN st |-> Marked(st[i], m)],
                        [mode |-> m, on |-> on, next |-> 1, again |-> FALSE])

\* The hook sets a mode.
HookSetsMode ==
    /\ stack # <<>>
    /\ LET ops == hooks[<<Top.mode, Top.on>>] IN
       /\ Top.next <= Len(ops)
       /\ Call(ops[Top.next][1], ops[Top.next][2], [stack EXCEPT ![Len(stack)].next = @ + 1])
    /\ UNCHANGED <<hooks, file, lit, armed, restoring, histVars>>

\* The hook raises or is abandoned: the calls unwind, up to a hook that catches the error or
\* to the callback's own guard, and hl-modes-restore! with them.
HookRaises ==
    /\ stack # <<>>
    /\ \E k \in 0..(Len(stack) - 1) :
         /\ stack' = SubSeq(stack, 1, k)
         /\ restoring' = IF k = 0 THEN <<>> ELSE restoring
         /\ unsure' = unsure \cup UnderWay(SubSeq(stack, k + 1, Len(stack)))
                             \cup (IF k = 0 THEN ToSet(restoring) ELSE {})
    /\ dirty' = TRUE
    /\ UNCHANGED <<hooks, active, file, lit, armed, selfSet, kept>>

\* Mutant of Colors: a mode that is turned off leaves the colours as they are.
ColorsWhenOn == lit' = IF Winner(active) = {} THEN lit ELSE Winner(active)

Colors == lit' = Winner(active)

\* Mutant of FileWrite: the file of a mode that is turned off stays.
FileOnlyWrites(f, works) ==
    file' = IF works /\ f.on THEN file \cup {f.mode} ELSE file

\* hl--mode-file-write!: written or removed, and nothing said when that fails.
FileWrite(f, works) ==
    file' = IF ~works THEN file ELSE IF f.on THEN file \cup {f.mode} ELSE file \ {f.mode}

\* hl-keymaps-recheck!
Recheck == armed' = On

\* The hook returns: the file, the colours and the keymaps follow.
Finish(works) ==
    /\ stack # <<>>
    /\ Top.next > Len(hooks[<<Top.mode, Top.on>>])
    /\ FileWrite(Top, works) /\ Colors /\ Recheck
    /\ unsure'  = IF ~works THEN unsure \cup {Top.mode}
                  ELSE IF Top.again THEN unsure ELSE unsure \ {Top.mode}
    /\ selfSet' = IF Top.again THEN selfSet \cup {Top.mode} ELSE selfSet \ {Top.mode}
    /\ stack' = Front(stack) /\ dirty' = FALSE
    /\ UNCHANGED <<hooks, active, restoring, kept>>

\* A bind or a script sets a mode.
ModeActiveSet(m, on) ==
    /\ Idle /\ Call(m, on, stack) /\ kept' = {}
    /\ UNCHANGED <<hooks, file, lit, armed, restoring, dirty, unsure, selfSet>>

\* The focused window changes: the conditions are looked at.
Focus ==
    /\ Idle /\ armed' = On
    /\ UNCHANGED <<hooks, active, file, lit, stack, restoring, histVars>>

------------------------------------------------------------------------------
(* Reload, crash and restore *)

\* A reload, or a new session after a crash at any moment: modes are born off, their rules
\* disabled and the keymaps too, and the files are there.  The config ends with a call of
\* hl-modes-restore!, or it fails before, or never calls it.
Load(restore) ==
    /\ active' = [m \in AllModes |-> FALSE] /\ lit' = {} /\ armed' = {}
    /\ stack' = <<>>
    /\ restoring' = IF restore THEN Order ELSE <<>>
    /\ dirty' = FALSE /\ selfSet' = {}
    /\ unsure' = IF restore THEN {} ELSE file
    /\ kept' = IF restore THEN file ELSE {}
    /\ UNCHANGED <<hooks, file>>

Reload(restore) == Idle /\ Load(restore)
Crash(restore)  == ~Idle /\ Load(restore)

\* Mutant of Restore: it ends at the first mode that was off.
RestoreUntilOff ==
    /\ stack = <<>> /\ restoring # <<>>
    /\ LET m == Head(restoring) IN
       IF m \in file THEN Call(m, TRUE, stack) /\ restoring' = Tail(restoring)
       ELSE restoring' = <<>> /\ UNCHANGED <<active, stack>>
    /\ UNCHANGED <<hooks, file, lit, armed, histVars>>

\* Mutant of Restore: the flag is set without the hook, as nothing new happened.
RestoreFlagOnly ==
    /\ stack = <<>> /\ restoring # <<>>
    /\ restoring' = Tail(restoring)
    /\ active' = [active EXCEPT ![Head(restoring)] = Head(restoring) \in file]
    /\ UNCHANGED <<hooks, file, lit, armed, stack, histVars>>

\* hl-modes-restore! looks at the next mode, in the order of registration.
Restore ==
    /\ stack = <<>> /\ restoring # <<>>
    /\ restoring' = Tail(restoring)
    /\ LET m == Head(restoring) IN
       IF m \in file THEN Call(m, TRUE, stack) ELSE UNCHANGED <<active, stack>>
    /\ UNCHANGED <<hooks, file, lit, armed, histVars>>

Init ==
    /\ hooks \in HookSets /\ active = [m \in AllModes |-> FALSE]
    /\ file \in SUBSET AllModes /\ lit = {} /\ armed = {}
    /\ stack = <<>> /\ restoring = Order
    /\ dirty = FALSE /\ unsure = {} /\ selfSet = {} /\ kept = file

Next ==
    \/ HookSetsMode \/ HookRaises \/ Restore \/ Focus
    \/ \E works \in BOOLEAN : Finish(works)
    \/ \E m \in AllModes, on \in BOOLEAN : ModeActiveSet(m, on)
    \/ \E restore \in BOOLEAN : Reload(restore) \/ Crash(restore)

Spec == Init /\ [][Next]_vars

------------------------------------------------------------------------------
(* Properties *)

Frames == [mode : AllModes, on : BOOLEAN, next : Nat \ {0}, again : BOOLEAN]

\* Types of the variables (hl-mode-rtd).
TypeOK ==
    /\ hooks \in HookSets /\ active \in [AllModes -> BOOLEAN]
    /\ file \subseteq AllModes /\ lit \subseteq Colored /\ armed \subseteq AllModes
    /\ stack \in Seq(Frames) /\ restoring \in Seq(AllModes)
    /\ dirty \in BOOLEAN /\ unsure \subseteq AllModes
    /\ selfSet \subseteq AllModes /\ kept \subseteq AllModes

\* However hooks nest, once the outermost call has ended the keymaps and the colours are those
\* of the flags, with one colour at most (hl-keymaps-recheck!, hl--modes-apply-colors!).
EffectsFollow == Idle /\ ~dirty => armed = On /\ lit = Winner(active)

\* Evicted modes, restores, crashes and failed writes included: a mode whose last call ended
\* and wrote has a file exactly while it is on, unless it was set inside its own call.
FileFollows == Idle => \A m \in AllModes \ (unsure \cup selfSet) : m \in file <=> active[m]

\* Both: what a flag stands for outside its call, in this session and in the next.
FlagsAreFollowed == EffectsFollow /\ FileFollows

TurnsOff(s, m) == \E i \in DOMAIN hooks[s] : hooks[s][i] = <<m, FALSE>>
Evicts(m, n)   == TurnsOff(<<m, TRUE>>, n)

\* Modes whose hooks evict each other are never both on once their calls have ended, even
\* when both had a file (hl-modes-restore!, the eviction in make-mode's comment).
EvictedIsOff ==
    Idle => \A m, n \in AllModes \ unsure :
                m # n /\ Evicts(m, n) /\ Evicts(n, m) => ~(active[m] /\ active[n])

\* A restore turns on every mode that had a file and that no hook turns off.
RestoredUnlessEvicted ==
    Idle => \A m \in kept \ unsure : active[m] \/ \E s \in Settings : TurnsOff(s, m)

\* Both: of the modes to be on, eviction leaves out those it is for and no others.
EvictionDecides == EvictedIsOff /\ RestoredUnlessEvicted

------------------------------------------------------------------------------
(* What the source says of itself *)

\* emacs-keymaps.scm:844, the state file exists exactly while the mode is on.
FileIsTheMode == Idle => \A m \in AllModes \ unsure : m \in file <=> active[m]

\* emacs-keymaps.scm:1088, if two files exist, the mode defined last wins the eviction.
LastWins ==
    Idle /\ unsure = {} =>
        \A m, n \in kept : Before(m, n) /\ Evicts(m, n) /\ Evicts(n, m) => active[n]

\* emacs-keymaps.scm:809, a flag and its effects cannot then disagree.
FlagAndEffectsAgree == Idle => armed = On /\ lit = Winner(active)
==============================================================================
