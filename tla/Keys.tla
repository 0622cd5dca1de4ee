---------------------------------- MODULE Keys ----------------------------------
(***************************************************************************)
(* Logical and physical chords (Bind.cpp).  A user names the symbol he     *)
(* means, "%"; Hyprland matches a bind on the symbol its key has without   *)
(* modifiers, SHIFT and "5".  Two conversions over the active keymap go    *)
(* between the two.  A chord is written as modifier tokens and a key; of   *)
(* several keys the conversions take the last, and one is enough here.     *)
(***************************************************************************)
EXTENDS Naturals, Sequences, FiniteSets, SequencesExt, Errors

CONSTANTS Characters, NamedKeys,  \* symbols that print, and the others: their names
          Printed,                \* Printed[s]: the character as a token, "%" of percent
          Typed,                  \* Typed[t]: the symbol that xkb gives for a character
          Folded,                 \* Folded[t]: a named key in other letters, ENTER
          Events, Unknown,        \* tokens that are no symbol: code:28, and Esc
          NoKey,                  \* a chord of modifiers only
          Aliases,                \* Aliases[t]: the modifier that token t spells
          Lower,                  \* Lower[t]: the token's name in lower case
          Types                   \* Types[k][l][n]: what reaches level n of layout l of
                                  \* key k, the sets of modifiers in the keymap's order

Symbols == Characters \cup NamedKeys
Tokens == Symbols \cup Range(Printed) \cup DOMAIN Folded \cup Events \cup Unknown
Modifiers == Range(Aliases)
Failed == [mods |-> {}, token |-> NoKey]

\* Several symbols may print one character (plus, KP_Add), and xkb gives one of them
\* for it; no event is the name of one that prints.  No modifiers are the first way
\* to a key's first level, and no modifiers reach two levels of a layout.
ASSUME KeysAssumption ==
    /\ Characters \cap (NamedKeys \cup Events) = {} /\ Symbols \cap Unknown = {}
    /\ DOMAIN Printed = Characters /\ DOMAIN Typed = Range(Printed)
    /\ \A t \in DOMAIN Typed : Typed[t] \in Characters /\ Printed[Typed[t]] = t
    /\ Range(Folded) \subseteq Symbols /\ NoKey \notin Tokens
    /\ Lower \in [Tokens -> Tokens] /\ \A s \in Tokens : Lower[Lower[s]] = Lower[s]
    /\ DOMAIN Types \subseteq Nat
    /\ \A k \in DOMAIN Types : 1 \in DOMAIN Types[k] /\ DOMAIN Types[k] \subseteq Nat
    /\ \A k \in DOMAIN Types : \A l \in DOMAIN Types[k] :
        /\ Types[k][l] \in Seq(Seq(SUBSET Modifiers)) /\ 1 \in DOMAIN Types[k][l]
        /\ 1 \in DOMAIN Types[k][l][1] /\ Types[k][l][1][1] = {}
        /\ \A m, n \in DOMAIN Types[k][l] :
             Range(Types[k][l][m]) \cap Range(Types[k][l][n]) # {} => m = n

VARIABLE keys  \* the keymap, a chord as written, and what it becomes

\* A keymap has a symbol on each level of each layout of each key; there is none
\* while no keyboard is connected.
LayoutsOf(k) ==
    {ls \in [DOMAIN Types[k] -> UNION {[DOMAIN T -> Symbols] : T \in Range(Types[k])}] :
       \A l \in DOMAIN ls : ls[l] \in [DOMAIN Types[k][l] -> Symbols]}
Keymaps ==
    {map \in [DOMAIN Types -> UNION {LayoutsOf(k) : k \in DOMAIN Types}] :
       \A k \in DOMAIN map : map[k] \in LayoutsOf(k)}
NoKeymap == <<>>
NoKeys == [asked |-> FALSE]

KeysInit == keys = NoKeys

-------------------------------------------------------------------------------
(* xkbcommon's: a state made afresh is of the first layout.                *)

Base(map, k) == map[k][1][1]

\* The modifiers that a key looks at.
Consumed(k) == UNION UNION {Range(masks) : masks \in Range(Types[k][1])}

\* The symbol of key k while mods are down.
SymbolAt(map, k, mods) ==
    LET levels == {n \in DOMAIN map[k][1] : mods \cap Consumed(k) \in Range(Types[k][1][n])} IN
    IF levels = {} THEN Base(map, k) ELSE map[k][1][CHOOSE n \in levels : TRUE]

\* The modifiers that the conversions take for a level: the first that reach it.
Reach(k, l, n) == IF Types[k][l][n] = <<>> THEN {} ELSE Types[k][l][n][1]

First(S) == CHOOSE x \in S : \A y \in S : x <= y

-------------------------------------------------------------------------------

\* keysymToChar: what a user reads.  keysymToName is what Hyprland parses, and
\* a symbol is its name here.
KeysymToChar(s) == IF s \in Characters THEN Printed[s] ELSE s

\* tokenToKeysym: a name as it is, then in other letters, then a character.
TokenToKeysym(t) ==
    IF t \in Symbols THEN t
    ELSE IF t \in DOMAIN Folded THEN Folded[t]
    ELSE IF t \in DOMAIN Typed THEN Typed[t]
    ELSE NoKey

Chord(mods, token) == [mods |-> mods, token |-> token]

\* Keybinds::modifierFromString, splitTokens: a chord's modifiers and its key.
SplitTokens(spelled, token) == Chord({Aliases[t] : t \in spelled}, token)
IsEvent(c) == c.token \in Events

\* hlSchemeKeyRegularise: one form for every way to write a chord.
Regularise(spelled, token) ==
    IF token = NoKey THEN Failed
    ELSE Chord(SplitTokens(spelled, token).mods, Lower[token])

\* maskToTokens: the names of modifiers, which splitTokens reads again.
Spelled(mods) == {t \in DOMAIN Aliases : Aliases[t] \in mods}

\* The first key, layout and level with the symbol, in the order of the search.
Where(map, symbol) ==
    LET ks == {k \in DOMAIN map : \E l \in DOMAIN map[k] : symbol \in Range(map[k][l])}
        k  == First(ks)
        l  == First({m \in DOMAIN map[k] : symbol \in Range(map[k][m])})
    IN  IF ks = {} THEN <<>> ELSE <<k, l, First({n \in DOMAIN map[k][l] : map[k][l][n] = symbol})>>

\* hlSchemeKeyLogicalToPhysical.
LogicalToPhysical(map, c) ==
    LET want == TokenToKeysym(c.token)
        at   == Where(map, want)
    IN  IF c.token = NoKey THEN Failed
        ELSE IF IsEvent(c) THEN c
        ELSE IF map = NoKeymap \/ want = NoKey THEN Failed
        ELSE IF at # <<>> THEN Chord(c.mods \cup Reach(at[1], at[2], at[3]), Base(map, at[1]))
        ELSE IF want \in NamedKeys THEN c
        ELSE Failed

\* Mutant: the modifiers that the symbol absorbed stay.
PhysicalKept(map, c) ==
    LET ks == {k \in DOMAIN map : Base(map, k) = TokenToKeysym(c.token)} IN
    IF IsEvent(c) \/ TokenToKeysym(c.token) \notin Characters \/ ks = {} THEN c
    ELSE Chord(c.mods, KeysymToChar(SymbolAt(map, First(ks), c.mods)))

\* hlSchemeKeyPhysicalToLogical: the modifiers that the symbol absorbed go.
PhysicalToLogical(map, c) ==
    LET base   == TokenToKeysym(c.token)
        ks     == {k \in DOMAIN map : Base(map, k) = base}
        k      == First(ks)
        symbol == SymbolAt(map, k, c.mods)
        level  == First({n \in DOMAIN map[k][1] : map[k][1][n] = symbol})
    IN  IF c.token = NoKey THEN Failed
        ELSE IF IsEvent(c) THEN c
        ELSE IF map = NoKeymap THEN Failed
        ELSE IF base \notin Characters \/ ks = {} THEN c
        ELSE Chord(c.mods \ Reach(k, 1, level), KeysymToChar(symbol))

\* A chord is bound, which converts it, and described, which converts it back.
Convert ==
    /\ keys = NoKeys
    /\ \E map \in Keymaps \cup {NoKeymap}, spelled \in SUBSET DOMAIN Aliases, token \in Tokens \cup {NoKey} :
        LET c == SplitTokens(spelled, token)
            p == LogicalToPhysical(map, c)
        IN  /\ keys' = [asked |-> TRUE, map |-> map, logical |-> c, physical |-> p,
                        canonical |-> Regularise(spelled, token),
                        back |-> IF p = Failed THEN Failed ELSE PhysicalToLogical(map, p)]
            /\ IF p = Failed THEN Fail("hl-key-logical-to-physical") ELSE Fine

Forget ==
    /\ keys # NoKeys
    /\ keys' = NoKeys
    /\ Fine

KeysNext == Convert \/ Forget

-------------------------------------------------------------------------------

\* The chord's symbol has its place where a bind can reach it: in the first layout,
\* by the level's own modifiers and none that the user adds, on the first key that
\* Hyprland takes for it; and what it prints is read as that symbol.  Every chord of a
\* key that prints, of its shifted character and of a named key (Return, F1) has, on
\* any keymap but for the keypad and what only a second layout carries.
Placed(map, c) ==
    LET symbol == TokenToKeysym(c.token)
        at     == Where(map, symbol)
        k      == at[1]
    IN  at # <<>> =>
            /\ at[2] = 1 /\ TokenToKeysym(KeysymToChar(symbol)) = symbol
            /\ IF Base(map, k) \in Characters
               THEN /\ c.mods \cap Consumed(k) = {} /\ Types[k][1][at[3]] # <<>>
                    /\ \A j \in DOMAIN map : Base(map, j) = Base(map, k) => k <= j
               ELSE at[3] = 1

(* A chord that a user binds by its character is, where the keymap places  *)
(* the character so that a bind can reach it, a chord that types it when   *)
(* it is pressed, and is shown to him with the character he meant and no   *)
(* modifier that it absorbed ("%" is SHIFT and 5, and not S-%); a named    *)
(* key and an event come back as they were.  Whatever the keymap, the      *)
(* bound chord has a name that Hyprland can parse -- never a bare "%" --   *)
(* and a chord has one canonical form.                                     *)
KeysRoundTrip ==
    keys.asked /\ keys.physical # Failed =>
        LET symbol == TokenToKeysym(keys.logical.token) IN
        /\ keys.physical.token \in Symbols \cup DOMAIN Folded \cup Events
        /\ Regularise(Spelled(keys.logical.mods), keys.logical.token) = keys.canonical
        /\ Regularise(Spelled(keys.canonical.mods), keys.canonical.token) = keys.canonical
        /\ IsEvent(keys.logical) => keys.back = keys.logical
        /\ ~IsEvent(keys.logical) /\ Placed(keys.map, keys.logical) =>
            /\ keys.back.mods = keys.logical.mods
            /\ TokenToKeysym(keys.back.token) = symbol
            /\ symbol \in Characters =>
                /\ keys.back.token = Printed[symbol]
                /\ \E k \in DOMAIN keys.map :
                     /\ Base(keys.map, k) = keys.physical.token
                     /\ SymbolAt(keys.map, k, keys.physical.mods) = symbol

(* The same of every chord.  Refuted: a symbol of the keypad, one that     *)
(* only the second layout has, a modifier of the user's that selects a     *)
(* level of the key.                                                       *)
KeysAlwaysRoundTrip ==
    keys.asked /\ keys.physical # Failed =>
        /\ keys.back.mods = keys.logical.mods
        /\ TokenToKeysym(keys.back.token) = TokenToKeysym(keys.logical.token)
===============================================================================
