------------------------------ MODULE MCModes ------------------------------
EXTENDS Modes

MCOrder == <<"ekeys", "nkeys", "mark">>

\* Hooks that set nothing, but for those of f.
With(f) == [s \in Settings |-> IF s \in DOMAIN f THEN f[s] ELSE <<>>]

\* Two modes that evict each other, and one that will not survive a restore.
Exclusive == [s \in {<<"ekeys", TRUE>>, <<"nkeys", TRUE>>} |->
                 IF s[1] = "ekeys" THEN <<<<"nkeys", FALSE>>>> ELSE <<<<"ekeys", FALSE>>>>]
Transient == [s \in DOMAIN Exclusive \cup {<<"mark", TRUE>>} |->
                 IF s[1] = "mark" THEN <<<<"mark", FALSE>>>> ELSE Exclusive[s]]

\* One mode turns on another, which takes it down when it goes off, and a third evicts it.
Chained == [s \in {<<"ekeys", TRUE>>, <<"nkeys", TRUE>>, <<"mark", FALSE>>} |->
               CASE s[1] = "ekeys" -> <<<<"mark", FALSE>>, <<"nkeys", FALSE>>>>
                 [] s[1] = "nkeys" -> <<<<"mark", TRUE>>>>
                 [] OTHER          -> <<<<"nkeys", FALSE>>>>]

MCHookSets == {With(Exclusive), With(Transient), With(Chained)}
============================================================================
