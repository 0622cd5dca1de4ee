------------------------------- MODULE MCFamilies -------------------------------
(* One notification slot and one window slot, two handles, an address       *)
(* given out twice; one output, one device, one option, two fields of which *)
(* one goes over the scratch stack.                                         *)
EXTENDS Families, TLC

CONSTANTS note, window, swipe, up, shift, altgr, super, five, percent, keypad, sign, enter,
          capital, code, esc

MCLives == note :> 2 @@ window :> 1
MCFocused == -1

MCShadows == {<<swipe, swipe>>, <<up, up>>, <<swipe, up>>}
\* A key of one layout and two levels, the second of which two modifiers reach; and a
\* key of two layouts, with a level of AltGr in the first.
MCTypes == << << << <<{}>>, <<{shift}, {altgr}>> >> >>,
              << << <<{}>>, <<{altgr}>> >>, << <<{}>> >> >> >>
MCAliases == "SHIFT" :> shift @@ "MOD5" :> altgr @@ "SUPER" :> super @@ "MOD4" :> super
\* The keypad's symbol prints the character that another key is typed for.
MCPrinted == five :> five @@ percent :> sign @@ keypad :> sign
MCTyped == five :> five @@ sign :> percent
MCFolded == capital :> enter
MCLower == [t \in {five, percent, keypad, sign, enter, capital, code, esc} |->
               IF t = capital THEN enter ELSE t]

MCFamily == note :> "notification" @@ window :> "window"
===============================================================================
