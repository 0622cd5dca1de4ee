-------------------------------- MODULE Errors --------------------------------
(***************************************************************************)
(* g_configError: one string for every family.  A C++ entry point that     *)
(* refuses writes its reason there and answers a negative number (or #f);  *)
(* the Scheme wrapper reads the string back through hl-config-last-error   *)
(* and raises it.  Nothing ties the two together: a refusal that forgets   *)
(* to write raises whatever an earlier call, of any family, left behind.   *)
(***************************************************************************)
VARIABLES configError,  \* the entry point whose reason the string holds
          raised        \* what the last call raised: who, whose reason it showed

errorVars == <<configError, raised>>

NoRaise == [by |-> "nobody", said |-> "nobody"]

\* A refusal by an entry point that writes its reason first.
Refuse(who) ==
    /\ configError' = who
    /\ raised' = NoRaise

\* The wrapper of `who` raises after a refusal that left the string alone.
FailSilently(who) ==
    /\ raised' = [by |-> who, said |-> configError]
    /\ UNCHANGED configError

\* The wrapper of `who` raises after an entry point that wrote its reason.
Fail(who) ==
    /\ configError' = who
    /\ raised' = [by |-> who, said |-> who]

Fine ==
    /\ raised' = NoRaise
    /\ UNCHANGED configError

ErrorsInit(none) ==
    /\ configError = none
    /\ raised = NoRaise

\* The entry points that refuse some calls without a word.
Silent == {"hl-group-add!", "hl-group-remove!", "hl-exec!"}

(* What a script is shown is the reason of the call that failed, never the *)
(* leftover of another one (hl--notif-act, hl-monitor-rule-add!,           *)
(* hl-config-add!, hl-device-add! and the curve calls).                    *)
RaisedIsOwn == raised.by \notin Silent => raised.said = raised.by

(* The same of every call.  Refuted: a dead group, a command that cannot   *)
(* be spawned.                                                             *)
RaisedIsAlwaysOwn == raised.said = raised.by
===============================================================================
