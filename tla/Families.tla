-------------------------------- MODULE Families --------------------------------
(***************************************************************************)
(* The families of entry points side by side: they share the string of the *)
(* last error, and the windows.  A script's wrappers never interleave, so  *)
(* a behaviour lets one family act; what all the others may have done      *)
(* before is the arbitrary string it starts with.                          *)
(***************************************************************************)
EXTENDS Notification, Config, Groups, Workspaces, Gestures, Keys

CONSTANT Leftovers  \* what an earlier refusal may have left in the string

VARIABLE acting     \* the family this behaviour is about

vars == <<handleVars, notificationVars, configVars, windowVars, groupVars, spaceVars,
          gestureVars, keys, errorVars, acting>>

Init ==
    /\ NotificationInit /\ ConfigInit /\ WindowsInit /\ GroupsInit /\ WorkspacesInit
    /\ GesturesInit /\ KeysInit
    /\ \E e \in Leftovers : ErrorsInit(e)
    /\ acting \in {"notification", "stack", "tables", "windows", "fullscreen",
                   "groups", "workspaces", "gestures", "keys"}

NotificationActs ==
    /\ acting = "notification"
    /\ NotificationNext
    /\ UNCHANGED <<configVars, windowVars, groupVars, spaceVars, gestureVars, keys, acting>>

ConfigActs ==
    /\ \/ acting = "stack" /\ StackNext
       \/ acting = "tables" /\ TablesNext
    /\ UNCHANGED <<handleVars, notificationVars, windowVars, groupVars, spaceVars, gestureVars,
                   keys, acting>>

WindowsAct ==
    /\ \/ acting = "windows" /\ WindowsNext /\ UNCHANGED <<groupVars, spaceVars>>
       \/ acting = "fullscreen" /\ FullscreenNext /\ UNCHANGED <<groupVars, spaceVars>>
       \/ acting = "groups" /\ GroupsNext /\ UNCHANGED spaceVars
       \/ acting = "workspaces" /\ WorkspacesNext /\ UNCHANGED groupVars
    /\ UNCHANGED <<handleVars, notificationVars, configVars, gestureVars, keys, acting>>

InputActs ==
    /\ \/ acting = "gestures" /\ GesturesNext /\ UNCHANGED keys
       \/ acting = "keys" /\ KeysNext /\ UNCHANGED gestureVars
    /\ UNCHANGED <<handleVars, notificationVars, configVars, windowVars, groupVars, spaceVars,
                   acting>>

Next == NotificationActs \/ ConfigActs \/ WindowsAct \/ InputActs

Spec == Init /\ [][Next]_vars

TypeOK ==
    /\ NotificationTypeOK /\ ConfigTypeOK
    /\ WindowsTypeOK /\ GroupsTypeOK /\ WorkspacesTypeOK /\ GesturesTypeOK
===============================================================================
