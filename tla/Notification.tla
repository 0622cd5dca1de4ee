------------------------------ MODULE Notification ------------------------------
(***************************************************************************)
(* The notification family (Notification.cpp, notification.scm).  A        *)
(* notification's timeout runs unless it is locked, and locks are counted. *)
(* Scheme pauses through a handle: the handle remembers that it holds a    *)
(* lock, and gives it back when it is resumed or when it is deleted, which *)
(* is the finalizer's business, long after Scheme has forgotten it.        *)
(***************************************************************************)
EXTENDS Handles, Errors

VARIABLES locks,   \* locks[s]: the lock count of the notification at s
          paused   \* the handles whose paused bit is set

notificationVars == <<locks, paused>>

Notifications == {s \in Slots : Family[s] = "notification"}
Live == Related("notification")
NotificationHandles == {h \in Held : Family[handle[h].slot] = "notification"}

NotificationInit ==
    /\ HandlesInit
    /\ locks = [s \in Notifications |-> 0]
    /\ paused = {}

\* A new object at s: nothing locked yet.
Fresh(s) ==
    /\ Born(s)
    /\ locks' = [locks EXCEPT ![s] = 0]
    /\ UNCHANGED <<paused, unmapped>>

-------------------------------------------------------------------------------

\* hl-notification-add!: the whole plist is read before anything is made, so a
\* bad field leaves no notification behind.
NotificationAdd ==
    \/ \E s \in Notifications : Fresh(s) /\ Wrap({s}) /\ Fine
    \/ /\ Fail("hl-notification-add!")
       /\ UNCHANGED <<handleVars, notificationVars>>

\* hl-notify!: no handle; a refusal is #f, not an error, but writes its reason.
Notify ==
    \/ \E s \in Notifications : Fresh(s) /\ UNCHANGED handle /\ Fine
    \/ /\ Refuse("hl-notify!")
       /\ UNCHANGED <<handleVars, notificationVars>>

\* hl-notifications.
NotificationList ==
    /\ List("notification")
    /\ Fine /\ UNCHANGED notificationVars

\* The setters: a bad value is refused whatever the handle is; a good one is
\* written to a live notification and quietly lost on an expired one.
NotificationSet(h, good) ==
    /\ Unwraps(h, "notification")
    /\ IF good THEN Fine ELSE Fail("hl-notification-set!")
    /\ UNCHANGED <<handleVars, notificationVars>>

\* The getters.
NotificationGet(h) ==
    /\ Read(h, "notification")
    /\ Fine /\ UNCHANGED notificationVars

\* hlNotificationPausedSet: the handle's own bit decides, not the lock count.
NotificationPausedSet(h, on) ==
    /\ Unwraps(h, "notification")
    /\ LET s == LockOf(h) IN
       IF s = Nothing \/ on = (h \in paused)
       THEN UNCHANGED <<locks, paused>>
       ELSE /\ locks' = [locks EXCEPT ![s] = IF on THEN @ + 1 ELSE @ - 1]
            /\ paused' = IF on THEN paused \cup {h} ELSE paused \ {h}
    /\ Fine /\ UNCHANGED <<handleVars>>

\* hlNotificationPausedQ: locked by anyone; #f when it has expired.
PausedQ(h) == LockOf(h) # Nothing /\ locks[LockOf(h)] > 0

\* hl-notification-paused-set! without #:on?.
NotificationPausedToggle(h) == NotificationPausedSet(h, ~PausedQ(h))

\* Dismissed by a script: a lock does not keep it.
NotificationDismiss(h) ==
    /\ Unwraps(h, "notification")
    /\ IF LockOf(h) = Nothing THEN UNCHANGED handleVars ELSE Die(LockOf(h))
    /\ Fine /\ UNCHANGED notificationVars

\* The overlay: the timeout of an unlocked notification runs out.
Expire(s) ==
    /\ s \in Live /\ locks[s] = 0
    /\ Die(s)
    /\ Fine /\ UNCHANGED notificationVars

\* Mutant: a handle forgets its lock when it is deleted.
UnlockedNever(s) == 0

\* ~SNotificationHandle, for every handle that the finalizers delete: a paused
\* one gives its lock back if there is anything left to unlock.
Unlocked(s) == Cardinality({h \in Queue \cap paused : LockOf(h) = s})

NotificationFinalizers ==
    /\ RunFinalizers
    /\ locks' = [s \in Notifications |-> locks[s] - Unlocked(s)]
    /\ paused' = paused \ Queue
    /\ Fine

-------------------------------------------------------------------------------
(* The other families share the machinery and have no state of their own.  *)

OtherObjects ==
    /\ \/ \E s \in Slots \ Notifications : \/ Born(s) /\ UNCHANGED <<handle, unmapped>>
                                           \/ Die(s)
                                           \/ Unmap(s)
                                           \/ EventHandle(s)
       \/ \E f \in {Family[s] : s \in Slots} \ {"notification"} :
            \/ List(f)
            \/ Query(f)
            \/ \E h \in Held : ObjectGetter(h, f) \/ Read(h, f)
       \/ Collect
       \/ \E h \in HandleIds : Drop(h)
    /\ Fine /\ UNCHANGED notificationVars

NotificationNext ==
    \/ NotificationAdd
    \/ Notify
    \/ NotificationList
    \/ \E h \in HandleIds :
        \/ \E b \in BOOLEAN : NotificationSet(h, b) \/ NotificationPausedSet(h, b)
        \/ NotificationPausedToggle(h)
        \/ NotificationGet(h)
        \/ NotificationDismiss(h)
    \/ \E s \in Notifications : Expire(s)
    \/ NotificationFinalizers
    \/ OtherObjects

-------------------------------------------------------------------------------

NotificationTypeOK ==
    /\ HandlesTypeOK
    /\ locks \in [Notifications -> Nat]
    /\ paused \subseteq {h \in HandleIds : Exists(h)}

(* A live notification is locked exactly by the handles that paused it and *)
(* have not been deleted yet: no lock is taken twice for one handle, given *)
(* back twice, or left behind by a handle that is gone.                    *)
LocksAreThePauses ==
    \A s \in Live : locks[s] = Cardinality({h \in paused : LockOf(h) = s})

(* The timeout of a notification never runs out while a script holds the   *)
(* handle it was paused through ("usable as a pin", notification.scm).     *)
PinnedStays ==
    [][\A s \in Live : Expire(s) => \A h \in Held \cap paused : LockOf(h) # s]_<<handleVars, notificationVars>>

(* notification.scm: "a paused notification stays on screen until          *)
(* dismissed".  Only while the handle is kept: see the README.             *)
PausedUntilDismissed ==
    [][\A s \in Live : locks[s] > 0 /\ s \in alive' => locks'[s] > 0 \/
        \E h \in NotificationHandles : NotificationPausedSet(h, FALSE) \/ NotificationPausedToggle(h)]_<<handleVars, notificationVars>>

(* Resuming resumes: after #:on? #f on a live notification its timeout     *)
(* runs again.  Refuted: a second handle has no lock to give back.         *)
ResumedRuns ==
    [][\A h \in NotificationHandles : NotificationPausedSet(h, FALSE) /\ LockOf(h) # Nothing
        => locks'[LockOf(h)] = 0]_<<handleVars, errorVars, notificationVars>>
===============================================================================
