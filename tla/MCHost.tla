------------------------------- MODULE MCHost -------------------------------
(* Host for TLC.  The kinds of registration do not interact, so each run uses  *)
(* the half its question is about and keeps all the reloads and re-attaches.   *)
EXTENDS Host

\* Handlers: the subscriptions and the start dispatch.
MCHandlers == {"event", "preReload", "pending", "later"}

\* Registries: timers, layouts, rules and binds.
MCRegistries == {"timer", "layout", "named", "anon", "bind"}

=============================================================================
