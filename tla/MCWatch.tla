------------------------------ MODULE MCWatch ------------------------------
EXTENDS Watch

\* A config and a file it loads through a link that is switched between two
\* places of another directory.
MCFiles   == <<"main", "part">>
MCTargets == [main |-> <<"main">>, part |-> <<"old", "new">>]
MCDir     == [main |-> "home", part |-> "home", old |-> "lib", new |-> "lib"]
============================================================================
