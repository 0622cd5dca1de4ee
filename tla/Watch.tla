-------------------------------- MODULE Watch --------------------------------
(* The config watcher (hyprscheme/watch.scm, hyprscheme/inotify.scm): the paths *)
(* the loader reports are noted, their directories are watched with inotify,    *)
(* and an event on a noted path asks the compositor to reload the config.       *)
(*                                                                              *)
(* An editor, a version control tool or a dotfile manager changes the files at  *)
(* any moment, between the hook that notes a path and the read of the file too. *)
(* A config names files; a name may be a symbolic link, and what the watcher    *)
(* notes is the place it stands for when it is loaded.  The kernel's queue and  *)
(* watches, and when the compositor reloads, are external.                      *)
EXTENDS Naturals, Sequences, SequencesExt

CONSTANTS
    Files,       \* the files a config loads, in order: the config itself first
    Targets,     \* the places each name may stand for, the first one at first:
                 \* <<f>> for a plain file
    Dir,         \* the directory of every name and place
    None,        \* no path
    BufferLen,   \* events one read(2) returns
    QueueLimit,  \* events the kernel queues before it drops them
    MaxEdits     \* bound on the changes to the file system

Names  == ToSet(Files)
Places == UNION {ToSet(Targets[f]) : f \in Names}
Dirs   == {Dir[p] : p \in DOMAIN Dir}

ASSUME WatchAssumption ==
    /\ Files \in Seq(Names) \ {<<>>} /\ DOMAIN Targets = Names
    /\ \A f \in Names : Targets[f] \in Seq(Places) \ {<<>>}
    /\ DOMAIN Dir = Names \cup Places
    /\ BufferLen \in Nat \ {0} /\ QueueLimit \in Nat \ {0} /\ MaxEdits \in Nat

VARIABLES
    content,  \* what is at each place: "absent", "partial" (being written) or "whole"
    link,     \* the place each name stands for
    live,     \* the directories that exist
    edits,    \* changes to the file system so far
    alive,    \* the kernel's watches: directories
    queue,    \* the kernel's queue of events, each the path it is about
    loaded,   \* hl--watch-loaded
    dirs,     \* the directories of hl--watch-dirs
    batch,    \* the events of this wakeup still to be handled
    up,       \* the plugin is attached
    asked,    \* hl-config-reload! was called and the compositor has not reloaded
    todo,     \* the files still to load in the load under way
    hooked,   \* the canonical path the load hook was given, or None
    read,     \* the files the running config read
    changed,  \* history: those whose place has another content since
    covered   \* history: files whose place has been watched, and no event dropped,
              \* since the running config read them

fileVars   == <<content, link, live, edits>>
threadVars == <<loaded, dirs, batch, up, asked, todo, hooked, read>>
vars       == <<fileVars, alive, queue, threadVars, changed, covered>>

Main      == Files[1]
Whole(p)  == content[p] = "whole"
Idle      == todo = <<>>

Init ==
    /\ content \in [Places -> {"whole", "absent"}] /\ link = [f \in Names |-> Targets[f][1]]
    /\ live \in SUBSET Dirs /\ \A p \in Places : content[p] # "absent" => Dir[p] \in live
    /\ Whole(link[Main])
    /\ edits = 0 /\ alive = {} /\ queue = <<>> /\ loaded = {} /\ dirs = {}
    /\ batch = <<>> /\ up = TRUE /\ asked = FALSE /\ todo = Files /\ hooked = None
    /\ read = {} /\ changed = {} /\ covered = {}

------------------------------------------------------------------------------
(* The file system *)

Overflows(p) == Dir[p] \in alive /\ Len(queue) = QueueLimit

\* inotify: an event on path p, dropped when the queue is full.
Notify(p) ==
    /\ queue' = IF Dir[p] \in alive /\ ~Overflows(p) THEN Append(queue, p) ELSE queue
    /\ UNCHANGED <<alive, threadVars>>

\* The files whose changes are still seen when an event on p may be dropped.
StillCovered(p) == IF Overflows(p) THEN {} ELSE covered

Edit == edits < MaxEdits /\ edits' = edits + 1

\* The content at p changes, under the files that were read there.
Write(p, c) ==
    /\ Edit /\ content' = [content EXCEPT ![p] = c] /\ UNCHANGED <<link, live>>
    /\ changed' = changed \cup {f \in read : link[f] = p}

\* open(2) with O_TRUNC: IN_CREATE when the file is new, and no event otherwise.
BeginWrite(p) ==
    /\ Dir[p] \in live /\ content[p] # "partial"
    /\ Write(p, "partial")
    /\ IF content[p] = "absent"
       THEN Notify(p) /\ covered' = StillCovered(p)
       ELSE UNCHANGED <<alive, queue, threadVars, covered>>

\* close(2) after writing: IN_CLOSE_WRITE.
EndWrite(p) ==
    /\ content[p] = "partial"
    /\ Write(p, "whole")
    /\ Notify(p) /\ covered' = StillCovered(p)

\* A save by renaming a temporary file over the target: IN_MOVED_TO.
RenameSave(p) ==
    /\ Dir[p] \in live /\ content[p] # "partial"
    /\ Write(p, "whole")
    /\ Notify(p) /\ covered' = StillCovered(p)

\* unlink(2): the watches do not ask for IN_DELETE.
Delete(p) ==
    /\ Whole(p) /\ Write(p, "absent")
    /\ UNCHANGED <<alive, queue, threadVars, covered>>

\* A link is replaced: IN_MOVED_TO on the link's own name.
Repoint(f, p) ==
    /\ p \in ToSet(Targets[f]) \ {link[f]} /\ Dir[f] \in live
    /\ link' = [link EXCEPT ![f] = p]
    /\ Notify(f) /\ covered' = StillCovered(f) \ {f}
    /\ Edit /\ UNCHANGED <<content, live, changed>>

\* A directory goes away, and its watch with it (IN_IGNORED has no name).
RemoveDir(d) ==
    /\ d \in live /\ \A p \in Places : Dir[p] = d => content[p] # "partial"
    /\ live' = live \ {d} /\ alive' = alive \ {d}
    /\ content' = [p \in Places |-> IF Dir[p] = d THEN "absent" ELSE content[p]]
    /\ covered' = {f \in covered : Dir[link[f]] # d}
    /\ changed' = changed \cup {f \in read : Dir[link[f]] = d}
    /\ Edit /\ UNCHANGED <<link, queue, threadVars>>

MakeDir(d) ==
    /\ d \in Dirs \ live /\ live' = live \cup {d}
    /\ Edit /\ UNCHANGED <<content, link, alive, queue, threadVars, changed, covered>>

------------------------------------------------------------------------------
(* The event loop's thread *)

\* Mutant of Taken: the first event of a buffer is parsed and the rest dropped.
TakenFirst(n) == <<queue[1]>>

\* parse-events: every event of the n that a read returned.
Taken(n) == SubSeq(queue, 1, n)

\* inotify-read-events: one bufferful for each wakeup of the reader.
Wakeup ==
    /\ Idle /\ batch = <<>> /\ queue # <<>>
    /\ LET n == IF Len(queue) < BufferLen THEN Len(queue) ELSE BufferLen
       IN  batch' = Taken(n) /\ queue' = SubSeq(queue, n + 1, Len(queue))
    /\ UNCHANGED <<fileVars, alive, loaded, dirs, up, asked, todo, hooked, read, changed, covered>>

\* hl--watch-on-readable: the event's directory is one of ours and its path noted.
Matches(p) == Dir[p] \in dirs /\ p \in loaded

\* hl--watch-on-readable, one event.
HandleEvent ==
    /\ Idle /\ batch # <<>>
    /\ batch' = Tail(batch)
    /\ asked' = (asked \/ (up /\ Matches(Head(batch))))
    /\ UNCHANGED <<fileVars, alive, queue, loaded, dirs, up, todo, hooked, read, changed, covered>>

\* A generation is built and its config loaded: hl--load-config.
Load ==
    /\ todo' = Files /\ hooked' = None /\ read' = {} /\ changed' = {} /\ covered' = {}
    /\ asked' = FALSE

\* Mutant of BeginReload: the reload listener outlives the unload.
BeginReloadDetached ==
    /\ Idle /\ Load
    /\ UNCHANGED <<fileVars, alive, queue, loaded, dirs, batch, up>>

\* The compositor reloads, because it was asked or on its own.
BeginReload ==
    /\ up /\ Idle /\ Load
    /\ UNCHANGED <<fileVars, alive, queue, loaded, dirs, batch, up>>

\* shutdown: the reader stays armed and the interpreter lives on.
Detach ==
    /\ up /\ Idle /\ batch = <<>>
    /\ up' = FALSE /\ asked' = FALSE /\ read' = {} /\ changed' = {} /\ covered' = {}
    /\ UNCHANGED <<fileVars, alive, queue, loaded, dirs, batch, todo, hooked>>

\* init, re-attached: a new generation.
Reattach ==
    /\ ~up /\ Idle /\ batch = <<>> /\ up' = TRUE /\ Load
    /\ UNCHANGED <<fileVars, alive, queue, loaded, dirs, batch>>

\* hl--watch-canonical: a path that cannot be resolved is taken as it was given.
Canonical(f) == IF content[link[f]] = "absent" THEN f ELSE link[f]

\* hl--watch-note-loaded!, hl--watch-dir!: the place p of file f is noted, and its
\* directory watched unless the place or the directory was there already.
NoteLoaded(f, p) ==
    /\ loaded' = loaded \cup {p}
    /\ IF p \in loaded \/ Dir[p] \in dirs \/ Dir[p] \notin live
       THEN UNCHANGED <<dirs, alive>>
       ELSE dirs' = dirs \cup {Dir[p]} /\ alive' = alive \cup {Dir[p]}

\* %load-hook: the loader reports a file before it opens it.
Hook ==
    /\ ~Idle /\ hooked = None
    /\ hooked' = Canonical(Head(todo))
    /\ NoteLoaded(Head(todo), hooked')
    /\ UNCHANGED <<fileVars, queue, batch, up, asked, todo, read, changed, covered>>

\* primitive-load: a config that cannot be read ends its load before or after any
\* of the files it names; a file it loads with hl-load ends only its own.
Read ==
    /\ ~Idle /\ hooked # None
    /\ LET f == Head(todo)
           p == link[f]
       IN  /\ read' = read \cup {f}
           /\ covered' = IF f \notin read /\ hooked = p /\ Dir[p] \in alive
                         THEN covered \cup {f} ELSE covered
           /\ \E n \in 1 .. Len(todo) :
                 /\ f # Main \/ Whole(p) => n = Len(todo)
                 /\ f = Main /\ content[p] = "absent" => n = 1
                 /\ todo' = SubSeq(todo, 2, n)
    /\ hooked' = None
    /\ UNCHANGED <<fileVars, alive, queue, loaded, dirs, batch, up, asked, changed>>

Editor ==
    \/ \E p \in Places : BeginWrite(p) \/ EndWrite(p) \/ RenameSave(p) \/ Delete(p)
    \/ \E f \in Names, p \in Places : Repoint(f, p)
    \/ \E d \in Dirs : RemoveDir(d) \/ MakeDir(d)

Next ==
    \/ Editor
    \/ Wakeup \/ HandleEvent \/ BeginReload \/ Detach \/ Reattach \/ Hook \/ Read

Spec == Init /\ [][Next]_vars

\* The event loop drains a readable descriptor, a load goes on, and a reload that
\* was asked for happens.
FairSpec ==
    Spec /\ WF_vars(Wakeup) /\ WF_vars(HandleEvent) /\ WF_vars(asked /\ BeginReload)
         /\ WF_vars(Hook) /\ WF_vars(Read)

------------------------------------------------------------------------------
(* Properties *)

\* Every variable keeps its type, and a load and the plugin's state agree.
TypeOK ==
    /\ content \in [Places -> {"absent", "partial", "whole"}]
    /\ link \in [Names -> Places] /\ live \subseteq Dirs /\ edits \in 0 .. MaxEdits
    /\ alive \subseteq live \cap dirs /\ dirs \subseteq Dirs
    /\ loaded \subseteq Names \cup Places
    /\ queue \in Seq(Names \cup Places) /\ Len(queue) <= QueueLimit
    /\ batch \in Seq(Names \cup Places) /\ Len(batch) <= BufferLen
    /\ up \in BOOLEAN /\ asked \in BOOLEAN
    /\ \E i, j \in 0 .. Len(Files) : todo = SubSeq(Files, i + 1, j)
    /\ hooked \in Names \cup Places \cup {None}
    /\ changed \subseteq read /\ covered \subseteq read /\ read \subseteq Names
    /\ ~Idle => up /\ ~asked
    /\ hooked # None => ~Idle

\* The running config read something of f that is not what is there now.
Stale(f) == f \in covered \cap changed /\ Whole(link[f])

\* A reload was asked for, or an event that will ask for one is under way.
Noticed(p) == asked \/ p \in ToSet(queue) \cup ToSet(batch)

\* While f, watched since it was read, is whole and not what was read, its event is
\* under way or a reload asked for.
StaleIsNoticed(f) == Stale(f) => Noticed(link[f])

\* No interleaving of the load hook, the read, the saves and the reader loses an edit
\* of a file that was watched since the running config read it, or leaves a file that
\* was read half written (hl--watch-note-loaded!, hl--watch-on-readable).
NoEditLost == \A f \in Names : StaleIsNoticed(f)

\* When the files come to rest, a file that stayed watched is the file the running
\* config read: each edit arrives.
EventuallyFresh(f) == <>[]~Stale(f)
EditsArrive == \A f \in Names : EventuallyFresh(f)

\* The file a running config has read is watched, if it is there (watch.scm:54-57:
\* hl-loaded-files are "the paths whose changes reload the config").
LoadedIsWatched ==
    \A f \in Names : up /\ Idle /\ f \in read /\ Whole(link[f]) /\ link[f] \in loaded
        => Dir[link[f]] \in alive
=============================================================================
