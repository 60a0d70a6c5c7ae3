---------------------------- MODULE TemplateStore ----------------------------
(***************************************************************************)
(* The templates of pkg/templates: New reads a directory into a map and    *)
(* starts a watcher that follows the directory's events; requests          *)
(* (pkg/api/template-rules.go, and Type() in pkg/controller) read the map  *)
(* without the mutex.                                                      *)
(*                                                                         *)
(* Files are written in place (truncated, then filled) or renamed into     *)
(* place.  The kernel queues events from watcher.Add on and merges one     *)
(* that equals the last in the queue.                                      *)
(***************************************************************************)
EXTENDS Transformations, Naturals, Sequences

CONSTANTS
    FileTemplates,   \* [Name -> SUBSET Template]: what is written to the files
    Half,            \* content of a file that is being written, or no JSON
    Id,              \* rules created through templates
    MaxChanges,      \* bound on changes of the directory
    MaxEnds          \* bound on ends of the process

VARIABLES
    dir,      \* [Name -> Template \cup {Half, None}]: the directory
    events,   \* inotify's queue
    phase,    \* of New: "down", "reading", "read", "watching", "failed"
    todo,     \* files of ReadDir still to be read
    mux,      \* who has locked singleton.mux: "New", "watcher" or None
    watcher,  \* its goroutine: "idle", "lock" (waits), "locked", "write"
    event,    \* what it is at work on, or None
    store,    \* [Name -> Template \cup {None}]: singleton.Templates
    was,      \* what is being overwritten there
    rules,    \* rules that were made of templates
    posted,   \* the template rules they were made of
    missed,   \* history: files changed where the watcher does not look
    unread,   \* history: the watcher could not read a file
    changes, ends

startup == <<phase, todo>>
watch   == <<events, watcher, event>>
map     == <<store, was>>
clients == <<rules, posted>>
bounds  == <<changes, ends>>
lapses  == <<missed, unread>>
vars    == <<dir, startup, mux, watch, map, clients, lapses, bounds>>

ASSUME TemplateStoreAssumption ==
    /\ FileTemplates \in [Name -> SUBSET Template]
    /\ None \notin Template \cup Name \cup {"New", "watcher"}
    /\ Half \notin Template \cup {None}
    /\ MaxChanges \in Nat /\ MaxEnds \in Nat

Empty == [n \in Name |-> None]
Op    == {"Create", "Write", "Remove"}
Event == [op : Op, name : Name]

Init ==
    /\ dir \in [Name -> Template \cup {Half, None}]
    /\ \A n \in Name : dir[n] \in FileTemplates[n] \cup {None}
    /\ events = <<>>
    /\ phase = "down"
    /\ todo = {}
    /\ mux = None
    /\ watcher = "idle"
    /\ event = None
    /\ store = Empty
    /\ was = None
    /\ rules = [i \in Id |-> None]
    /\ posted = [i \in Id |-> None]
    /\ missed = {}
    /\ unread = FALSE
    /\ changes = 0
    /\ ends = 0

-----------------------------------------------------------------------------
(* The directory. *)
Queued(e) ==
    IF events # <<>> /\ events[Len(events)] = e THEN events ELSE Append(events, e)

(* A change is an event once the directory is watched; before that it is   *)
(* seen only if New reads the file later.                                  *)
Change(op, n, content) ==
    /\ changes < MaxChanges
    /\ changes' = changes + 1
    /\ dir' = [dir EXCEPT ![n] = content]
    /\ IF phase = "watching"
       THEN events' = Queued([op |-> op, name |-> n]) /\ missed' = missed \ {n}
       ELSE /\ UNCHANGED events
            /\ missed' = IF phase \in {"reading", "read"} THEN missed \cup {n} ELSE missed
    /\ UNCHANGED <<startup, mux, watcher, event, map, clients, unread, ends>>

(* Open truncates the file or creates it; another write fills it. *)
BeginWrite(n) ==
    /\ dir[n] # Half
    /\ Change(IF dir[n] = None THEN "Create" ELSE "Write", n, Half)

FinishWrite(n, t) == dir[n] = Half /\ Change("Write", n, t)

RenameInto(n, t) == dir[n] # t /\ Change("Create", n, t)

Remove(n) == dir[n] # None /\ Change("Remove", n, None)

-----------------------------------------------------------------------------
(* New, called by pkg.Start, which logs its error and goes on. *)
NewStarts ==
    /\ phase = "down"
    /\ \/ /\ phase' = "reading"
          /\ todo' = {n \in Name : dir[n] # None}
          /\ mux' = "New"
       \/ /\ phase' = "failed"         \* ReadDir fails: no such directory
          /\ UNCHANGED <<todo, mux>>
    /\ missed' = {}
    /\ unread' = FALSE
    /\ UNCHANGED <<dir, watch, map, clients, bounds>>

(* Mutant: the errors of ReadFile and Unmarshal are ignored. *)
NewReadsAnyway(n) ==
    /\ phase = "reading"
    /\ n \in todo
    /\ todo' = todo \ {n}
    /\ store' = [store EXCEPT ![n] = dir[n]]
    /\ UNCHANGED <<dir, phase, mux, watch, was, clients, lapses, bounds>>

(* A file that is gone or no JSON ends New, with the mutex locked. *)
NewReads(n) ==
    /\ phase = "reading"
    /\ n \in todo
    /\ todo' = todo \ {n}
    /\ IF dir[n] \in Template
       THEN /\ store' = [store EXCEPT ![n] = dir[n]]
            /\ UNCHANGED phase
       ELSE /\ phase' = "failed"
            /\ UNCHANGED store
    /\ UNCHANGED <<dir, mux, watch, was, clients, lapses, bounds>>

NewUnlocks ==
    /\ phase = "reading"
    /\ todo = {}
    /\ phase' = "read"
    /\ mux' = None
    /\ UNCHANGED <<dir, todo, watch, map, clients, lapses, bounds>>

(* watcher.Add: there are no events before it, and none if it fails. *)
NewWatches ==
    /\ phase = "read"
    /\ phase' \in {"watching", "failed"}
    /\ UNCHANGED <<dir, todo, mux, watch, map, clients, lapses, bounds>>

-----------------------------------------------------------------------------
(* The watcher's goroutine. *)
TakeEvent ==
    /\ watcher = "idle"
    /\ events # <<>>
    /\ watcher' = "lock"
    /\ event' = Head(events)
    /\ events' = Tail(events)
    /\ UNCHANGED <<dir, startup, mux, map, clients, lapses, bounds>>

Lock ==
    /\ watcher = "lock"
    /\ mux = None
    /\ watcher' = "locked"
    /\ mux' = "watcher"
    /\ UNCHANGED <<dir, startup, events, event, map, clients, lapses, bounds>>

(* "continue" after a file that cannot be read or parsed: the mutex stays  *)
(* locked, and at the next event Lock waits for it.                        *)
ReadFails ==
    /\ watcher = "locked"
    /\ event.op # "Remove"
    /\ dir[event.name] \notin Template
    /\ watcher' = "idle"
    /\ event' = None
    /\ unread' = TRUE
    /\ UNCHANGED <<dir, startup, mux, events, map, clients, missed, bounds>>

(* Mutant: only new files are read. *)
WriteIfCreated ==
    /\ watcher = "locked"
    /\ event.op # "Remove" => dir[event.name] \in Template
    /\ watcher' = "write"
    /\ store' = [store EXCEPT ![event.name] =
                   CASE event.op = "Remove" -> None
                     [] event.op = "Create" -> dir[event.name]
                     [] OTHER -> @]
    /\ was' = store[event.name]
    /\ UNCHANGED <<dir, startup, mux, events, event, clients, lapses, bounds>>

(* The map is being written. *)
Write ==
    /\ watcher = "locked"
    /\ event.op # "Remove" => dir[event.name] \in Template
    /\ watcher' = "write"
    /\ store' = [store EXCEPT ![event.name] =
                   IF event.op = "Remove" THEN None ELSE dir[event.name]]
    /\ was' = store[event.name]
    /\ UNCHANGED <<dir, startup, mux, events, event, clients, lapses, bounds>>

(* Mutant: the mutex is not unlocked after a deletion. *)
UnlockUnlessRemoved ==
    /\ watcher = "write"
    /\ watcher' = "idle"
    /\ event' = None
    /\ was' = None
    /\ mux' = IF event.op = "Remove" THEN mux ELSE None
    /\ UNCHANGED <<dir, startup, events, store, clients, lapses, bounds>>

Unlock ==
    /\ watcher = "write"
    /\ watcher' = "idle"
    /\ event' = None
    /\ was' = None
    /\ mux' = None
    /\ UNCHANGED <<dir, startup, events, store, clients, lapses, bounds>>

-----------------------------------------------------------------------------
(* Requests. *)
Serving == phase \in {"failed", "watching"}

Mixed(s, t) ==
    IF None \in {s, t} THEN {s, t}
    ELSE [group           : {s.group, t.group},
          priority        : {s.priority, t.priority},
          CommandTemplate : {s.CommandTemplate, t.CommandTemplate},
          DeleteTemplate  : {s.DeleteTemplate, t.DeleteTemplate}]

(* The map as a request finds it that takes no mutex: an entry that is     *)
(* being written may be read in part.                                      *)
Seen ==
    IF watcher = "write"
    THEN {[store EXCEPT ![event.name] = t] : t \in Mixed(was, store[event.name])}
    ELSE {store}

(* POST and PUT of a template rule: CreateRule or UpdateRule with what     *)
(* Rule() returns.                                                         *)
StoreTemplateRule(i, tr) ==
    /\ Serving
    /\ \E seen \in Seen :
         /\ Known(tr, seen)
         /\ rules' = [rules EXCEPT ![i] = RuleOf(tr, seen)]
    /\ posted' = [posted EXCEPT ![i] = tr]
    /\ UNCHANGED <<dir, startup, mux, watch, map, lapses, bounds>>

End ==
    /\ ends < MaxEnds
    /\ ends' = ends + 1
    /\ phase' = "down"
    /\ todo' = {}
    /\ mux' = None
    /\ events' = <<>>
    /\ watcher' = "idle"
    /\ event' = None
    /\ store' = Empty
    /\ was' = None
    /\ UNCHANGED <<dir, clients, lapses, changes>>

(* A request that looks a template up, or ranges over the map, while the   *)
(* watcher writes it: a fatal error of Go's runtime, which nothing         *)
(* recovers.                                                               *)
FatalError == Serving /\ watcher = "write" /\ End

Stop == phase # "down" /\ End

-----------------------------------------------------------------------------
Directory ==
    \E n \in Name :
      \/ BeginWrite(n) \/ Remove(n)
      \/ \E t \in FileTemplates[n] : FinishWrite(n, t) \/ RenameInto(n, t)

New == NewStarts \/ (\E n \in Name : NewReads(n)) \/ NewUnlocks \/ NewWatches

Watcher == TakeEvent \/ Lock \/ ReadFails \/ Write \/ Unlock

Next ==
    \/ Directory
    \/ New
    \/ Watcher
    \/ \E i \in Id, tr \in TemplateRule : StoreTemplateRule(i, tr)
    \/ FatalError \/ Stop

Spec == Init /\ [][Next]_vars

(* A goroutine that is not blocked goes on. *)
FairSpec == Spec /\ WF_vars(New) /\ WF_vars(Watcher)

-----------------------------------------------------------------------------
(* The state has the types the declarations above give it. *)
TypeOK ==
    /\ dir \in [Name -> Template \cup {Half, None}]
    /\ phase \in {"down", "reading", "read", "watching", "failed"}
    /\ todo \subseteq Name
    /\ mux \in {None, "New", "watcher"}
    /\ events \in Seq(Event)
    /\ watcher \in {"idle", "lock", "locked", "write"}
    /\ event \in Event \cup {None}
    /\ store \in [Name -> Template \cup {None}]
    /\ was \in Template \cup {None}
    /\ rules \in [Id -> Rule \cup {None}]
    /\ posted \in [Id -> TemplateRule \cup {None}]
    /\ missed \subseteq Name /\ unread \in BOOLEAN
    /\ changes \in 0..MaxChanges /\ ends \in 0..MaxEnds

(* When the watcher has nothing to do, the map is the directory: however   *)
(* writes, renames and removals were merged and however late they were     *)
(* read, except for files that changed before the directory was watched.   *)
UpToDate ==
    phase = "watching" /\ events = <<>> /\ watcher = "idle" /\ ~unread =>
      \A n \in Name \ missed : store[n] = dir[n]

(* A file that is in place gets into the map, unless one could not be read *)
(* before: the watcher stops for no other reason (templates.go:105, 110    *)
(* say that templates might not update automatically then).                *)
FilesAreLoaded ==
    \A n \in Name :
      phase = "watching" /\ n \notin missed ~>
        phase # "watching" \/ unread \/ store[n] = dir[n]

(* Rules that differ in their priority at most. *)
Alike(r, s) == [r EXCEPT !.priority = s.priority] = s

(* As long as a template gives the rule that was made of it, the rule is   *)
(* answered as a template rule, with a target and a template that give the *)
(* same commands for the same tables when they are sent back with PUT;     *)
(* only the priority may be that of another template (matchesTemplate).    *)
TypedAsPosted ==
    \A i \in Id :
      /\ posted[i] # None
      /\ Known(posted[i], store)
      /\ RuleOf(posted[i], store) = rules[i]
      => \A T \in Types(rules[i], store) :
           T.Type = "template" /\ Alike(RuleOf(T, store), rules[i])
=============================================================================
