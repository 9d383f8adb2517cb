--------------------------- MODULE PluginRegistry ---------------------------
(***************************************************************************)
(* The plugin registry and the loader in front of it. The registry keeps   *)
(* three maps, each behind a reader-writer lock of its own, and is shared: *)
(* any thread may register and unregister plugins, look them up by type or *)
(* clear it. One thread owns the loader, which calls the registry and      *)
(* keeps its own record of what it loaded.                                 *)
(*                                                                         *)
(* A step of a call is what it does under one lock. Only clear, and the    *)
(* lookup by type, take a lock while they hold another.                    *)
(***************************************************************************)
EXTENDS Integers, Sequences, FiniteSets, SequenceSelection

CONSTANTS
  Threads,
  Owner,      \* the thread that has the loader
  Plugins,
  Name,       \* the name of each plugin
  NodeTypes,
  Types,      \* the node types it supports, those that have a name
  Libraries,  \* the plugins that come out of a library file
  None,
  MaxCalls    \* bound on the calls of the model

ASSUME PluginAssumption ==
  /\ Owner \in Threads
  /\ Libraries \subseteq Plugins
  /\ None \notin Plugins
  /\ Types \in [Plugins -> SUBSET NodeTypes]
  /\ MaxCalls \in Nat

Names == {Name[p] : p \in Plugins}

VARIABLES
  plugins,     \* plugins: the plugin of each name
  metadata,    \* plugin_metadata: the plugin that the metadata of a name describe
  mappings,    \* type_mappings: the names for each node type, in order
  call,        \* what each thread is doing, and which step is next
  loaded,      \* loaded_plugins of the loader, and whether it has the library
  calls,       \* the number of calls so far
  overlapped,  \* history: the names that two calls were changing at once
  bypassed     \* history: the names that were removed without the loader

vars == <<plugins, metadata, mappings, call, loaded, calls, overlapped, bypassed>>

Idle == [op |-> "idle"]
Register(p, by) == [op |-> "register", plugin |-> p, name |-> Name[p], by |-> by, at |-> "check"]
Unregister(n, by) == [op |-> "unregister", name |-> n, by |-> by, at |-> "remove"]
Unmapping(c, p) == [op |-> "unregister", name |-> c.name, by |-> c.by, at |-> "mappings",
                    plugin |-> p]
Lookup(ty) == [op |-> "lookup", type |-> ty, at |-> "mappings"]
Clear == [op |-> "clear", at |-> "plugins"]

Init ==
  /\ plugins = [n \in Names |-> None]
  /\ metadata = [n \in Names |-> None]
  /\ mappings = [ty \in NodeTypes |-> <<>>]
  /\ call = [t \in Threads |-> Idle]
  /\ loaded = [n \in Names |-> None]
  /\ calls = 0
  /\ overlapped = {}
  /\ bypassed = {}
-----------------------------------------------------------------------------
(* Locks. What a call holds follows from its next step.                    *)

At(t, op, step) == call[t].op = op /\ call[t].at = step

Reads(t, lock) == At(t, "lookup", "collect") /\ lock = "mappings"

WritesWithGuardKept(t, lock) ==
  \/ lock = "plugins" /\ (At(t, "clear", "metadata") \/ At(t, "clear", "mappings"))
  \/ lock = "metadata" /\ At(t, "clear", "mappings")
  \/ lock = "plugins" /\ (At(t, "register", "metadata") \/ At(t, "register", "mappings"))

Writes(t, lock) ==
  \/ lock = "plugins" /\ (At(t, "clear", "metadata") \/ At(t, "clear", "mappings"))
  \/ lock = "metadata" /\ At(t, "clear", "mappings")

CanRead(t, lock) == \A u \in Threads \ {t} : ~Writes(u, lock)
CanWrite(t, lock) == \A u \in Threads \ {t} : ~Writes(u, lock) /\ ~Reads(u, lock)
-----------------------------------------------------------------------------
(* Calls                                                                   *)

Changes(c) == IF c.op \in {"register", "unregister"} THEN {c.name}
              ELSE IF c.op = "clear" THEN Names ELSE {}

Begin(t, c) ==
  /\ call' = [call EXCEPT ![t] = c]
  /\ overlapped' = overlapped \cup
       (Changes(c) \cap UNION {Changes(call[u]) : u \in Threads \ {t}})

Start(t, c) ==
  /\ call[t] = Idle
  /\ calls < MaxCalls
  /\ calls' = calls + 1
  /\ Begin(t, c)
  /\ bypassed' = IF c.op = "clear" \/ (c.op = "unregister" /\ c.by = "caller")
                 THEN bypassed \cup Changes(c) ELSE bypassed
  /\ UNCHANGED <<plugins, metadata, mappings>>

Track(p, library) == [loaded EXCEPT ![Name[p]] = [plugin |-> p, library |-> library]]
Untracked(n) == [loaded EXCEPT ![n] = None]

StartDirect(t) ==
  /\ \/ \E p \in Plugins : Start(t, Register(p, "caller"))
     \/ \E n \in Names : Start(t, Unregister(n, "caller"))
     \/ \E ty \in NodeTypes : Start(t, Lookup(ty))
     \/ Start(t, Clear)
  /\ UNCHANGED loaded

(* load_plugin, and load_dynamic_library, which has recorded the library   *)
(* before the registry has accepted the plugin                             *)
StartLoad ==
  \E p \in Plugins :
    /\ Start(Owner, Register(p, "load"))
    /\ loaded' = IF p \in Libraries THEN Track(p, TRUE) ELSE loaded

StartUnload ==
  \E n \in Names : Start(Owner, Unregister(n, "unload")) /\ UNCHANGED loaded

StartReload ==
  /\ \E n \in Names : loaded[n] # None /\ Start(Owner, Unregister(n, "reload"))
  /\ UNCHANGED loaded

Step(t, step) == /\ call' = [call EXCEPT ![t].at = step]
                 /\ UNCHANGED <<loaded, calls, overlapped, bypassed>>

(* The call returns, and the loader does what remains. A plugin that was   *)
(* registered is tracked without a library, whatever it came from. A       *)
(* reload goes on with the library, if there is one, that may be gone.     *)
Return(t, ok) ==
  LET c == call[t]
      Done == call' = [call EXCEPT ![t] = Idle] /\ UNCHANGED overlapped
      By(who) == "by" \in DOMAIN c /\ c.by \in who
  IN /\ UNCHANGED <<calls, bypassed>>
     /\ \/ /\ ~By({"unload", "reload"})
           /\ Done
           /\ loaded' = IF ok /\ By({"load"}) THEN Track(c.plugin, FALSE) ELSE loaded
        \/ /\ By({"unload", "reload"})
           /\ Done
           /\ loaded' = Untracked(c.name)
        \/ /\ ok
           /\ By({"reload"})
           /\ loaded[c.name].library
           /\ Begin(t, Register(loaded[c.name].plugin, "load"))
           /\ loaded' = Track(loaded[c.name].plugin, TRUE)
-----------------------------------------------------------------------------
(* register                                                                *)

CheckName(t) ==
  /\ At(t, "register", "check")
  /\ CanRead(t, "plugins")
  /\ IF plugins[call[t].name] = None THEN Step(t, "insert") ELSE Return(t, FALSE)
  /\ UNCHANGED <<plugins, metadata, mappings>>

InsertPlugin(t) ==
  /\ At(t, "register", "insert")
  /\ CanWrite(t, "plugins")
  /\ plugins' = [plugins EXCEPT ![call[t].name] = call[t].plugin]
  /\ Step(t, "metadata")
  /\ UNCHANGED <<metadata, mappings>>

StoreMetadata(t) ==
  /\ At(t, "register", "metadata")
  /\ CanWrite(t, "metadata")
  /\ metadata' = [metadata EXCEPT ![call[t].name] = call[t].plugin]
  /\ Step(t, "mappings")
  /\ UNCHANGED <<plugins, mappings>>

PushMappings(t) ==
  /\ At(t, "register", "mappings")
  /\ CanWrite(t, "mappings")
  /\ mappings' = [ty \in NodeTypes |->
       IF ty \in Types[call[t].plugin] THEN Append(mappings[ty], call[t].name)
       ELSE mappings[ty]]
  /\ Return(t, TRUE)
  /\ UNCHANGED <<plugins, metadata>>
-----------------------------------------------------------------------------
(* unregister                                                              *)

RemovePlugin(t) ==
  /\ At(t, "unregister", "remove")
  /\ CanWrite(t, "plugins")
  /\ plugins' = [plugins EXCEPT ![call[t].name] = None]
  /\ IF plugins[call[t].name] = None THEN Return(t, FALSE) ELSE Step(t, "metadata")
  /\ UNCHANGED <<metadata, mappings>>

Without(s, n) == ElementsAt(s, {i \in DOMAIN s : s[i] # n})

(* The types to unmap are those of the metadata found now.                 *)
Forget(t, remaining) ==
  /\ At(t, "unregister", "metadata")
  /\ CanWrite(t, "metadata")
  /\ metadata' = remaining
  /\ IF metadata[call[t].name] = None THEN Return(t, TRUE)
     ELSE /\ call' = [call EXCEPT ![t] =
                        Unmapping(@, metadata[call[t].name])]
          /\ UNCHANGED <<loaded, calls, overlapped, bypassed>>
  /\ UNCHANGED <<plugins, mappings>>

ForgetNothing(t) == Forget(t, metadata)

ForgetMetadata(t) == Forget(t, [metadata EXCEPT ![call[t].name] = None])

Unmap(t) ==
  /\ At(t, "unregister", "mappings")
  /\ CanWrite(t, "mappings")
  /\ mappings' = [ty \in NodeTypes |->
       IF ty \in Types[call[t].plugin] THEN Without(mappings[ty], call[t].name)
       ELSE mappings[ty]]
  /\ Return(t, TRUE)
  /\ UNCHANGED <<plugins, metadata>>
-----------------------------------------------------------------------------
(* get_plugins_for_type and clear                                          *)

LockMappings(t) ==
  /\ At(t, "lookup", "mappings")
  /\ CanRead(t, "mappings")
  /\ Step(t, "collect")
  /\ UNCHANGED <<plugins, metadata, mappings>>

Collect(t) ==
  /\ At(t, "lookup", "collect")
  /\ CanRead(t, "plugins")
  /\ Return(t, TRUE)
  /\ UNCHANGED <<plugins, metadata, mappings>>

ClearPlugins(t) ==
  /\ At(t, "clear", "plugins")
  /\ CanWrite(t, "plugins")
  /\ plugins' = [n \in Names |-> None]
  /\ Step(t, "metadata")
  /\ UNCHANGED <<metadata, mappings>>

ClearMetadata(t) ==
  /\ At(t, "clear", "metadata")
  /\ CanWrite(t, "metadata")
  /\ metadata' = [n \in Names |-> None]
  /\ Step(t, "mappings")
  /\ UNCHANGED <<plugins, mappings>>

ClearMappings(t) ==
  /\ At(t, "clear", "mappings")
  /\ CanWrite(t, "mappings")
  /\ mappings' = [ty \in NodeTypes |-> <<>>]
  /\ Return(t, TRUE)
  /\ UNCHANGED <<plugins, metadata>>
-----------------------------------------------------------------------------
GoOn(t) ==
  \/ CheckName(t) \/ InsertPlugin(t) \/ StoreMetadata(t) \/ PushMappings(t)
  \/ RemovePlugin(t) \/ ForgetMetadata(t) \/ Unmap(t)
  \/ LockMappings(t) \/ Collect(t)
  \/ ClearPlugins(t) \/ ClearMetadata(t) \/ ClearMappings(t)

Next ==
  \/ StartLoad \/ StartUnload \/ StartReload
  \/ \E t \in Threads : StartDirect(t) \/ GoOn(t)

(* A thread that is not blocked runs. Nobody has to call.                  *)
Spec == Init /\ [][Next]_vars /\ \A t \in Threads : WF_vars(GoOn(t))
-----------------------------------------------------------------------------
(* Properties                                                              *)

(* For a name that no call is changing, and that no two calls were         *)
(* changing at once, the three maps agree, although calls for other names  *)
(* ran between the locks: the metadata are those of the plugin, and it is  *)
(* mapped once for each type it supports and for no other. What the loader *)
(* tracks is registered unless somebody removed it without the loader.     *)
MapsAgree ==
  \A n \in Names \ (overlapped \cup UNION {Changes(call[t]) : t \in Threads}) :
    /\ metadata[n] = plugins[n]
    /\ \A ty \in NodeTypes :
         Cardinality({i \in DOMAIN mappings[ty] : mappings[ty][i] = n}) =
           IF plugins[n] # None /\ ty \in Types[plugins[n]] THEN 1 ELSE 0
    /\ (loaded[n] # None /\ n \notin bypassed) => plugins[n] # None

(* clear has the plugins and comes for the other locks, a lookup has the   *)
(* mappings and waits for the plugins.                                     *)
Embrace ==
  \E t, u \in Threads : /\ At(t, "clear", "metadata") \/ At(t, "clear", "mappings")
                        /\ At(u, "lookup", "collect")

(* Every call returns unless clear and get_plugins_for_type meet, each     *)
(* holding the lock that the other one waits for: no other pair of calls   *)
(* can block each other.                                                   *)
CallsReturn == \A t \in Threads : (call[t] # Idle) ~> (call[t] = Idle \/ Embrace)
=============================================================================
