------------------------ MODULE PluginRegistryProofs ------------------------
(***************************************************************************)
(* MapsAgree says nothing of a name while a call changes it; the inductive *)
(* invariant says, for each step of a call, how far the maps have come.    *)
(***************************************************************************)
EXTENDS PluginRegistry, SequenceLemmas
-----------------------------------------------------------------------------
(* The inductive invariant                                                 *)

RegisterSteps == {"check", "insert", "metadata", "mappings"}

CallIsTyped(c) ==
  /\ c.op \in {"idle", "register", "unregister", "lookup", "clear"}
  /\ c.op = "idle" => DOMAIN c = {"op"}
  /\ c.op = "lookup" => DOMAIN c = {"op", "type", "at"}
  /\ c.op = "clear" => DOMAIN c = {"op", "at"} /\ c.at \in {"plugins", "metadata", "mappings"}
  /\ c.op = "register" =>
       /\ DOMAIN c = {"op", "plugin", "name", "by", "at"}
       /\ c.plugin \in Plugins /\ c.name = Name[c.plugin]
       /\ c.by \in {"caller", "load"} /\ c.at \in RegisterSteps
  /\ c.op = "unregister" =>
       /\ {"op", "name", "by", "at"} \subseteq DOMAIN c
       /\ c.name \in Names
       /\ c.by \in {"caller", "unload", "reload"} /\ c.at \in {"remove", "metadata", "mappings"}
       /\ c.at = "mappings" => c.plugin \in Plugins

TracksPlugin(n) == loaded[n].plugin \in Plugins /\ Name[loaded[n].plugin] = n

RegistryIsTyped ==
  /\ plugins \in [Names -> Plugins \cup {None}]
  /\ metadata \in [Names -> Plugins \cup {None}]
  /\ mappings \in [NodeTypes -> Seq(Names)]
  /\ DOMAIN call = Threads /\ \A t \in Threads : CallIsTyped(call[t])
  /\ DOMAIN loaded = Names /\ \A n \in Names : loaded[n] # None => TracksPlugin(n)

IsBy(c, who) == c.op \in {"register", "unregister"} /\ c.by \in who

Bypasses(c) == c.op = "clear" \/ (c.op = "unregister" /\ c.by = "caller")

(* Only its owner's calls come from the loader, a reload is of something   *)
(* that is loaded, and removals without the loader are on record.          *)
IsOwned(t, c) ==
  /\ IsBy(c, {"load", "unload", "reload"}) => t = Owner
  /\ IsBy(c, {"reload"}) => loaded[c.name] # None
  /\ Bypasses(c) => Changes(c) \subseteq bypassed

CallsAreOwned == \A t \in Threads : IsOwned(t, call[t])

OverlapsAreNoted ==
  \A t, u \in Threads : t # u => Changes(call[t]) \cap Changes(call[u]) \subseteq overlapped

Mapped(n, ty) == Cardinality(HitsIn(mappings[ty], {n}))
Due(p, ty) == IF p # None /\ ty \in Types[p] THEN 1 ELSE 0
MappedFor(n, p) == \A ty \in NodeTypes : Mapped(n, ty) = Due(p, ty)

Settled(n) == metadata[n] = plugins[n] /\ MappedFor(n, plugins[n])

RegisterPhase(c, n) ==
  /\ c.at \in {"check", "insert"} => Settled(n)
  /\ c.at = "insert" => plugins[n] = None
  /\ c.at \in {"metadata", "mappings"} => plugins[n] = c.plugin /\ MappedFor(n, None)
  /\ c.at = "metadata" => metadata[n] = None
  /\ c.at = "mappings" => metadata[n] = c.plugin

UnregisterPhase(c, n) ==
  /\ c.at = "remove" => Settled(n)
  /\ c.at \in {"metadata", "mappings"} => plugins[n] = None
  /\ c.at = "metadata" => metadata[n] # None /\ MappedFor(n, metadata[n])
  /\ c.at = "mappings" => metadata[n] = None /\ MappedFor(n, c.plugin)

ClearPhase(c, n) ==
  /\ c.at = "plugins" => Settled(n)
  /\ c.at \in {"metadata", "mappings"} => plugins[n] = None
  /\ c.at = "mappings" => metadata[n] = None

(* How far the maps are with a name that the call c changes                *)
InPhase(c, n) ==
  /\ c.op = "register" => RegisterPhase(c, n)
  /\ c.op = "unregister" => UnregisterPhase(c, n)
  /\ c.op = "clear" => ClearPhase(c, n)

Busy(n) == \E t \in Threads : n \in Changes(call[t])

Follows(n) ==
  /\ ~Busy(n) => Settled(n)
  /\ \A t \in Threads : n \in Changes(call[t]) => InPhase(call[t], n)

MapsFollow == \A n \in Names \ overlapped : Follows(n)

IsTracked(n) == loaded[n] # None => plugins[n] # None \/ Busy(n)

LoadedAreTracked == \A n \in Names \ (overlapped \cup bypassed) : IsTracked(n)

RegistryInv ==
  RegistryIsTyped /\ CallsAreOwned /\ OverlapsAreNoted /\ MapsFollow /\ LoadedAreTracked
-----------------------------------------------------------------------------
(* Calls                                                                   *)

LEMMA CallShapes ==
  ASSUME NEW p \in Plugins, NEW n \in Names, NEW ty, NEW by
  PROVE  /\ by \in {"caller", "load"} => CallIsTyped(Register(p, by))
         /\ by \in {"caller", "unload", "reload"} => CallIsTyped(Unregister(n, by))
         /\ CallIsTyped(Lookup(ty)) /\ CallIsTyped(Clear) /\ CallIsTyped(Idle)
         /\ /\ Register(p, by).op = "register" /\ Register(p, by).at = "check"
            /\ Register(p, by).by = by /\ Register(p, by).name = Name[p]
            /\ Register(p, by).plugin = p
         /\ /\ Unregister(n, by).op = "unregister" /\ Unregister(n, by).at = "remove"
            /\ Unregister(n, by).by = by /\ Unregister(n, by).name = n
         /\ Lookup(ty).op = "lookup"
         /\ Clear.op = "clear" /\ Clear.at = "plugins" /\ Idle.op = "idle"
BY DEF CallIsTyped, Register, Unregister, Lookup, Clear, Idle, RegisterSteps

LEMMA ChangesNames ==
  ASSUME NEW c, CallIsTyped(c)
  PROVE  /\ Changes(c) \subseteq Names
         /\ c.op \in {"register", "unregister"} => Changes(c) = {c.name}
         /\ c.op = "clear" => Changes(c) = Names
         /\ c.op \in {"idle", "lookup"} => Changes(c) = {}
BY DEF CallIsTyped, Changes, Names

(* t moves on, the other threads do not.                                   *)
Moves(t) == DOMAIN call' = Threads /\ \A u \in Threads \ {t} : call'[u] = call[u]

(* The maps say of n what they said before.                                *)
Same(n) ==
  /\ plugins'[n] = plugins[n] /\ metadata'[n] = metadata[n]
  /\ \A ty \in NodeTypes : Mapped(n, ty)' = Mapped(n, ty)

MapsAreTyped ==
  /\ plugins \in [Names -> Plugins \cup {None}]
  /\ metadata \in [Names -> Plugins \cup {None}]
  /\ mappings \in [NodeTypes -> Seq(Names)]

LEMMA SameKeepsPhase ==
  ASSUME NEW n, NEW c, Same(n)
  PROVE  /\ Settled(n) => Settled(n)'
         /\ InPhase(c, n) => InPhase(c, n)'
<1>1. ASSUME NEW p, MappedFor(n, p) PROVE MappedFor(n, p)'
  BY <1>1 DEF MappedFor, Same, Due
<1>2. Settled(n) => Settled(n)'
  <2>1. ASSUME Settled(n) PROVE MappedFor(n, plugins[n])'
    BY <2>1 DEF Settled, MappedFor, Same, Due
  <2> QED BY <2>1 DEF Settled, Same
<1>3. RegisterPhase(c, n) => RegisterPhase(c, n)'
  BY <1>1, <1>2 DEF RegisterPhase, Same
<1>4. UnregisterPhase(c, n) => UnregisterPhase(c, n)'
  <2>1. MappedFor(n, metadata[n]) => MappedFor(n, metadata[n])'
    BY DEF MappedFor, Same, Due
  <2> QED BY <1>1, <1>2, <2>1 DEF UnregisterPhase, Same
<1>5. ClearPhase(c, n) => ClearPhase(c, n)'
  BY <1>2 DEF ClearPhase, Same
<1> QED BY <1>2, <1>3, <1>4, <1>5 DEF InPhase

(* What a move has to leave behind for the maps to follow the calls        *)
LEMMA FollowingOn ==
  ASSUME RegistryInv, NEW t \in Threads, Moves(t),
         overlapped \subseteq overlapped',
         \A u \in Threads \ {t} : Changes(call[t])' \cap Changes(call[u]) \subseteq overlapped',
         \A n \in Names \ Changes(call[t]) : Same(n),
         \A n \in Names \ overlapped' :
           /\ n \in Changes(call[t])' => InPhase(call[t], n)'
           /\ n \in Changes(call[t]) /\ n \notin Changes(call[t])' => Settled(n)'
  PROVE  OverlapsAreNoted' /\ MapsFollow'
<1>1. \A u \in Threads \ {t} : Changes(call[u])' = Changes(call[u])
  BY DEF Moves, Changes
<1>2. OverlapsAreNoted'
  <2>1. ASSUME NEW u \in Threads, NEW v \in Threads, u # v
        PROVE  Changes(call[u])' \cap Changes(call[v])' \subseteq overlapped'
    <3>1. CASE u = t
      BY <1>1, <2>1, <3>1
    <3>2. CASE v = t
      BY <1>1, <2>1, <3>2
    <3>3. CASE u # t /\ v # t
      BY <1>1, <2>1, <3>3 DEF RegistryInv, OverlapsAreNoted
    <3> QED BY <3>1, <3>2, <3>3
  <2> QED BY <2>1 DEF OverlapsAreNoted
<1>3. ASSUME NEW n \in Names \ overlapped' PROVE Follows(n)'
  <2>1. Follows(n)
    BY DEF RegistryInv, MapsFollow
  <2>2. ASSUME ~Busy(n)' PROVE Settled(n)'
    <3>1. CASE n \in Changes(call[t])
      BY <2>2, <3>1 DEF Busy
    <3>2. CASE n \notin Changes(call[t])
      <4>1. ~Busy(n)
        BY <1>1, <2>2, <3>2 DEF Busy
      <4> QED BY <2>1, <3>2, <4>1, SameKeepsPhase DEF Follows
    <3> QED BY <3>1, <3>2
  <2>3. ASSUME NEW u \in Threads, n \in Changes(call[u])' PROVE InPhase(call[u], n)'
    <3>1. CASE u = t
      BY <2>3, <3>1
    <3>2. CASE u # t
      <4>1. n \in Changes(call[u]) /\ call'[u] = call[u]
        BY <1>1, <2>3, <3>2 DEF Moves
      <4>2. n \notin Changes(call[t])
        BY <3>2, <4>1 DEF RegistryInv, OverlapsAreNoted
      <4>3. InPhase(call[u], n) /\ Same(n)
        BY <2>1, <4>1, <4>2 DEF Follows
      <4> QED BY <4>1, <4>3, SameKeepsPhase
    <3> QED BY <3>1, <3>2
  <2> QED BY <2>2, <2>3 DEF Follows
<1> QED BY <1>2, <1>3 DEF MapsFollow
-----------------------------------------------------------------------------
(* What a start, a step and a return keep                                  *)

(* The loader's record changes for the names that may be: of the others    *)
(* it says what it said.                                                   *)
LEMMA UntouchedAreOwned ==
  ASSUME RegistryInv, NEW t \in Threads, Moves(t), bypassed \subseteq bypassed',
         loaded' = loaded \/ t = Owner,
         IsOwned(t, call[t])'
  PROVE  CallsAreOwned'
<1>1. ASSUME NEW u \in Threads, u # t PROVE IsOwned(u, call[u])'
  <2>1. IsOwned(u, call[u]) /\ call'[u] = call[u]
    BY <1>1 DEF RegistryInv, CallsAreOwned, Moves
  <2>2. IsBy(call[u], {"reload"}) => u = Owner
    BY <2>1 DEF IsOwned, IsBy
  <2> QED BY <1>1, <2>1, <2>2 DEF IsOwned, IsBy, Changes, Bypasses
<1> QED BY <1>1 DEF CallsAreOwned

LEMMA StartKeeps ==
  ASSUME RegistryInv, NEW t \in Threads, NEW c, Start(t, c), CallIsTyped(c),
         c.op = "register" => c.at = "check",
         c.op = "unregister" => c.at = "remove",
         c.op = "clear" => c.at = "plugins",
         IsBy(c, {"load", "unload", "reload"}) => t = Owner,
         IsBy(c, {"reload"}) => loaded[c.name] # None,
         \/ loaded' = loaded
         \/ t = Owner /\ c.op = "register" /\ c.by = "load" /\ loaded' = Track(c.plugin, TRUE)
  PROVE  RegistryInv'
<1>1. /\ call' = [call EXCEPT ![t] = c] /\ call[t] = Idle
      /\ UNCHANGED <<plugins, metadata, mappings>>
      /\ overlapped' = overlapped \cup
           (Changes(c) \cap UNION {Changes(call[u]) : u \in Threads \ {t}})
      /\ bypassed' = IF Bypasses(c) THEN bypassed \cup Changes(c) ELSE bypassed
  BY DEF Start, Begin, Bypasses
<1>2. Moves(t) /\ call'[t] = c
  BY <1>1 DEF RegistryInv, RegistryIsTyped, Moves
<1>3. \A n : Same(n)
  BY <1>1 DEF Same, Mapped
<1>4. RegistryIsTyped'
  <2>1. \A u \in Threads : CallIsTyped(call'[u])
    BY <1>2 DEF Moves, RegistryInv, RegistryIsTyped
  <2>2. \A u \in Threads : CallIsTyped(call[u])'
    BY <2>1 DEF CallIsTyped
  <2>3. DOMAIN loaded' = Names /\ \A n \in Names : loaded'[n] # None => TracksPlugin(n)'
    <3>1. CASE loaded' = loaded
      BY <3>1 DEF RegistryInv, RegistryIsTyped, TracksPlugin
    <3>2. CASE c.op = "register" /\ loaded' = Track(c.plugin, TRUE)
      <4>1. c.plugin \in Plugins
        BY <3>2 DEF CallIsTyped
      <4> QED BY <3>2, <4>1 DEF RegistryInv, RegistryIsTyped, TracksPlugin, Track
    <3> QED BY <3>1, <3>2
  <2> QED BY <1>1, <1>2, <2>2, <2>3 DEF Moves, RegistryInv, RegistryIsTyped
<1>5. CallsAreOwned'
  <2>1. IsOwned(t, c)'
    <3>1. IsBy(c, {"reload"}) => loaded' = loaded
      BY DEF IsBy
    <3>2. Bypasses(c) => Changes(c) \subseteq bypassed'
      BY <1>1
    <3> QED BY <3>1, <3>2 DEF IsOwned
  <2>2. IsOwned(t, call[t])'
    BY <1>2, <2>1 DEF IsOwned, IsBy, Changes, Bypasses
  <2>3. bypassed \subseteq bypassed'
    BY <1>1
  <2> QED BY <1>2, <2>2, <2>3, UntouchedAreOwned
<1>6. Changes(call[t]) = {} /\ Changes(call[t])' = Changes(c)
  <2>1. Idle.op = "idle"
    BY DEF Idle
  <2> QED BY <1>1, <1>2, <2>1 DEF Changes
<1>7. OverlapsAreNoted' /\ MapsFollow'
  <2>1. overlapped \subseteq overlapped'
    BY <1>1
  <2>2. \A u \in Threads \ {t} : Changes(c) \cap Changes(call[u]) \subseteq overlapped'
    BY <1>1
  <2>3. ASSUME NEW n \in Names \ overlapped', n \in Changes(c) PROVE InPhase(call[t], n)'
    <3>1. ~Busy(n)
      BY <1>6, <2>2, <2>3 DEF Busy
    <3>2. Settled(n)
      BY <2>1, <3>1 DEF RegistryInv, MapsFollow, Follows
    <3>3. Settled(n)'
      BY <1>3, <3>2, SameKeepsPhase
    <3>4. InPhase(c, n)'
      BY <3>3 DEF InPhase, RegisterPhase, UnregisterPhase, ClearPhase
    <3> QED BY <1>2, <3>4
  <2> QED BY <1>2, <1>3, <1>6, <2>1, <2>2, <2>3, FollowingOn
<1>8. LoadedAreTracked'
  <2>1. ASSUME NEW n \in Names \ (overlapped' \cup bypassed') PROVE IsTracked(n)'
    <3>1. IsTracked(n) /\ plugins' = plugins
      BY <1>1 DEF RegistryInv, LoadedAreTracked
    <3>2. Busy(n) => Busy(n)'
      <4>1. ASSUME NEW u \in Threads, n \in Changes(call[u]) PROVE n \in Changes(call[u])'
        BY <1>2, <1>6, <4>1 DEF Moves, Changes
      <4> QED BY <4>1 DEF Busy
    <3>3. CASE n \in Changes(c)
      BY <1>6, <3>3 DEF Busy, IsTracked
    <3>4. CASE n \notin Changes(c)
      <4>1. loaded'[n] = loaded[n]
        <5>1. CASE loaded' = Track(c.plugin, TRUE) /\ c.op = "register"
          <6>1. Changes(c) = {Name[c.plugin]}
            BY <5>1 DEF Changes, CallIsTyped
          <6> QED BY <3>4, <5>1, <6>1 DEF Track, RegistryInv, RegistryIsTyped
        <5> QED BY <5>1
      <4> QED BY <3>1, <3>2, <4>1 DEF IsTracked
    <3> QED BY <3>3, <3>4
  <2> QED BY <2>1 DEF LoadedAreTracked
<1> QED BY <1>4, <1>5, <1>7, <1>8 DEF RegistryInv

(* The call of t goes on: it is still the same call.                       *)
GoesOn(t) ==
  /\ Moves(t) /\ CallIsTyped(call[t])'
  /\ call'[t].op = call[t].op
  /\ call[t].op \in {"register", "unregister"} =>
       call'[t].name = call[t].name /\ call'[t].by = call[t].by
  /\ UNCHANGED <<loaded, overlapped, bypassed>>

LEMMA TypeOfCalls ==
  ASSUME RegistryInv, NEW t \in Threads, Moves(t), CallIsTyped(call[t])'
  PROVE  DOMAIN call' = Threads /\ \A u \in Threads : CallIsTyped(call[u])'
<1>1. ASSUME NEW u \in Threads, u # t PROVE CallIsTyped(call[u])'
  <2>1. CallIsTyped(call[u]) /\ call'[u] = call[u]
    BY <1>1 DEF RegistryInv, RegistryIsTyped, Moves
  <2> QED BY <2>1 DEF CallIsTyped
<1> QED BY <1>1 DEF Moves

LEMMA StepKeeps ==
  ASSUME RegistryInv, NEW t \in Threads, GoesOn(t), MapsAreTyped',
         \A n \in Names \ Changes(call[t]) : Same(n),
         \A n \in Changes(call[t]) \ overlapped : InPhase(call[t], n)'
  PROVE  RegistryInv'
<1>1. Changes(call[t])' = Changes(call[t])
  BY DEF GoesOn, Changes
<1>2. RegistryIsTyped'
  <2>1. DOMAIN call' = Threads /\ \A u \in Threads : CallIsTyped(call[u])'
    BY TypeOfCalls DEF GoesOn
  <2>2. \A n \in Names : loaded'[n] # None => TracksPlugin(n)'
    BY DEF GoesOn, RegistryInv, RegistryIsTyped, TracksPlugin
  <2> QED BY <2>1, <2>2 DEF RegistryIsTyped, MapsAreTyped, GoesOn, RegistryInv
<1>3. CallsAreOwned'
  <2>1. IsOwned(t, call[t])
    BY DEF RegistryInv, CallsAreOwned
  <2>2. IsBy(call[t], {"load", "unload", "reload"})' => IsBy(call[t], {"load", "unload", "reload"})
    BY DEF GoesOn, IsBy
  <2>3. IsBy(call[t], {"reload"})' =>
          IsBy(call[t], {"reload"}) /\ loaded'[call'[t].name] = loaded[call[t].name]
    BY DEF GoesOn, IsBy
  <2>4. Bypasses(call[t])' => Bypasses(call[t])
    BY DEF GoesOn, Bypasses
  <2>5. IsOwned(t, call[t])'
    BY <1>1, <2>1, <2>2, <2>3, <2>4 DEF IsOwned, GoesOn
  <2> QED BY <2>5, UntouchedAreOwned DEF GoesOn
<1>4. OverlapsAreNoted' /\ MapsFollow'
  <2>1. \A u \in Threads \ {t} : Changes(call[t])' \cap Changes(call[u]) \subseteq overlapped'
    BY <1>1 DEF RegistryInv, OverlapsAreNoted, GoesOn
  <2>2. overlapped' = overlapped /\ Moves(t)
    BY DEF GoesOn
  <2> QED BY <1>1, <2>1, <2>2, FollowingOn
<1>5. LoadedAreTracked'
  <2>1. ASSUME NEW n \in Names \ (overlapped' \cup bypassed') PROVE IsTracked(n)'
    <3>1. IsTracked(n) /\ loaded' = loaded
      BY DEF RegistryInv, LoadedAreTracked, GoesOn
    <3>2. Busy(n) => Busy(n)'
      <4>1. ASSUME NEW u \in Threads, n \in Changes(call[u]) PROVE n \in Changes(call[u])'
        BY <1>1, <4>1 DEF GoesOn, Moves, Changes
      <4> QED BY <4>1 DEF Busy
    <3>3. CASE n \in Changes(call[t])
      BY <1>1, <3>3 DEF Busy, IsTracked
    <3>4. CASE n \notin Changes(call[t])
      BY <3>1, <3>2, <3>4 DEF IsTracked, Same
    <3> QED BY <3>3, <3>4
  <2> QED BY <2>1 DEF LoadedAreTracked
<1> QED BY <1>2, <1>3, <1>4, <1>5 DEF RegistryInv

(* The three ways to return: no more to do for the loader, nothing tracked *)
(* any more, and a reload that goes on.                                    *)
Finishes(t, ok) ==
  /\ ~IsBy(call[t], {"unload", "reload"})
  /\ call' = [call EXCEPT ![t] = Idle] /\ overlapped' = overlapped
  /\ loaded' = IF ok /\ IsBy(call[t], {"load"}) THEN Track(call[t].plugin, FALSE) ELSE loaded

FinishesUnload(t) ==
  /\ IsBy(call[t], {"unload", "reload"})
  /\ call' = [call EXCEPT ![t] = Idle] /\ overlapped' = overlapped
  /\ loaded' = Untracked(call[t].name)

FinishesReload(t) ==
  /\ IsBy(call[t], {"reload"})
  /\ Begin(t, Register(loaded[call[t].name].plugin, "load"))
  /\ loaded' = Track(loaded[call[t].name].plugin, TRUE)

LEMMA ReturnCases ==
  ASSUME RegistryInv, NEW t \in Threads, NEW ok, Return(t, ok)
  PROVE  /\ bypassed' = bypassed
         /\ Finishes(t, ok) \/ FinishesUnload(t) \/ FinishesReload(t)
<1>1. CallIsTyped(call[t])
  BY DEF RegistryInv, RegistryIsTyped
<1>2. ASSUME NEW who
      PROVE  ("by" \in DOMAIN call[t] /\ call[t].by \in who) <=> IsBy(call[t], who)
  BY <1>1 DEF CallIsTyped, IsBy
<1> QED BY <1>2 DEF Return, Finishes, FinishesUnload, FinishesReload

(* For the names it does not change, a move keeps what is tracked.         *)
LEMMA OthersStayTracked ==
  ASSUME RegistryInv, NEW t \in Threads, Moves(t),
         bypassed' = bypassed, overlapped \subseteq overlapped',
         NEW n \in Names \ (overlapped' \cup bypassed'),
         n \notin Changes(call[t]), Same(n), loaded'[n] = loaded[n]
  PROVE  IsTracked(n)'
<1>1. IsTracked(n)
  BY DEF RegistryInv, LoadedAreTracked
<1>2. Busy(n) => Busy(n)'
  <2>1. ASSUME NEW u \in Threads, n \in Changes(call[u]) PROVE n \in Changes(call[u])'
    BY <2>1 DEF Moves, Changes
  <2> QED BY <2>1 DEF Busy
<1> QED BY <1>1, <1>2 DEF IsTracked, Same

LEMMA ReturnKeeps ==
  ASSUME RegistryInv, NEW t \in Threads, NEW ok, Return(t, ok), MapsAreTyped',
         \A n \in Names \ Changes(call[t]) : Same(n),
         \A n \in Changes(call[t]) \ overlapped : Settled(n)',
         call[t].op = "register" =>
           \A n \in Changes(call[t]) \ overlapped : plugins'[n] # None
  PROVE  RegistryInv'
<1> DEFINE c == call[t]
<1>1. CallIsTyped(c) /\ IsOwned(t, c) /\ DOMAIN call = Threads
  BY DEF RegistryInv, RegistryIsTyped, CallsAreOwned
<1>2. /\ bypassed' = bypassed
      /\ Finishes(t, ok) \/ FinishesUnload(t) \/ FinishesReload(t)
  BY ReturnCases
<1>3. CASE call' = [call EXCEPT ![t] = Idle] /\ overlapped' = overlapped
  <2>1. Moves(t) /\ call'[t] = Idle
    BY <1>1, <1>3 DEF Moves
  <2>2. CallIsTyped(Idle) /\ Idle.op = "idle"
    BY DEF CallIsTyped, Idle
  <2>3. CallIsTyped(call[t])' /\ Changes(call[t])' = {}
    BY <2>1, <2>2 DEF CallIsTyped, Changes
  <2>4. OverlapsAreNoted' /\ MapsFollow'
    BY <1>3, <2>1, <2>3, FollowingOn
  <2>5. IsOwned(t, call[t])'
    BY <2>1, <2>2 DEF IsOwned, IsBy, Bypasses
  <2>6. CASE Finishes(t, ok)
    <3>1. /\ loaded' = loaded
          \/ /\ t = Owner /\ c.op = "register" /\ c.plugin \in Plugins
             /\ loaded' = Track(c.plugin, FALSE) /\ Changes(c) = {Name[c.plugin]}
      <4>1. CASE IsBy(c, {"load"})
        <5>1. c.op = "register" /\ c.plugin \in Plugins /\ c.name = Name[c.plugin]
          BY <1>1, <4>1 DEF CallIsTyped, IsBy
        <5>2. t = Owner
          BY <1>1, <4>1 DEF IsOwned, IsBy
        <5> QED BY <2>6, <5>1, <5>2 DEF Finishes, Changes
      <4> QED BY <2>6, <4>1 DEF Finishes
    <3>2. DOMAIN loaded' = Names /\ \A n \in Names : loaded'[n] # None => TracksPlugin(n)'
      BY <3>1 DEF RegistryInv, RegistryIsTyped, TracksPlugin, Track
    <3>3. RegistryIsTyped'
      <4>1. DOMAIN call' = Threads /\ \A u \in Threads : CallIsTyped(call[u])'
        BY <2>1, <2>3, TypeOfCalls
      <4> QED BY <3>2, <4>1 DEF RegistryIsTyped, MapsAreTyped
    <3>4. CallsAreOwned'
      BY <1>2, <2>1, <2>5, <3>1, UntouchedAreOwned
    <3>5. ASSUME NEW n \in Names \ (overlapped' \cup bypassed') PROVE IsTracked(n)'
      <4>1. CASE n \in Changes(c)
        <5>1. ~Bypasses(c)
          BY <1>1, <1>2, <4>1 DEF IsOwned
        <5>2. c.op = "register"
          BY <1>1, <2>6, <4>1, <5>1 DEF CallIsTyped, Bypasses, Finishes, IsBy, Changes
        <5> QED BY <1>3, <4>1, <5>2 DEF IsTracked
      <4>2. CASE n \notin Changes(c)
        <5>1. loaded'[n] = loaded[n]
          BY <3>1, <4>2 DEF Track, RegistryInv, RegistryIsTyped
        <5> QED BY <1>2, <1>3, <2>1, <4>2, <5>1, OthersStayTracked
      <4> QED BY <4>1, <4>2
    <3> QED BY <2>4, <3>3, <3>4, <3>5 DEF RegistryInv, LoadedAreTracked
  <2>7. CASE FinishesUnload(t)
    <3>1. t = Owner /\ Changes(c) = {c.name} /\ loaded' = Untracked(c.name)
      BY <1>1, <2>7 DEF FinishesUnload, IsOwned, IsBy, Changes
    <3>2. DOMAIN loaded' = Names /\ \A n \in Names : loaded'[n] # None => TracksPlugin(n)'
      BY <3>1 DEF RegistryInv, RegistryIsTyped, TracksPlugin, Untracked
    <3>3. RegistryIsTyped'
      <4>1. DOMAIN call' = Threads /\ \A u \in Threads : CallIsTyped(call[u])'
        BY <2>1, <2>3, TypeOfCalls
      <4> QED BY <3>2, <4>1 DEF RegistryIsTyped, MapsAreTyped
    <3>4. CallsAreOwned'
      BY <1>2, <2>1, <2>5, <3>1, UntouchedAreOwned
    <3>5. ASSUME NEW n \in Names \ (overlapped' \cup bypassed') PROVE IsTracked(n)'
      <4>1. CASE n \in Changes(c)
        BY <3>1, <4>1 DEF IsTracked, Untracked, RegistryInv, RegistryIsTyped
      <4>2. CASE n \notin Changes(c)
        <5>1. loaded'[n] = loaded[n]
          BY <3>1, <4>2 DEF Untracked, RegistryInv, RegistryIsTyped
        <5> QED BY <1>2, <1>3, <2>1, <4>2, <5>1, OthersStayTracked
      <4> QED BY <4>1, <4>2
    <3> QED BY <2>4, <3>3, <3>4, <3>5 DEF RegistryInv, LoadedAreTracked
  <2>8. CASE FinishesReload(t)
    <3>1. PICK p : p = loaded[c.name].plugin
      OBVIOUS
    <3>2. p \in Plugins
      BY <1>1, <2>8, <3>1
         DEF FinishesReload, IsBy, CallIsTyped, IsOwned, RegistryInv, RegistryIsTyped, TracksPlugin
    <3>3. call'[t] = Register(p, "load")
      BY <1>1, <2>8, <3>1 DEF FinishesReload, Begin
    <3> QED BY <2>1, <3>3 DEF Idle, Register
  <2> QED BY <1>2, <2>6, <2>7, <2>8
<1>4. CASE FinishesReload(t)
  <2>1. PICK p : p = loaded[c.name].plugin
    OBVIOUS
  <2>2. c.op = "unregister" /\ c.by = "reload" /\ t = Owner
    BY <1>1, <1>4 DEF FinishesReload, IsBy, CallIsTyped, IsOwned
  <2>3. p \in Plugins /\ Name[p] = c.name /\ Changes(c) = {c.name}
    BY <1>1, <1>4, <2>1, <2>2
       DEF FinishesReload, IsBy, CallIsTyped, IsOwned, RegistryInv, RegistryIsTyped,
           TracksPlugin, Changes
  <2> DEFINE d == Register(p, "load")
  <2>4. CallIsTyped(d) /\ d.op = "register" /\ d.at = "check" /\ d.by = "load" /\ d.name = c.name
    BY <2>3 DEF CallIsTyped, Register, RegisterSteps
  <2>5. /\ call' = [call EXCEPT ![t] = d] /\ loaded' = Track(p, TRUE)
        /\ overlapped' = overlapped \cup
             (Changes(d) \cap UNION {Changes(call[u]) : u \in Threads \ {t}})
    BY <1>4, <2>1 DEF FinishesReload, Begin
  <2>6. Moves(t) /\ call'[t] = d
    BY <1>1, <2>5 DEF Moves
  <2>7. Changes(d) = Changes(c)
    BY <2>3, <2>4 DEF Changes
  <2> HIDE DEF d
  <2>8. CallIsTyped(call[t])' /\ Changes(call[t])' = Changes(d)
    BY <2>4, <2>6 DEF CallIsTyped, Changes
  <2>9. OverlapsAreNoted' /\ MapsFollow'
    <3>1. /\ overlapped \subseteq overlapped'
          /\ \A u \in Threads \ {t} : Changes(call[t])' \cap Changes(call[u]) \subseteq overlapped'
      BY <2>5, <2>8
    <3>2. ASSUME NEW n \in Names \ overlapped', n \in Changes(d) PROVE InPhase(call[t], n)'
      <4>1. Settled(n)'
        BY <2>5, <2>7, <3>2
      <4> QED BY <2>4, <2>6, <4>1 DEF InPhase, RegisterPhase
    <3> QED BY <2>6, <2>7, <2>8, <3>1, <3>2, FollowingOn
  <2>10. DOMAIN loaded' = Names /\ \A n \in Names : loaded'[n] # None => TracksPlugin(n)'
    BY <2>3, <2>5 DEF RegistryInv, RegistryIsTyped, TracksPlugin, Track
  <2>11. RegistryIsTyped'
    <3>1. DOMAIN call' = Threads /\ \A u \in Threads : CallIsTyped(call[u])'
      BY <2>6, <2>8, TypeOfCalls
    <3> QED BY <2>10, <3>1 DEF RegistryIsTyped, MapsAreTyped
  <2>12. CallsAreOwned'
    <3>1. IsOwned(t, call[t])'
      BY <2>2, <2>4, <2>6 DEF IsOwned, IsBy, Bypasses
    <3> QED BY <1>2, <2>2, <2>6, <3>1, UntouchedAreOwned
  <2>13. ASSUME NEW n \in Names \ (overlapped' \cup bypassed') PROVE IsTracked(n)'
    <3>1. CASE n \in Changes(c)
      BY <2>7, <2>8, <3>1 DEF IsTracked, Busy
    <3>2. CASE n \notin Changes(c)
      <4>1. loaded'[n] = loaded[n] /\ overlapped \subseteq overlapped'
        BY <2>3, <2>5, <3>2 DEF Track, RegistryInv, RegistryIsTyped
      <4> QED BY <1>2, <2>6, <3>2, <4>1, OthersStayTracked
    <3> QED BY <3>1, <3>2
  <2> QED BY <2>9, <2>11, <2>12, <2>13 DEF RegistryInv, LoadedAreTracked
<1> QED BY <1>2, <1>3, <1>4 DEF Finishes, FinishesUnload
-----------------------------------------------------------------------------
(* Facts for the actions                                                   *)

LEMMA StepGoesOn ==
  ASSUME RegistryInv, NEW t \in Threads, NEW a, Step(t, a),
         call[t].op \in {"register", "unregister", "lookup", "clear"},
         call[t].op = "register" => a \in RegisterSteps,
         call[t].op = "unregister" => a = "metadata",
         call[t].op = "clear" => a \in {"metadata", "mappings"}
  PROVE  /\ GoesOn(t) /\ call'[t].at = a
         /\ call[t].op = "register" => call'[t].plugin = call[t].plugin
<1> DEFINE c == call[t]
<1>1. CallIsTyped(c) /\ DOMAIN call = Threads
  BY DEF RegistryInv, RegistryIsTyped
<1>2. /\ Moves(t) /\ call'[t] = [c EXCEPT !.at = a]
      /\ UNCHANGED <<loaded, overlapped, bypassed>>
  BY <1>1 DEF Step, Moves
<1>3. /\ DOMAIN call'[t] = DOMAIN c /\ "op" \in DOMAIN c /\ "at" \in DOMAIN c
      /\ \A f \in DOMAIN c \ {"at"} : call'[t][f] = c[f]
      /\ call'[t].at = a
  BY <1>1, <1>2 DEF CallIsTyped
<1>4. call'[t].op = c.op
  BY <1>3
<1>5. CASE c.op = "register"
  <2>1. /\ call'[t].name = c.name /\ call'[t].by = c.by /\ call'[t].plugin = c.plugin
    BY <1>1, <1>3, <1>5 DEF CallIsTyped
  <2>2. CallIsTyped(call[t])'
    BY <1>1, <1>3, <1>4, <1>5, <2>1 DEF CallIsTyped
  <2> QED BY <1>2, <1>3, <1>4, <2>1, <2>2 DEF GoesOn
<1>6. CASE c.op = "unregister"
  <2>1. call'[t].name = c.name /\ call'[t].by = c.by
    BY <1>1, <1>3, <1>6 DEF CallIsTyped
  <2>2. CallIsTyped(call[t])'
    BY <1>1, <1>3, <1>4, <1>6, <2>1 DEF CallIsTyped
  <2> QED BY <1>2, <1>3, <1>4, <1>6, <2>1, <2>2 DEF GoesOn
<1>7. CASE c.op \in {"lookup", "clear"}
  <2>1. CallIsTyped(call[t])'
    BY <1>1, <1>3, <1>4, <1>7 DEF CallIsTyped
  <2> QED BY <1>2, <1>3, <1>4, <1>7, <2>1 DEF GoesOn
<1> QED BY <1>5, <1>6, <1>7

(* What the invariant says of the call that moves                          *)
LEMMA CallKnown ==
  ASSUME RegistryInv, NEW t \in Threads
  PROVE  /\ CallIsTyped(call[t]) /\ MapsAreTyped
         /\ \A n \in Changes(call[t]) : n \in Names
         /\ \A n \in Changes(call[t]) \ overlapped : InPhase(call[t], n)
<1>1. CallIsTyped(call[t]) /\ MapsAreTyped
  BY DEF RegistryInv, RegistryIsTyped, MapsAreTyped
<1>2. Changes(call[t]) \subseteq Names
  BY <1>1, ChangesNames
<1> QED BY <1>1, <1>2 DEF RegistryInv, MapsFollow, Follows

LEMMA MapsUntouched ==
  ASSUME UNCHANGED mappings
  PROVE  /\ \A n, ty : Mapped(n, ty)' = Mapped(n, ty)
         /\ \A n, p : MappedFor(n, p)' <=> MappedFor(n, p)
BY DEF Mapped, MappedFor, Due

LEMMA PushedOnce ==
  ASSUME MapsAreTyped, NEW p, NEW m \in Names,
         mappings' = [ty \in NodeTypes |->
           IF ty \in Types[p] THEN Append(mappings[ty], m) ELSE mappings[ty]]
  PROVE  /\ mappings' \in [NodeTypes -> Seq(Names)]
         /\ \A ty \in NodeTypes : \A n \in Names :
              Mapped(n, ty)' = Mapped(n, ty) + (IF ty \in Types[p] /\ m = n THEN 1 ELSE 0)
<1>1. ASSUME NEW ty \in NodeTypes, NEW n \in Names
      PROVE  /\ mappings'[ty] \in Seq(Names)
             /\ Mapped(n, ty)' = Mapped(n, ty) + (IF ty \in Types[p] /\ m = n THEN 1 ELSE 0)
  <2>1. mappings[ty] \in Seq(Names)
    BY DEF MapsAreTyped
  <2>2. Mapped(n, ty) \in Nat
    BY <2>1, HitsAreFinite DEF Mapped
  <2>3. CASE ty \in Types[p]
    <3>1. mappings'[ty] = Append(mappings[ty], m)
      BY <2>3
    <3>2. Cardinality(HitsIn(Append(mappings[ty], m), {n}))
            = Cardinality(HitsIn(mappings[ty], {n})) + (IF m \in {n} THEN 1 ELSE 0)
      BY <2>1, HitsOfAppend
    <3>3. Mapped(n, ty)' = Mapped(n, ty) + (IF m \in {n} THEN 1 ELSE 0)
      BY <3>1, <3>2 DEF Mapped
    <3> QED BY <2>1, <2>3, <3>1, <3>3
  <2>4. CASE ty \notin Types[p]
    <3>1. mappings'[ty] = mappings[ty]
      BY <2>4
    <3> QED BY <2>1, <2>2, <2>4, <3>1 DEF Mapped
  <2> QED BY <2>3, <2>4
<1> QED BY <1>1

LEMMA RetainedOthers ==
  ASSUME MapsAreTyped, NEW p, NEW m \in Names,
         mappings' = [ty \in NodeTypes |->
           IF ty \in Types[p] THEN Without(mappings[ty], m) ELSE mappings[ty]]
  PROVE  /\ mappings' \in [NodeTypes -> Seq(Names)]
         /\ \A ty \in NodeTypes : \A n \in Names :
              Mapped(n, ty)' = IF ty \in Types[p] /\ m = n THEN 0 ELSE Mapped(n, ty)
<1>1. ASSUME NEW ty \in NodeTypes, NEW n \in Names
      PROVE  /\ mappings'[ty] \in Seq(Names)
             /\ Mapped(n, ty)' = IF ty \in Types[p] /\ m = n THEN 0 ELSE Mapped(n, ty)
  <2> DEFINE s == mappings[ty]
             P == {i \in DOMAIN s : s[i] # m}
  <2>1. s \in Seq(Names) /\ P \in SUBSET (DOMAIN s) /\ Without(s, m) = ElementsAt(s, P)
    BY DEF MapsAreTyped, Without
  <2>2. CASE ty \in Types[p]
    <3>1. mappings'[ty] = Without(s, m)
      BY <2>2
    <3>2. HitsIn(s, {n}) \cap P = IF m = n THEN {} ELSE HitsIn(s, {n})
      BY DEF HitsIn
    <3> HIDE DEF s, P
    <3>3. /\ Without(s, m) \in Seq(Names)
          /\ Cardinality(HitsIn(Without(s, m), {n})) = Cardinality(HitsIn(s, {n}) \cap P)
      <4>1. Cardinality(HitsIn(ElementsAt(s, P), {n})) = Cardinality(HitsIn(s, {n}) \cap P)
        BY <2>1, HitsOfSelection
      <4>2. ElementsAt(s, P) \in Seq(Names)
        BY <2>1, ElementsAtProperties DEF SelectedFrom
      <4> QED BY <2>1, <4>1, <4>2
    <3>4. Cardinality(HitsIn(s, {n}) \cap P) = IF m = n THEN 0 ELSE Cardinality(HitsIn(s, {n}))
      BY <3>2, FS_EmptySet
    <3>5. Mapped(n, ty) = Cardinality(HitsIn(s, {n}))
      BY DEF Mapped, s
    <3>6. Mapped(n, ty)' = Cardinality(HitsIn(Without(s, m), {n}))
      BY <3>1 DEF Mapped
    <3> QED BY <2>2, <3>1, <3>3, <3>4, <3>5, <3>6
  <2>3. CASE ty \notin Types[p]
    <3>1. mappings'[ty] = mappings[ty]
      BY <2>3
    <3> QED BY <2>1, <2>3, <3>1 DEF Mapped
  <2> QED BY <2>2, <2>3
<1> QED BY <1>1
-----------------------------------------------------------------------------
(* The actions                                                             *)

(* What a call that registers or unregisters brings                        *)
LEMMA NamedCall ==
  ASSUME RegistryInv, NEW t \in Threads, call[t].op \in {"register", "unregister"}
  PROVE  /\ call[t].name \in Names /\ Changes(call[t]) = {call[t].name}
         /\ call[t].op = "register" => call[t].plugin \in Plugins
         /\ call[t].op = "register" /\ call[t].name \notin overlapped =>
              RegisterPhase(call[t], call[t].name)
         /\ call[t].op = "unregister" /\ call[t].name \notin overlapped =>
              UnregisterPhase(call[t], call[t].name)
<1>1. CallIsTyped(call[t])
  BY CallKnown
<1>2. Changes(call[t]) = {call[t].name} /\ call[t].name \in Names
  BY <1>1, ChangesNames
<1>3. call[t].name \notin overlapped => InPhase(call[t], call[t].name)
  BY <1>2, CallKnown
<1> QED BY <1>1, <1>2, <1>3 DEF InPhase, CallIsTyped

LEMMA CheckNameKeeps ==
  ASSUME RegistryInv, NEW t \in Threads, CheckName(t)
  PROVE  RegistryInv'
<1>0. PICK m : m = call[t].name
  OBVIOUS
<1>1. /\ call[t].op = "register" /\ call[t].at = "check"
      /\ UNCHANGED <<plugins, metadata, mappings>>
  BY <1>0 DEF CheckName, At
<1>2. MapsAreTyped' /\ \A n : Same(n)
  BY <1>1, CallKnown DEF MapsAreTyped, Same, Mapped
<1>3. /\ Changes(call[t]) = {m}
      /\ m \notin overlapped => Settled(m)
  BY <1>0, <1>1, NamedCall DEF RegisterPhase
<1>4. m \notin overlapped => Settled(m)'
  BY <1>2, <1>3, SameKeepsPhase
<1>5. CASE plugins[m] = None
  <2>1. Step(t, "insert")
    BY <1>0, <1>5 DEF CheckName
  <2>2. GoesOn(t) /\ call'[t].at = "insert"
    BY <1>1, <2>1, StepGoesOn DEF RegisterSteps
  <2>3. \A n \in Changes(call[t]) \ overlapped : InPhase(call[t], n)'
    BY <1>1, <1>3, <1>4, <1>5, <2>2 DEF InPhase, RegisterPhase, GoesOn
  <2> QED BY <1>2, <2>2, <2>3, StepKeeps
<1>6. CASE plugins[m] # None
  <2>1. Return(t, FALSE)
    BY <1>0, <1>6 DEF CheckName
  <2> QED BY <1>1, <1>2, <1>3, <1>4, <1>6, <2>1, ReturnKeeps
<1> QED BY <1>5, <1>6

LEMMA InsertPluginKeeps ==
  ASSUME RegistryInv, NEW t \in Threads, InsertPlugin(t)
  PROVE  RegistryInv'
<1>0. PICK m, p : m = call[t].name /\ p = call[t].plugin
  OBVIOUS
<1>1. /\ call[t].op = "register" /\ call[t].at = "insert"
      /\ plugins' = [plugins EXCEPT ![m] = p]
      /\ UNCHANGED <<metadata, mappings>> /\ Step(t, "metadata")
  BY <1>0 DEF InsertPlugin, At
<1>2. /\ m \in Names /\ p \in Plugins /\ Changes(call[t]) = {m}
      /\ m \notin overlapped => Settled(m) /\ plugins[m] = None
  BY <1>0, <1>1, NamedCall DEF RegisterPhase
<1>3. MapsAreTyped' /\ \A n \in Names \ {m} : Same(n)
  BY <1>1, <1>2, CallKnown DEF MapsAreTyped, Same, Mapped
<1>4. plugins'[m] = p
  BY <1>1, <1>2, CallKnown DEF MapsAreTyped
<1>5. GoesOn(t) /\ call'[t].at = "metadata" /\ call'[t].plugin = p
  BY <1>0, <1>1, StepGoesOn DEF RegisterSteps
<1>6. ASSUME m \notin overlapped PROVE InPhase(call[t], m)'
  <2>1. metadata'[m] = None /\ MappedFor(m, None)'
    BY <1>1, <1>2, <1>6, MapsUntouched DEF Settled
  <2> QED BY <1>1, <1>4, <1>5, <2>1 DEF InPhase, RegisterPhase, GoesOn
<1> QED BY <1>2, <1>3, <1>5, <1>6, StepKeeps

LEMMA StoreMetadataKeeps ==
  ASSUME RegistryInv, NEW t \in Threads, StoreMetadata(t)
  PROVE  RegistryInv'
<1>0. PICK m, p : m = call[t].name /\ p = call[t].plugin
  OBVIOUS
<1>1. /\ call[t].op = "register" /\ call[t].at = "metadata"
      /\ metadata' = [metadata EXCEPT ![m] = p]
      /\ UNCHANGED <<plugins, mappings>> /\ Step(t, "mappings")
  BY <1>0 DEF StoreMetadata, At
<1>2. /\ m \in Names /\ p \in Plugins /\ Changes(call[t]) = {m}
      /\ m \notin overlapped => plugins[m] = p /\ MappedFor(m, None)
  BY <1>0, <1>1, NamedCall DEF RegisterPhase
<1>3. MapsAreTyped' /\ \A n \in Names \ {m} : Same(n)
  BY <1>1, <1>2, CallKnown DEF MapsAreTyped, Same, Mapped
<1>4. metadata'[m] = p
  BY <1>1, <1>2, CallKnown DEF MapsAreTyped
<1>5. GoesOn(t) /\ call'[t].at = "mappings" /\ call'[t].plugin = p
  BY <1>0, <1>1, StepGoesOn DEF RegisterSteps
<1>6. ASSUME m \notin overlapped PROVE InPhase(call[t], m)'
  <2>1. plugins'[m] = p /\ MappedFor(m, None)'
    BY <1>1, <1>2, <1>6, MapsUntouched
  <2> QED BY <1>1, <1>4, <1>5, <2>1 DEF InPhase, RegisterPhase, GoesOn
<1> QED BY <1>2, <1>3, <1>5, <1>6, StepKeeps

LEMMA PushMappingsKeeps ==
  ASSUME RegistryInv, NEW t \in Threads, PushMappings(t)
  PROVE  RegistryInv'
<1>0. PICK m, p : m = call[t].name /\ p = call[t].plugin
  OBVIOUS
<1>1. /\ call[t].op = "register" /\ call[t].at = "mappings"
      /\ mappings' = [ty \in NodeTypes |->
           IF ty \in Types[p] THEN Append(mappings[ty], m) ELSE mappings[ty]]
      /\ UNCHANGED <<plugins, metadata>> /\ Return(t, TRUE)
  BY <1>0 DEF PushMappings, At
<1>2. /\ m \in Names /\ p \in Plugins /\ Changes(call[t]) = {m}
      /\ m \notin overlapped => plugins[m] = p /\ MappedFor(m, None) /\ metadata[m] = p
  BY <1>0, <1>1, NamedCall DEF RegisterPhase
<1>3. /\ mappings' \in [NodeTypes -> Seq(Names)]
      /\ \A ty \in NodeTypes : \A n \in Names :
           Mapped(n, ty)' = Mapped(n, ty) + (IF ty \in Types[p] /\ m = n THEN 1 ELSE 0)
  BY <1>1, <1>2, PushedOnce, CallKnown, ZenonT(60)
<1>4. MapsAreTyped'
  BY <1>1, <1>3, CallKnown DEF MapsAreTyped
<1>5. \A n \in Names \ {m} : Same(n)
  <2>1. \A n \in Names, ty \in NodeTypes : Mapped(n, ty) \in Nat
    BY CallKnown, HitsAreFinite DEF Mapped, MapsAreTyped
  <2> QED BY <1>1, <1>3, <2>1 DEF Same
<1>6. p # None
  BY <1>2, PluginAssumption
<1>7. ASSUME m \notin overlapped PROVE Settled(m)' /\ plugins'[m] # None
  <2>1. MappedFor(m, p)'
    BY <1>2, <1>3, <1>6, <1>7 DEF MappedFor, Due
  <2>2. plugins'[m] = p /\ metadata'[m] = p
    BY <1>1, <1>2, <1>7
  <2> QED BY <1>6, <2>1, <2>2 DEF Settled, MappedFor
<1> QED BY <1>1, <1>2, <1>4, <1>5, <1>7, ReturnKeeps

LEMMA RemovePluginKeeps ==
  ASSUME RegistryInv, NEW t \in Threads, RemovePlugin(t)
  PROVE  RegistryInv'
<1>0. PICK m : m = call[t].name
  OBVIOUS
<1>1. /\ call[t].op = "unregister" /\ call[t].at = "remove"
      /\ plugins' = [plugins EXCEPT ![m] = None]
      /\ UNCHANGED <<metadata, mappings>>
  BY <1>0 DEF RemovePlugin, At
<1>2. /\ m \in Names /\ Changes(call[t]) = {m}
      /\ m \notin overlapped => Settled(m)
  BY <1>0, <1>1, NamedCall DEF UnregisterPhase
<1>3. MapsAreTyped' /\ \A n \in Names \ {m} : Same(n)
  BY <1>1, <1>2, CallKnown DEF MapsAreTyped, Same, Mapped
<1>4. plugins'[m] = None
  BY <1>1, <1>2, CallKnown DEF MapsAreTyped
<1>5. CASE plugins[m] = None
  <2>1. Return(t, FALSE)
    BY <1>0, <1>5 DEF RemovePlugin
  <2>2. Same(m)
    BY <1>1, <1>4, <1>5 DEF Same, Mapped
  <2>3. m \notin overlapped => Settled(m)'
    BY <1>2, <2>2, SameKeepsPhase
  <2> QED BY <1>1, <1>2, <1>3, <2>1, <2>3, ReturnKeeps
<1>6. CASE plugins[m] # None
  <2>1. Step(t, "metadata")
    BY <1>0, <1>6 DEF RemovePlugin
  <2>2. GoesOn(t) /\ call'[t].at = "metadata"
    BY <1>1, <2>1, StepGoesOn
  <2>3. ASSUME m \notin overlapped PROVE InPhase(call[t], m)'
    <3>1. metadata[m] # None /\ MappedFor(m, metadata[m])
      BY <1>2, <1>6, <2>3 DEF Settled, MappedFor
    <3>2. metadata'[m] = metadata[m] /\ MappedFor(m, metadata[m])'
      BY <1>1, <3>1, MapsUntouched DEF MappedFor, Due
    <3>3. metadata'[m] # None
      BY <3>1, <3>2
    <3>4. UnregisterPhase(call[t], m)'
      BY <1>4, <2>2, <3>2, <3>3 DEF UnregisterPhase
    <3> QED BY <1>1, <2>2, <3>4 DEF InPhase, GoesOn
  <2> QED BY <1>2, <1>3, <2>2, <2>3, StepKeeps
<1> QED BY <1>5, <1>6

LEMMA ForgetMetadataKeeps ==
  ASSUME RegistryInv, NEW t \in Threads, ForgetMetadata(t)
  PROVE  RegistryInv'
<1>0. PICK m, p : m = call[t].name /\ p = metadata[call[t].name]
  OBVIOUS
<1>1. /\ call[t].op = "unregister" /\ call[t].at = "metadata"
      /\ metadata' = [metadata EXCEPT ![m] = None]
      /\ UNCHANGED <<plugins, mappings>>
  BY <1>0 DEF ForgetMetadata, Forget, At
<1>2. /\ m \in Names /\ Changes(call[t]) = {m}
      /\ m \notin overlapped => plugins[m] = None /\ p # None /\ MappedFor(m, p)
  BY <1>0, <1>1, NamedCall DEF UnregisterPhase, MappedFor
<1>3. MapsAreTyped' /\ \A n \in Names \ {m} : Same(n)
  BY <1>1, <1>2, CallKnown DEF MapsAreTyped, Same, Mapped
<1>4. metadata'[m] = None /\ p \in Plugins \cup {None}
  BY <1>0, <1>1, <1>2, CallKnown DEF MapsAreTyped
<1>5. CASE p = None
  <2>1. Return(t, TRUE)
    BY <1>0, <1>5 DEF ForgetMetadata, Forget
  <2> QED BY <1>1, <1>2, <1>3, <1>5, <2>1, ReturnKeeps
<1>6. CASE p # None
  <2> DEFINE c == call[t]
             d == Unmapping(c, p)
  <2>1. /\ call' = [call EXCEPT ![t] = d]
        /\ UNCHANGED <<loaded, overlapped, bypassed>>
    BY <1>0, <1>6 DEF ForgetMetadata, Forget
  <2>2. CallIsTyped(c) /\ DOMAIN call = Threads
    BY DEF RegistryInv, RegistryIsTyped
  <2>3. Moves(t) /\ call'[t] = d
    BY <2>1, <2>2 DEF Moves
  <2>4. /\ DOMAIN d = {"op", "name", "by", "at", "plugin"}
        /\ d.op = "unregister" /\ d.name = m /\ d.by = c.by /\ d.at = "mappings" /\ d.plugin = p
    BY <1>0 DEF Unmapping
  <2>5. CallIsTyped(d)
    BY <1>0, <1>1, <1>2, <1>4, <1>6, <2>2, <2>4 DEF CallIsTyped
  <2> HIDE DEF d
  <2>6. GoesOn(t)
    <3>1. CallIsTyped(call[t])'
      BY <2>3, <2>5 DEF CallIsTyped
    <3> QED BY <1>0, <1>1, <2>1, <2>3, <2>4, <3>1 DEF GoesOn
  <2>7. ASSUME m \notin overlapped PROVE InPhase(call[t], m)'
    <3>1. MappedFor(m, p)' /\ plugins'[m] = None
      BY <1>1, <1>2, <2>7, MapsUntouched
    <3>2. UnregisterPhase(call[t], m)'
      BY <1>4, <2>3, <2>4, <3>1 DEF UnregisterPhase
    <3> QED BY <2>3, <2>4, <3>2 DEF InPhase
  <2> QED BY <1>2, <1>3, <2>6, <2>7, StepKeeps
<1> QED BY <1>5, <1>6

LEMMA UnmapKeeps ==
  ASSUME RegistryInv, NEW t \in Threads, Unmap(t)
  PROVE  RegistryInv'
<1>0. PICK m, p : m = call[t].name /\ p = call[t].plugin
  OBVIOUS
<1>1. /\ call[t].op = "unregister" /\ call[t].at = "mappings"
      /\ mappings' = [ty \in NodeTypes |->
           IF ty \in Types[p] THEN Without(mappings[ty], m) ELSE mappings[ty]]
      /\ UNCHANGED <<plugins, metadata>> /\ Return(t, TRUE)
  BY <1>0 DEF Unmap, At
<1>2. /\ m \in Names /\ Changes(call[t]) = {m}
      /\ m \notin overlapped => plugins[m] = None /\ metadata[m] = None /\ MappedFor(m, p)
  BY <1>0, <1>1, NamedCall DEF UnregisterPhase
<1>3. /\ mappings' \in [NodeTypes -> Seq(Names)]
      /\ \A ty \in NodeTypes : \A n \in Names :
           Mapped(n, ty)' = IF ty \in Types[p] /\ m = n THEN 0 ELSE Mapped(n, ty)
  BY <1>1, <1>2, RetainedOthers, CallKnown
<1>4. MapsAreTyped'
  BY <1>1, <1>3, CallKnown DEF MapsAreTyped
<1>5. \A n \in Names \ {m} : Same(n)
  BY <1>1, <1>3 DEF Same
<1>6. ASSUME m \notin overlapped PROVE Settled(m)'
  <2>1. MappedFor(m, None)'
    BY <1>2, <1>3, <1>6 DEF MappedFor, Due
  <2>2. plugins'[m] = None /\ metadata'[m] = None
    BY <1>1, <1>2, <1>6
  <2> QED BY <2>1, <2>2 DEF Settled, MappedFor
<1> QED BY <1>1, <1>2, <1>4, <1>5, <1>6, ReturnKeeps

LEMMA LookupKeeps ==
  ASSUME RegistryInv, NEW t \in Threads, LockMappings(t) \/ Collect(t)
  PROVE  RegistryInv'
<1>1. call[t].op = "lookup" /\ UNCHANGED <<plugins, metadata, mappings>>
  BY DEF LockMappings, Collect, At
<1>2. Changes(call[t]) = {}
  BY <1>1 DEF Changes
<1>3. MapsAreTyped' /\ \A n : Same(n)
  BY <1>1, CallKnown DEF MapsAreTyped, Same, Mapped
<1>4. CASE LockMappings(t)
  <2>1. Step(t, "collect")
    BY <1>4 DEF LockMappings
  <2>2. GoesOn(t)
    BY <1>1, <2>1, StepGoesOn
  <2> QED BY <1>2, <1>3, <2>2, StepKeeps
<1>5. CASE Collect(t)
  <2>1. Return(t, TRUE)
    BY <1>5 DEF Collect
  <2> QED BY <1>1, <1>2, <1>3, <2>1, ReturnKeeps
<1> QED BY <1>4, <1>5

LEMMA ClearKeeps ==
  ASSUME RegistryInv, NEW t \in Threads,
         ClearPlugins(t) \/ ClearMetadata(t) \/ ClearMappings(t)
  PROVE  RegistryInv'
<1>1. call[t].op = "clear"
  BY DEF ClearPlugins, ClearMetadata, ClearMappings, At
<1>2. /\ Changes(call[t]) = Names
      /\ \A n \in Names \ overlapped : ClearPhase(call[t], n)
  <2>1. Changes(call[t]) = Names
    BY <1>1 DEF Changes
  <2> QED BY <1>1, <2>1, CallKnown DEF InPhase
<1>3. CASE ClearPlugins(t)
  <2>1. /\ plugins' = [n \in Names |-> None] /\ UNCHANGED <<metadata, mappings>>
        /\ Step(t, "metadata")
    BY <1>3 DEF ClearPlugins
  <2>2. MapsAreTyped'
    BY <2>1, CallKnown DEF MapsAreTyped
  <2>3. GoesOn(t) /\ call'[t].at = "metadata"
    BY <1>1, <2>1, StepGoesOn
  <2>4. \A n \in Names : InPhase(call[t], n)'
    BY <1>1, <2>1, <2>3 DEF InPhase, ClearPhase, GoesOn
  <2> QED BY <1>2, <2>2, <2>3, <2>4, StepKeeps
<1>4. CASE ClearMetadata(t)
  <2>1. /\ metadata' = [n \in Names |-> None] /\ UNCHANGED <<plugins, mappings>>
        /\ Step(t, "mappings") /\ call[t].at = "metadata"
    BY <1>4 DEF ClearMetadata, At
  <2>2. MapsAreTyped'
    BY <2>1, CallKnown DEF MapsAreTyped
  <2>3. GoesOn(t) /\ call'[t].at = "mappings"
    BY <1>1, <2>1, StepGoesOn
  <2>4. \A n \in Names \ overlapped : InPhase(call[t], n)'
    BY <1>1, <1>2, <2>1, <2>3 DEF InPhase, ClearPhase, GoesOn
  <2> QED BY <1>2, <2>2, <2>3, <2>4, StepKeeps
<1>5. CASE ClearMappings(t)
  <2>1. /\ mappings' = [ty \in NodeTypes |-> <<>>] /\ UNCHANGED <<plugins, metadata>>
        /\ Return(t, TRUE) /\ call[t].at = "mappings"
    BY <1>5 DEF ClearMappings, At
  <2>2. MapsAreTyped'
    BY <2>1, CallKnown DEF MapsAreTyped
  <2>3. \A n : MappedFor(n, None)'
    <3>1. ASSUME NEW n, NEW ty \in NodeTypes PROVE Mapped(n, ty)' = 0
      <4>1. HitsIn(mappings'[ty], {n}) = {}
        BY <2>1 DEF HitsIn
      <4> QED BY <4>1, FS_EmptySet DEF Mapped
    <3> QED BY <3>1 DEF MappedFor, Due
  <2>4. ASSUME NEW n \in Names \ overlapped PROVE Settled(n)'
    <3>1. plugins'[n] = None /\ metadata'[n] = None
      BY <1>2, <2>1 DEF ClearPhase
    <3> QED BY <2>3, <3>1 DEF Settled, MappedFor
  <2> QED BY <1>1, <1>2, <2>1, <2>2, <2>4, ReturnKeeps
<1> QED BY <1>3, <1>4, <1>5
-----------------------------------------------------------------------------
(* The theorems                                                            *)

LEMMA InitKeeps == Init => RegistryInv
<1> SUFFICES ASSUME Init PROVE RegistryInv
  OBVIOUS
<1>1. Idle.op = "idle" /\ CallIsTyped(Idle)
  BY DEF Idle, CallIsTyped
<1>2. RegistryIsTyped
  <2>1. mappings \in [NodeTypes -> Seq(Names)]
    BY DEF Init
  <2> QED BY <1>1, <2>1 DEF Init, RegistryIsTyped
<1>3. \A t \in Threads : call[t].op = "idle" /\ Changes(call[t]) = {}
  BY <1>1 DEF Init, Changes
<1>4. CallsAreOwned
  BY <1>3 DEF CallsAreOwned, IsOwned, IsBy, Bypasses
<1>5. OverlapsAreNoted
  BY <1>3 DEF OverlapsAreNoted
<1>6. MapsFollow
  <2>1. ASSUME NEW n \in Names PROVE Settled(n)
    <3>1. ASSUME NEW ty \in NodeTypes PROVE Mapped(n, ty) = 0
      <4>1. HitsIn(mappings[ty], {n}) = {}
        BY DEF Init, HitsIn
      <4> QED BY <4>1, FS_EmptySet DEF Mapped
    <3> QED BY <3>1 DEF Init, Settled, MappedFor, Due
  <2> QED BY <1>3, <2>1 DEF MapsFollow, Follows
<1>7. LoadedAreTracked
  BY DEF Init, LoadedAreTracked, IsTracked
<1> QED BY <1>2, <1>4, <1>5, <1>6, <1>7 DEF RegistryInv

LEMMA StartDirectKeeps ==
  ASSUME RegistryInv, NEW t \in Threads, StartDirect(t)
  PROVE  RegistryInv'
<1>1. loaded' = loaded
  BY DEF StartDirect
<1>2. ASSUME NEW p \in Plugins, Start(t, Register(p, "caller")) PROVE RegistryInv'
  <2> DEFINE c == Register(p, "caller")
  <2>1. Start(t, c) /\ CallIsTyped(c) /\ c.op = "register" /\ c.at = "check" /\ c.by = "caller"
    BY <1>2 DEF Register, CallIsTyped, RegisterSteps
  <2> HIDE DEF c
  <2> QED BY <1>1, <2>1, StartKeeps DEF IsBy
<1>3. ASSUME NEW n \in Names, Start(t, Unregister(n, "caller")) PROVE RegistryInv'
  <2> DEFINE c == Unregister(n, "caller")
  <2>1. /\ Start(t, c) /\ CallIsTyped(c)
        /\ c.op = "unregister" /\ c.at = "remove" /\ c.by = "caller"
    BY <1>3 DEF Unregister, CallIsTyped
  <2> HIDE DEF c
  <2> QED BY <1>1, <2>1, StartKeeps DEF IsBy
<1>4. ASSUME NEW ty \in NodeTypes, Start(t, Lookup(ty)) PROVE RegistryInv'
  <2> DEFINE c == Lookup(ty)
  <2>1. Start(t, c) /\ CallIsTyped(c) /\ c.op = "lookup"
    BY <1>4 DEF Lookup, CallIsTyped
  <2> HIDE DEF c
  <2> QED BY <1>1, <2>1, StartKeeps DEF IsBy
<1>5. ASSUME Start(t, Clear) PROVE RegistryInv'
  <2> DEFINE c == Clear
  <2>1. Start(t, c) /\ CallIsTyped(c) /\ c.op = "clear" /\ c.at = "plugins"
    BY <1>5 DEF Clear, CallIsTyped
  <2> HIDE DEF c
  <2> QED BY <1>1, <2>1, StartKeeps DEF IsBy
<1> QED BY <1>2, <1>3, <1>4, <1>5 DEF StartDirect

LEMMA LoaderStartKeeps ==
  ASSUME RegistryInv, StartLoad \/ StartUnload \/ StartReload
  PROVE  RegistryInv'
<1>1. Owner \in Threads
  BY PluginAssumption
<1>2. CASE StartLoad
  <2>1. PICK p \in Plugins :
          /\ Start(Owner, Register(p, "load"))
          /\ loaded' = IF p \in Libraries THEN Track(p, TRUE) ELSE loaded
    BY <1>2 DEF StartLoad
  <2> DEFINE c == Register(p, "load")
  <2>2. /\ Start(Owner, c) /\ CallIsTyped(c)
        /\ c.op = "register" /\ c.at = "check" /\ c.by = "load" /\ c.plugin = p
    BY <2>1 DEF Register, CallIsTyped, RegisterSteps
  <2> HIDE DEF c
  <2>3. loaded' = loaded \/ loaded' = Track(c.plugin, TRUE)
    BY <2>1, <2>2
  <2> QED BY <1>1, <2>2, <2>3, StartKeeps DEF IsBy
<1>3. ASSUME NEW n \in Names, NEW by \in {"unload", "reload"},
             Start(Owner, Unregister(n, by)), loaded' = loaded,
             by = "reload" => loaded[n] # None
      PROVE  RegistryInv'
  <2> DEFINE c == Unregister(n, by)
  <2>1. /\ Start(Owner, c) /\ CallIsTyped(c) /\ c.name = n
        /\ c.op = "unregister" /\ c.at = "remove" /\ c.by = by
    BY <1>3 DEF Unregister, CallIsTyped
  <2> HIDE DEF c
  <2> QED BY <1>1, <1>3, <2>1, StartKeeps DEF IsBy
<1> QED BY <1>2, <1>3 DEF StartUnload, StartReload

LEMMA NextKeeps ==
  ASSUME RegistryInv, [Next]_vars
  PROVE  RegistryInv'
<1>1. ASSUME NEW t \in Threads, GoOn(t) PROVE RegistryInv'
  BY <1>1, CheckNameKeeps, InsertPluginKeeps, StoreMetadataKeeps, PushMappingsKeeps,
     RemovePluginKeeps, ForgetMetadataKeeps, UnmapKeeps, LookupKeeps, ClearKeeps DEF GoOn
<1>2. ASSUME UNCHANGED vars PROVE RegistryInv'
  <2>1. /\ UNCHANGED <<plugins, metadata, mappings>>
        /\ UNCHANGED <<call, loaded, overlapped, bypassed>>
    BY <1>2 DEF vars
  <2>2. RegistryIsTyped'
    BY <2>1 DEF RegistryInv, RegistryIsTyped, CallIsTyped, TracksPlugin
  <2>3. CallsAreOwned'
    BY <2>1 DEF RegistryInv, CallsAreOwned, IsOwned, IsBy, Bypasses, Changes
  <2>4. OverlapsAreNoted'
    BY <2>1 DEF RegistryInv, OverlapsAreNoted, Changes
  <2>5. \A n : Same(n)
    BY <2>1 DEF Same, Mapped
  <2>6. \A n : Busy(n)' <=> Busy(n)
    BY <2>1 DEF Busy, Changes
  <2>7. ASSUME NEW n \in Names \ overlapped' PROVE Follows(n)'
    <3>1. Follows(n)
      BY <2>1 DEF RegistryInv, MapsFollow
    <3>2. \A t \in Threads : n \in Changes(call[t])' => InPhase(call[t], n)'
      <4>1. ASSUME NEW t \in Threads, n \in Changes(call[t])' PROVE InPhase(call[t], n)'
        <5>1. n \in Changes(call[t]) /\ call'[t] = call[t]
          BY <2>1, <4>1 DEF Changes
        <5>2. InPhase(call[t], n)
          BY <3>1, <5>1 DEF Follows
        <5> QED BY <2>5, <5>1, <5>2, SameKeepsPhase
      <4> QED BY <4>1
    <3>3. ~Busy(n)' => Settled(n)'
      BY <2>5, <2>6, <3>1, SameKeepsPhase DEF Follows
    <3> QED BY <3>2, <3>3 DEF Follows
  <2>8. LoadedAreTracked'
    BY <2>1, <2>6 DEF RegistryInv, LoadedAreTracked, IsTracked
  <2> QED BY <2>2, <2>3, <2>4, <2>7, <2>8 DEF RegistryInv, MapsFollow
<1> QED BY <1>1, <1>2, StartDirectKeeps, LoaderStartKeeps DEF Next

(* Whatever the threads do, a name that no two calls were changing at once *)
(* is, in all three maps, as far as the one call that changes it has come; *)
(* when no call does, the maps are settled (register, unregister and clear *)
(* of the registry, and the loader in front of it).                        *)
THEOREM MapsFollowTheirCall == Spec => []RegistryInv
<1> QED BY InitKeeps, NextKeeps, PTL DEF Spec

LEMMA FollowingMapsAgree == RegistryInv => MapsAgree
<1> SUFFICES ASSUME RegistryInv,
                    NEW n \in Names \ (overlapped \cup UNION {Changes(call[t]) : t \in Threads})
             PROVE  /\ metadata[n] = plugins[n]
                    /\ \A ty \in NodeTypes :
                         Cardinality({i \in DOMAIN mappings[ty] : mappings[ty][i] = n}) =
                           IF plugins[n] # None /\ ty \in Types[plugins[n]] THEN 1 ELSE 0
                    /\ (loaded[n] # None /\ n \notin bypassed) => plugins[n] # None
  BY DEF MapsAgree
<1>1. ~Busy(n)
  BY DEF Busy
<1>2. Settled(n)
  BY <1>1 DEF RegistryInv, MapsFollow, Follows
<1>3. ASSUME NEW ty \in NodeTypes
      PROVE  {i \in DOMAIN mappings[ty] : mappings[ty][i] = n} = HitsIn(mappings[ty], {n})
  BY DEF HitsIn
<1>4. n \notin bypassed => IsTracked(n)
  BY DEF RegistryInv, LoadedAreTracked
<1> QED BY <1>1, <1>2, <1>3, <1>4 DEF Settled, MappedFor, Mapped, Due, IsTracked

(* The three maps of the registry agree about every name that no call is   *)
(* changing and no two calls changed at once, and what the loader tracks   *)
(* is registered unless somebody went past it: for any threads, plugins,   *)
(* names and types, and any number of calls.                               *)
THEOREM RegistryStaysConsistent == Spec => []MapsAgree
<1> QED BY MapsFollowTheirCall, FollowingMapsAgree, PTL
=============================================================================
