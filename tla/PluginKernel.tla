---------------------------- MODULE PluginKernel ----------------------------
(***************************************************************************)
(* Mounting and unmounting of plugins on one context.  A plugin provides   *)
(* keys and injects keys; mounting looks each of them up in the registry   *)
(* and then lets the plugin register its services.  Each registration is   *)
(* held by an effect, and dropping the effect removes the key.  mount_all  *)
(* sorts a group so that a plugin comes after the plugins it depends on;   *)
(* when one of them is refused, the effects of the others are dropped.     *)
(* The registry is shared and locked for one key at a time.                *)
(***************************************************************************)
EXTENDS Naturals, Sequences, FiniteSets, Functions

CONSTANTS Plugins, Keys, Callers, Nobody

VARIABLES
  provides, inject,  \* plugin -> keys; chosen once
  registry,          \* key -> who registered its service, or Nobody
  stage,             \* caller -> its place
  todo,              \* caller -> plugins of its call still to be mounted
  keys,              \* caller -> keys still to look up, or to register
  effects,           \* caller -> its live effects
  verdict,           \* history: what the call should end in, by the registry it
                     \* began with, while nobody else has changed that
  contested          \* history: keys that two calls were offering at once, until
                     \* nobody offers them or holds an effect of them

declared == <<provides, inject>>
callVars == <<stage, todo, keys, effects>>
kernelVars == <<declared, registry, callVars, verdict, contested>>

ASSUME KernelAssumption ==
  /\ Plugins \subseteq Nat /\ Keys \subseteq Nat
  /\ IsFiniteSet(Plugins) /\ IsFiniteSet(Keys)
  /\ Nobody \notin Callers \X Plugins

Places == {"idle", "check", "needs", "offers", "apply", "refusing", "failing", "mounted",
           "unmounting"}
Effects == [plugin: Plugins, key: Keys]

\* The members of a set of numbers in ascending order.
Ascending(S) ==
  CHOOSE f \in [1..Cardinality(S) -> S] : \A i, j \in DOMAIN f : i < j => f[i] < f[j]

KernelInit ==
  /\ provides \in [Plugins -> SUBSET Keys]
  /\ inject \in [Plugins -> SUBSET Keys]
  /\ registry = [k \in Keys |-> Nobody]
  /\ stage = [c \in Callers |-> "idle"]
  /\ todo = [c \in Callers |-> <<>>]
  /\ keys = [c \in Callers |-> {}]
  /\ effects = [c \in Callers |-> {}]
  /\ verdict = [c \in Callers |-> "open"]
  /\ contested = {}

----------------------------------------------------------------------------
(* The order of a group: a depth-first search over the dependencies.  The  *)
(* stack holds the calls of visit that are still to be made and, for every *)
(* plugin that is being visited, its return.                               *)

Providers(G, k) == {p \in G : k \in provides[p]}
TwoProviders(G) == \E k \in Keys : Cardinality(Providers(G, k)) > 1

Visits == {"enter", "leave"} \X Plugins
Searches == [colour: [Plugins -> {"white", "gray", "black"}], stack: Seq(Visits),
             order: Seq(Plugins), cycle: BOOLEAN]

\* The visits a plugin makes: the member that provides each key it injects.
Dependencies(G, p) ==
  LET ks == Ascending({k \in inject[p] : Providers(G, k) # {}})
  IN [i \in DOMAIN ks |-> <<"enter", CHOOSE q \in Providers(G, ks[i]) : TRUE>>]

\* Faulty variant: a plugin is put before the plugins it depends on.
VisitPreOrder(G, s) ==
  LET p == Head(s.stack)[2]
      rest == Tail(s.stack)
  IN CASE Head(s.stack)[1] = "leave" ->
            [s EXCEPT !.colour[p] = "black", !.stack = rest]
       [] OTHER ->
            CASE s.colour[p] = "gray" -> [s EXCEPT !.cycle = TRUE]
              [] s.colour[p] = "black" -> [s EXCEPT !.stack = rest]
              [] OTHER -> [s EXCEPT !.colour[p] = "gray", !.order = Append(@, p),
                                    !.stack = Dependencies(G, p) \o <<<<"leave", p>>>> \o rest]

Visit(G, s) ==
  LET p == Head(s.stack)[2]
      rest == Tail(s.stack)
  IN CASE Head(s.stack)[1] = "leave" ->
            [s EXCEPT !.colour[p] = "black", !.order = Append(@, p), !.stack = rest]
       [] OTHER ->
            CASE s.colour[p] = "gray" -> [s EXCEPT !.cycle = TRUE]
              [] s.colour[p] = "black" -> [s EXCEPT !.stack = rest]
              [] OTHER -> [s EXCEPT !.colour[p] = "gray",
                                    !.stack = Dependencies(G, p) \o <<<<"leave", p>>>> \o rest]

Search(G) ==
  LET plugins == Ascending(G)
      visit[s \in Searches] ==
        IF s.cycle \/ s.stack = <<>> THEN s ELSE visit[Visit(G, s)]
  IN visit[[colour |-> [p \in Plugins |-> "white"],
            stack |-> [i \in DOMAIN plugins |-> <<"enter", plugins[i]>>],
            order |-> <<>>, cycle |-> FALSE]]

\* What it is for, told without a search.
Acyclic(G) ==
  \A H \in (SUBSET G) \ {{}} :
    \E p \in H : inject[p] \cap UNION {provides[q] : q \in H} = {}
Fits(G) ==
  /\ ~TwoProviders(G)
  /\ Acyclic(G)
  /\ \A p \in G : /\ \A k \in inject[p] : registry[k] # Nobody \/ Providers(G, k) # {}
                  /\ \A k \in provides[p] : registry[k] = Nobody

----------------------------------------------------------------------------
Enters(c, place) == stage' = [stage EXCEPT ![c] = place]

Begin(c, place, plugins, fit) ==
  /\ stage[c] = "idle"
  /\ Enters(c, place)
  /\ todo' = [todo EXCEPT ![c] = plugins]
  /\ verdict' = [verdict EXCEPT ![c] = IF fit THEN "mount" ELSE "refuse"]
  /\ UNCHANGED <<declared, registry, keys, effects, contested>>

\* mount_all looks at the group before it touches the registry.
MountAll(c) ==
  stage[c] = "idle" /\ \E G \in (SUBSET Plugins) \ {{}} :
    LET search == Search(G)
    IN IF TwoProviders(G) \/ search.cycle
       THEN Begin(c, "refusing", <<>>, Fits(G))
       ELSE Begin(c, "check", search.order, Fits(G))

Mountable(p) ==
  /\ \A k \in inject[p] : registry[k] # Nobody
  /\ \A k \in provides[p] : registry[k] = Nobody

Mount(c) == \E p \in Plugins : Begin(c, "check", <<p>>, Mountable(p))

TakeUp(c) ==
  /\ stage[c] = "check"
  /\ todo[c] # <<>>
  /\ Enters(c, "needs")
  /\ keys' = [keys EXCEPT ![c] = inject[Head(todo[c])]]
  /\ UNCHANGED <<declared, registry, todo, effects, verdict, contested>>

InRegistry == {k \in Keys : registry[k] # Nobody}

\* One look-up for one key of the plugin, under a lock of its own.
LookUp(c, place, fine) ==
  /\ stage[c] = place
  /\ \E k \in keys[c] :
       IF k \in fine
       THEN keys' = [keys EXCEPT ![c] = @ \ {k}] /\ UNCHANGED <<stage, todo>>
       ELSE /\ keys' = [keys EXCEPT ![c] = {}]
            /\ todo' = [todo EXCEPT ![c] = <<>>]
            /\ Enters(c, "refusing")
  /\ UNCHANGED <<declared, registry, effects, verdict, contested>>

LookUpNeed(c) == LookUp(c, "needs", InRegistry)

\* Faulty variant: a key that is already registered is no reason to refuse.
LookUpNothing(c) == LookUp(c, "offers", Keys)

LookUpOffer(c) == LookUp(c, "offers", Keys \ InRegistry)

\* The keys a call has begun to look up and may still register.
Offering(c) == IF stage[c] \in {"offers", "apply"} THEN provides[Head(todo[c])] ELSE {}

NeedsFound(c) ==
  /\ stage[c] = "needs"
  /\ keys[c] = {}
  /\ Enters(c, "offers")
  /\ keys' = [keys EXCEPT ![c] = provides[Head(todo[c])]]
  /\ contested' = contested \cup
       (provides[Head(todo[c])] \cap UNION {Offering(d) : d \in Callers \ {c}})
  /\ UNCHANGED <<declared, registry, todo, effects, verdict>>

OffersFree(c) ==
  /\ stage[c] = "offers"
  /\ keys[c] = {}
  /\ Enters(c, "apply")
  /\ keys' = [keys EXCEPT ![c] = provides[Head(todo[c])]]
  /\ UNCHANGED <<declared, registry, todo, effects, verdict, contested>>

Disturb(c) == verdict' = [d \in Callers |-> IF d = c THEN verdict[d] ELSE "open"]

\* A service is put under its key, whatever was there.
RegisterKey(c) ==
  /\ stage[c] = "apply"
  /\ \E k \in keys[c] :
       /\ registry' = [registry EXCEPT ![k] = <<c, Head(todo[c])>>]
       /\ effects' = [effects EXCEPT ![c] = @ \cup {[plugin |-> Head(todo[c]), key |-> k]}]
       /\ keys' = [keys EXCEPT ![c] = @ \ {k}]
  /\ Disturb(c)
  /\ UNCHANGED <<declared, stage, todo, contested>>

Applied(c) ==
  /\ stage[c] = "apply"
  /\ keys[c] = {}
  /\ Enters(c, "check")
  /\ todo' = [todo EXCEPT ![c] = Tail(@)]
  /\ UNCHANGED <<declared, registry, keys, effects, verdict, contested>>

\* A plugin may fail wherever it is, with some of its keys registered.
ApplyFails(c) ==
  /\ stage[c] = "apply"
  /\ Enters(c, "failing")
  /\ keys' = [keys EXCEPT ![c] = {}]
  /\ UNCHANGED <<declared, registry, todo, effects, verdict, contested>>

Mounted(c) ==
  /\ stage[c] = "check"
  /\ todo[c] = <<>>
  /\ Enters(c, "mounted")
  /\ UNCHANGED <<declared, registry, todo, keys, effects, verdict, contested>>

Unmount(c) ==
  /\ stage[c] = "mounted"
  /\ Enters(c, "unmounting")
  /\ verdict' = [verdict EXCEPT ![c] = "open"]
  /\ UNCHANGED <<declared, registry, todo, keys, effects, contested>>

Undoing(c) == stage[c] \in {"refusing", "failing", "unmounting"}

\* Faulty variant: a refusal returns at once and its effects are never dropped.
UndoOnUnmount(c) ==
  /\ Undoing(c)
  /\ \E e \in effects[c] :
       /\ registry' = [registry EXCEPT ![e.key] = IF stage[c] = "unmounting" THEN Nobody ELSE @]
       /\ effects' = [effects EXCEPT ![c] = @ \ {e}]
  /\ Disturb(c)
  /\ UNCHANGED <<declared, stage, todo, keys, contested>>

\* A dropped effect removes its key, whoever is registered under it by now.  What a
\* failed plugin held itself goes first; else any effect may be the next to go.
Undo(c) ==
  /\ Undoing(c)
  /\ \E e \in effects[c] :
       /\ stage[c] = "failing" /\ (\E f \in effects[c] : f.plugin = Head(todo[c])) =>
            e.plugin = Head(todo[c])
       /\ registry' = [registry EXCEPT ![e.key] = Nobody]
       /\ effects' = [effects EXCEPT ![c] = @ \ {e}]
  /\ Disturb(c)
  /\ UNCHANGED <<declared, stage, todo, keys, contested>>

Undone(c) ==
  /\ Undoing(c)
  /\ effects[c] = {}
  /\ Enters(c, "idle")
  /\ todo' = [todo EXCEPT ![c] = <<>>]
  /\ verdict' = [verdict EXCEPT ![c] = "open"]
  /\ contested' = contested \cap
       UNION {Offering(d) \cup {e.key : e \in effects[d]} : d \in Callers \ {c}}
  /\ UNCHANGED <<declared, registry, keys, effects>>

KernelNext ==
  \E c \in Callers : \/ MountAll(c) \/ Mount(c) \/ TakeUp(c) \/ LookUpNeed(c) \/ NeedsFound(c)
                     \/ LookUpOffer(c) \/ OffersFree(c) \/ RegisterKey(c) \/ Applied(c)
                     \/ ApplyFails(c) \/ Mounted(c) \/ Unmount(c) \/ Undo(c) \/ Undone(c)

KernelSpec == KernelInit /\ [][KernelNext]_kernelVars

----------------------------------------------------------------------------
(* Properties.                                                             *)

\* Every variable has its type, and no call has a plugin to mount twice.
KernelTypeOK ==
  /\ provides \in [Plugins -> SUBSET Keys]
  /\ inject \in [Plugins -> SUBSET Keys]
  /\ registry \in [Keys -> {Nobody} \cup (Callers \X Plugins)]
  /\ stage \in [Callers -> Places]
  /\ todo \in [Callers -> Seq(Plugins)]
  /\ \A c \in Callers : IsInjective(todo[c])
  /\ keys \in [Callers -> SUBSET Keys]
  /\ effects \in [Callers -> SUBSET Effects]
  /\ verdict \in [Callers -> {"open", "mount", "refuse"}]
  /\ contested \in SUBSET Keys

\* mount_all and mount succeed on what can be mounted and on nothing else: a
\* group is refused exactly when two members provide one key, its dependencies
\* have a cycle, a key is missing from group and registry, or one is taken.
\* (Stated for calls during which nobody else changed the registry.)
RefusedUnlessFits ==
  \A c \in Callers :
    /\ stage[c] = "refusing" => verdict[c] # "mount"
    /\ stage[c] = "mounted" => verdict[c] # "refuse"

\* The service of a mounted plugin stays registered under its key until its own
\* effect is dropped, unless two calls were between looking that key up and having
\* applied their plugin at once: then one may replace the other's.
HeldIsRegistered ==
  \A c \in Callers : \A e \in effects[c] :
    e.key \notin contested => registry[e.key] = <<c, e.plugin>>

\* Nothing outlives its effect: a call that was refused, that failed half-way or
\* whose plugins were unmounted leaves no registration behind.
NothingLeft ==
  \A k \in Keys, c \in Callers, p \in Plugins :
    registry[k] = <<c, p>> => [plugin |-> p, key |-> k] \in effects[c]

\* The registry is what the effects of the mounted plugins say: each holds its
\* own registration until its own effect is dropped.
RegistrySound == KernelTypeOK /\ HeldIsRegistered
=============================================================================
