--------------------------- MODULE PluginRegistry ----------------------------
(***************************************************************************)
(* @jil/plugin: the Registry of a tool's plugins and its Loader.  Plugins  *)
(* are loaded together by loadMany(), which starts one asynchronous        *)
(* register() for each of them, and unregistered by any of the names a     *)
(* plugin goes by; every life-cycle callback is awaited, may throw, and    *)
(* leaves room for the other calls.                                        *)
(*                                                                         *)
(* A module name is a record of the form it is written in and its own      *)
(* part: [form |-> "bare", part |-> "a"] is the name `a', and the forms    *)
(* "internal", "public", "custom" and "shorthand" stand for                *)
(* @project/type-a, project-type-a, @scope/project-type-a and @scope/a.    *)
(***************************************************************************)
EXTENDS Naturals, Sequences, SequencesExt, FiniteSets, Subsequences

CONSTANTS Plugins,     \* what loadMany() is asked for, each time it is asked
          Source,      \* the source string of each, or Instance
          OwnName,     \* the name a plugin gives itself, or NoName
          OwnPriority, \* Plugin.priority, 0 when it has none
          Installed,   \* the modules Node resolves
          Batches,     \* the lists loadMany() is called with, in order
          Unregisters, \* calls of unregister()
          Instance, NoName

Name(form, part) == [form |-> form, part |-> part]

IsName(n) == n = Name(n.form, n.part)

ASSUME PluginsAssumption ==
  /\ OwnPriority \in [Plugins -> Nat]
  /\ OwnName = [p \in Plugins |-> OwnName[p]]
  /\ \A p \in Plugins : IF Source[p] = Instance THEN OwnName[p] # NoName ELSE IsName(Source[p])
  /\ \A p \in Plugins : OwnName[p] # NoName => IsName(OwnName[p])
  /\ Batches \in Seq(Seq(Plugins))
  /\ \A i, j \in DOMAIN Batches : \A k \in DOMAIN Batches[i], m \in DOMAIN Batches[j] :
       Batches[i][k] = Batches[j][m] => i = j /\ k = m

DEFAULT_PRIORITY == 100

VARIABLES loaded,      \* how many of the Batches were begun
          call,        \* the state of each plugin's load() and register()
          name,        \* the name each is registered under
          priority,    \* options.priority when register() reads it, or 0
          plugins,     \* Registry.plugins: Registrations in order
          shutting,    \* the state of each unregister()
          startedUp, shutDown, pushed  \* history: callbacks run, order of push

registryVars == <<loaded, call, name, priority, plugins, shutting, startedUp, shutDown, pushed>>

RegistryInit ==
  /\ loaded = 0
  /\ call = [p \in Plugins |-> "idle"]
  /\ name = OwnName
  /\ priority = [p \in Plugins |-> 0]
  /\ plugins = <<>>
  /\ shutting = [u \in Unregisters |-> [step |-> "idle"]]
  /\ startedUp = {} /\ shutDown = {} /\ pushed = <<>>

-----------------------------------------------------------------------------
(* createResolver(): the modules looked up for a source, in order. *)
Lookups(source) ==
  CASE source.form = "bare" -> <<Name("internal", source.part), Name("public", source.part)>>
    [] source.form = "shorthand" -> <<Name("custom", source.part)>>
    [] OTHER -> <<source>>

(* PathResolver.resolve(): the lookups that Node finds; the first is taken. *)
Resolved(source) ==
  LET lookups == Lookups(source)
  IN Subsequence(lookups, {i \in DOMAIN lookups : lookups[i] \in Installed})

(* A mutant of isMatchingName(): the name without a scope is left out. *)
IsMatchingScoped(registered, asked) ==
  registered = asked \/ (asked.form = "bare" /\ registered = Name("internal", asked.part))

(* isMatchingName(), with formatModuleName(). *)
IsMatchingName(registered, asked) ==
  \/ registered = asked
  \/ asked.form = "bare" /\ registered \in {Name("internal", asked.part), Name("public", asked.part)}

Matching(asked) ==
  {i \in DOMAIN plugins : IsMatchingName(name[plugins[i].plugin], asked)}

(* get(): the first that matches. *)
Get(asked) == plugins[CHOOSE i \in Matching(asked) : \A j \in Matching(asked) : i <= j].plugin

(* The priority the one options object of a batch has come to when the k-th *)
(* of its instances was passed over: each that has one leaves its own.      *)
SharedPriority(batch, k) ==
  LET Own(i) == Source[batch[i]] = Instance /\ OwnPriority[batch[i]] > 0
      last == {i \in 1..k : Own(i)}
  IN IF last = {} THEN 0
     ELSE OwnPriority[batch[CHOOSE i \in last : \A j \in last : j <= i]]

(* loadMany(): the instances go through load() and register() up to the    *)
(* first await, in their order, then the sources are loaded; all of them   *)
(* share the options object that load() writes a plugin's priority to.     *)
LoadMany ==
  LET batch == Batches[loaded + 1]
      members == ToSet(batch)
      At(p) == CHOOSE i \in DOMAIN batch : batch[i] = p
  IN /\ loaded < Len(Batches)
     /\ loaded' = loaded + 1
     /\ call' = [p \in Plugins |-> IF p \notin members THEN call[p]
                                   ELSE IF Source[p] = Instance THEN "validate"
                                   ELSE "resolve"]
     /\ priority' = [p \in Plugins |->
                       IF p \notin members THEN priority[p]
                       ELSE IF Source[p] = Instance THEN SharedPriority(batch, At(p))
                       ELSE SharedPriority(batch, Len(batch))]
     /\ UNCHANGED <<name, plugins, shutting, startedUp, shutDown, pushed>>

(* Loader.load(), and onLoad: an unnamed plugin is named by the lookup that *)
(* was found; a source none of whose lookups is found rejects.              *)
LookUp(p) ==
  /\ call[p] = "resolve"
  /\ LET found == Resolved(Source[p])
     IN IF found = <<>>
        THEN call' = [call EXCEPT ![p] = "rejected"] /\ UNCHANGED name
        ELSE /\ call' = [call EXCEPT ![p] = "validate"]
             /\ name' = [name EXCEPT ![p] = IF OwnName[p] = NoName THEN Head(found)
                                            ELSE OwnName[p]]
  /\ UNCHANGED <<loaded, priority, plugins, shutting, startedUp, shutDown, pushed>>

(* options.validate() resolves, onBeforeRegister is emitted, and           *)
(* triggerStartup() begins with beforeStartup().                           *)
Validate(p) ==
  /\ call[p] = "validate"
  /\ call' = [call EXCEPT ![p] = "startup"]
  /\ UNCHANGED <<loaded, name, priority, plugins, shutting, startedUp, shutDown, pushed>>

Startup(p) ==
  /\ call[p] = "startup"
  /\ call' = [call EXCEPT ![p] = "afterStartup"]
  /\ startedUp' = startedUp \union {p}
  /\ UNCHANGED <<loaded, name, priority, plugins, shutting, shutDown, pushed>>

(* A mutant of the sort: what was pushed last goes before its equals. *)
SortedFirst(list, entry) ==
  Subsequence(list, {i \in DOMAIN list : list[i].priority < entry.priority}) \o <<entry>>
    \o Subsequence(list, {i \in DOMAIN list : list[i].priority >= entry.priority})

(* Array.sort() by priority is stable: what was pushed last goes behind    *)
(* those of its priority.                                                  *)
Sorted(list, entry) ==
  Subsequence(list, {i \in DOMAIN list : list[i].priority <= entry.priority}) \o <<entry>>
    \o Subsequence(list, {i \in DOMAIN list : list[i].priority > entry.priority})

(* afterStartup() resolves; the plugin is pushed, the plugins are sorted,  *)
(* and onAfterRegister is emitted.                                         *)
Register(p) ==
  /\ call[p] = "afterStartup"
  /\ call' = [call EXCEPT ![p] = "registered"]
  /\ plugins' = Sorted(plugins,
                  [plugin |-> p,
                   priority |-> IF priority[p] = 0 THEN DEFAULT_PRIORITY ELSE priority[p]])
  /\ pushed' = Append(pushed, p)
  /\ UNCHANGED <<loaded, name, priority, shutting, startedUp, shutDown>>

(* A validation, or a life-cycle callback of register(), throws. *)
Throw(p) ==
  /\ call[p] \in {"validate", "startup", "afterStartup"}
  /\ call' = [call EXCEPT ![p] = "rejected"]
  /\ UNCHANGED <<loaded, name, priority, plugins, shutting, startedUp, shutDown, pushed>>

(* A mutant of unregister(): the plugin is taken out before it shuts down. *)
UnregisterFirst(u, asked) ==
  /\ shutting[u].step = "idle" /\ Matching(asked) # {}
  /\ shutting' = [shutting EXCEPT ![u] =
                    [step |-> "shutdown", plugin |-> Get(asked), asked |-> asked]]
  /\ plugins' = Subsequence(plugins, DOMAIN plugins \ Matching(asked))
  /\ UNCHANGED <<loaded, call, name, priority, startedUp, shutDown, pushed>>

(* unregister(): get() throws when nothing matches; onBeforeUnregister. *)
Unregister(u, asked) ==
  /\ shutting[u].step = "idle" /\ Matching(asked) # {}
  /\ shutting' = [shutting EXCEPT ![u] =
                    [step |-> "shutdown", plugin |-> Get(asked), asked |-> asked]]
  /\ UNCHANGED <<loaded, call, name, priority, plugins, startedUp, shutDown, pushed>>

Shutdown(u) ==
  /\ shutting[u].step = "shutdown"
  /\ shutting' = [shutting EXCEPT ![u].step = "afterShutdown"]
  /\ shutDown' = shutDown \union {shutting[u].plugin}
  /\ UNCHANGED <<loaded, call, name, priority, plugins, startedUp, pushed>>

(* triggerShutdown() is over: every plugin that matches the name goes. *)
Unregistered(u) ==
  /\ shutting[u].step = "afterShutdown"
  /\ shutting' = [shutting EXCEPT ![u].step = "done"]
  /\ plugins' = Subsequence(plugins, DOMAIN plugins \ Matching(shutting[u].asked))
  /\ UNCHANGED <<loaded, call, name, priority, startedUp, shutDown, pushed>>

ThrowOnShutdown(u) ==
  /\ shutting[u].step \in {"shutdown", "afterShutdown"}
  /\ shutting' = [shutting EXCEPT ![u].step = "done"]
  /\ UNCHANGED <<loaded, call, name, priority, plugins, startedUp, shutDown, pushed>>

Names == {Source[p] : p \in {q \in Plugins : Source[q] # Instance}}
           \union {name[plugins[i].plugin] : i \in DOMAIN plugins}

RegistryNext ==
  \/ LoadMany
  \/ \E p \in Plugins : LookUp(p) \/ Validate(p) \/ Startup(p) \/ Register(p) \/ Throw(p)
  \/ \E u \in Unregisters : Shutdown(u) \/ Unregistered(u) \/ ThrowOnShutdown(u)
  \/ \E u \in Unregisters, asked \in Names : Unregister(u, asked)

RegistrySpec == RegistryInit /\ [][RegistryNext]_registryVars

-----------------------------------------------------------------------------
Registered == {plugins[i].plugin : i \in DOMAIN plugins}

(* The names a registered plugin answers to. *)
Answers(p) ==
  {name[p]} \union (IF name[p].form \in {"internal", "public"}
                     THEN {Name("bare", name[p].part)} ELSE {})

(***************************************************************************)
(* The registry holds only plugins whose startup() has run, and one that   *)
(* left it was shut down - or shared one of its names with one that was:   *)
(* unregister() takes out all that match and shuts down the first, so that *)
(* a plugin registered under that name meanwhile leaves without a shutdown.*)
(***************************************************************************)
StoppedWhenRemoved ==
  /\ Registered \subseteq startedUp
  /\ \A p \in ToSet(pushed) \ (Registered \union shutDown) :
       \E r \in shutDown \ {p} : Answers(p) \intersect Answers(r) # {}

(***************************************************************************)
(* Whatever the order in which the startups end and the removals between   *)
(* them, the plugins stand by priority, and those of one priority in the   *)
(* order they were registered.                                             *)
(***************************************************************************)
InOrder ==
  LET PushedAt(i) == CHOOSE k \in DOMAIN pushed : pushed[k] = plugins[i].plugin
  IN \A i, j \in DOMAIN plugins : i < j =>
       \/ plugins[i].priority < plugins[j].priority
       \/ plugins[i].priority = plugins[j].priority /\ PushedAt(i) < PushedAt(j)

(***************************************************************************)
(* get() finds a plugin by the source it was loaded from, when it did not  *)
(* name itself - unless that was a shorthand with a scope, which           *)
(* createResolver() expands and isMatchingName() does not know.            *)
(***************************************************************************)
FoundByItsSource ==
  \A p \in Registered :
    (Source[p] # Instance /\ OwnName[p] = NoName) =>
      (Source[p].form = "shorthand" \/ Matching(Source[p]) # {})

=============================================================================
