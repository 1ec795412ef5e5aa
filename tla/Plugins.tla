------------------------------ MODULE Plugins -------------------------------
(***************************************************************************)
(* Tool plugins: the plugin registry (aegisx_agent/plugins/registry.py),     *)
(* which groups definitions under a plugin id, and the entries it leads to   *)
(* in the tool registry (aegisx_agent/tools/registry.py).  Python plugins    *)
(* and MCP servers register through the same two calls.                      *)
(*                                                                           *)
(* A qualified tool name is the pair of a plugin id and a tool name; pairs   *)
(* that read the same once joined ("a" with "b_c", "a_b" with "c") are       *)
(* supposed not to occur.  What implements a tool is its provider: the       *)
(* client of an MCP server, or the module a Python plugin was loaded from.   *)
(***************************************************************************)
EXTENDS Naturals

CONSTANTS
    Plugin,      \* plugin ids
    Tool,        \* tool names, as the manifest spells them
    Version,     \* manifest versions
    Released,    \* [Plugin -> the versions its definitions may carry]
    Provider,    \* what a definition's handler is bound to
    Module,      \* the providers that are Python modules
    PluginOf,    \* [Module -> Plugin]: the id a module's definitions carry
    Exports,     \* [Module -> SUBSET Tool]: the tools it defines
    Absent       \* no entry in the tool registry

ASSUME PluginAssumption ==
    /\ Module \subseteq Provider
    /\ PluginOf \in [Module -> Plugin]
    /\ Released \in [Plugin -> SUBSET Version]
    /\ Exports \in [Module -> SUBSET Tool]
    /\ Absent \notin Version

Name == Plugin \X Tool
Entry == [by : Provider, version : Version]

ASSUME AbsentAssumption == Absent \notin Entry

VARIABLES
    tools,    \* [Name -> the PluginTool of ToolRegistry._tools, or Absent]
    listed,   \* [Plugin -> tool names in PluginRegistry._definitions]
    lock      \* [Plugin -> the version its definitions share, or Absent]

registry == <<tools, listed, lock>>

RegistryTypeOK ==
    /\ tools \in [Name -> Entry \cup {Absent}]
    /\ listed \in [Plugin -> SUBSET Tool]
    /\ lock \in [Plugin -> Version \cup {Absent}]

RegistryInit ==
    /\ tools = [n \in Name |-> Absent]
    /\ listed = [p \in Plugin |-> {}]
    /\ lock = [p \in Plugin |-> Absent]

-----------------------------------------------------------------------------
\* register raises for a version other than that of the definitions it has.
VersionClash(p, v) == lock[p] \notin {v, Absent}

\* Mutant: a definition that is listed already is not registered again.
RegisterNew(p, v, new, by) ==
    /\ new # {} => ~VersionClash(p, v)
    /\ tools' = [n \in Name |->
                   IF n[1] = p /\ n[2] \in new /\ n[2] \notin listed[p]
                   THEN [by |-> by, version |-> v] ELSE tools[n]]
    /\ listed' = [listed EXCEPT ![p] = @ \cup new]
    /\ lock' = IF new = {} THEN lock ELSE [lock EXCEPT ![p] = v]

\* register_plugin, one definition after the other, up to the end or to the
\* first one that does not validate: new are the tools that got registered.  A
\* definition that is listed already keeps its place; its tool is replaced.
Register(p, v, new, by) ==
    /\ new # {} => ~VersionClash(p, v)
    /\ tools' = [n \in Name |-> IF n[1] = p /\ n[2] \in new
                                THEN [by |-> by, version |-> v] ELSE tools[n]]
    /\ listed' = [listed EXCEPT ![p] = @ \cup new]
    /\ lock' = IF new = {} THEN lock ELSE [lock EXCEPT ![p] = v]

\* ToolRegistry.unregister for some tools of p.
Unregister(p, old) ==
    tools' = [n \in Name |-> IF n[1] = p /\ n[2] \in old THEN Absent ELSE tools[n]]

\* PluginRegistry.unregister(p) and the removal of the tools it returns.
Unload(p) ==
    /\ listed[p] # {}
    /\ Unregister(p, listed[p])
    /\ listed' = [listed EXCEPT ![p] = {}]
    /\ lock' = [lock EXCEPT ![p] = Absent]

\* load_plugin_module and load_plugin_path.
LoadModule(m) ==
    \E v \in Released[PluginOf[m]], new \in SUBSET Exports[m] : Register(PluginOf[m], v, new, m)

-----------------------------------------------------------------------------
\* "unloading the plugin_id removes every tool it brought", and all of them
\* have one version: whatever loads, fails half-way, unloads or reconnects, a
\* tool that can be called is listed under its plugin id at that id's version.
RegisteredIsListed ==
    \A n \in Name : tools[n] # Absent =>
        n[2] \in listed[n[1]] /\ tools[n].version = lock[n[1]]

=============================================================================
