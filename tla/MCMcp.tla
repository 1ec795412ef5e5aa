------------------------------- MODULE MCMcp -------------------------------
(* Three servers and a Python plugin: an id that needs sanitising and gets a *)
(* plugin id of its own, and two ids that are sanitised to one.              *)
EXTENDS Mcp

CONSTANTS mixed, raw, foo, python, module, t1, t2

MCServer == {"Mixed", "foo", "Foo"}
MCBridged == [s \in MCServer |-> IF s = "Mixed" THEN mixed ELSE foo]
MCManaged == [s \in MCServer |-> IF s = "foo" THEN foo ELSE raw]
MCBeside ==
    [s \in MCServer |-> CASE s = "Mixed" -> {{}, {"foo"}} [] s = "foo" -> {{}} [] s = "Foo" -> {{"foo"}}]
MCPluginOf == [m \in {module} |-> python]
MCCatalogue == [s \in MCServer |-> IF s = "Foo" THEN {{t1, t2}} ELSE {{t1}}]
MCReleased == [p \in Plugin |-> IF p = mixed THEN Version ELSE {"1.0.0"}]
MCExports == [m \in {module} |-> {t1}]
MCProvider == Client \cup {module}
=============================================================================
