\* Three servers, two with one plugin id, and a Python plugin; two callers: sessions, cancellations and losses.
SPECIFICATION FairSpec
CONSTANTS
  Plugin = {mixed, raw, foo, python}
  Tool = {t1, t2}
  Version = {"1.0.0", "1.1.0"}
  Released <- MCReleased
  Provider <- MCProvider
  Module = {module}
  PluginOf <- MCPluginOf
  Exports <- MCExports
  Absent = Absent
  Server <- MCServer
  Catalogue <- MCCatalogue
  Bridged <- MCBridged
  Managed <- MCManaged
  Caller = {k1, k2}
  Dialer = Dialer
  MaxClients = 2
  Beside <- MCBeside
  MaxHosts = 2
  MaxQueue = 2
  mixed = mixed
  raw = raw
  foo = foo
  python = python
  module = module
  t1 = t1
  t2 = t2
INVARIANTS ToolsConsistent
PROPERTIES DisconnectRemoves LossExplained CallsReturn
CHECK_DEADLOCK FALSE
