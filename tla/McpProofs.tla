----------------------------- MODULE McpProofs ------------------------------
(***************************************************************************)
(* The two registries stay consistent, and disconnecting a server removes  *)
(* its tools: for every set of servers, plugins, modules and callers and   *)
(* every bound, whatever connections, sessions, calls and cancellations do. *)
(*                                                                         *)
(* A connection registers its tools while it is the newest, and counts as  *)
(* connected only afterwards: the invariant says that no tool belongs to   *)
(* the newest client as long as it dials, so that the tools which belong to *)
(* a connected client are those its connection brought.  Connected clients *)
(* are older than the one that dials; nothing is assumed of plugin ids.    *)
(***************************************************************************)
EXTENDS Mcp, TLAPS, SequenceTheorems

Item == User \cup {Gone, Close}

-----------------------------------------------------------------------------
(* Types *)

LEMMA ClientFacts ==
    /\ MaxClients \in Nat /\ MaxHosts \in Nat
    /\ 0 \notin Client /\ 0 \notin Host
    /\ Client \subseteq Nat
BY McpAssumption DEF Client, Host

\* A queue that grows at its end, loses its head or has items marked as gone.
LEMMA AppendType ==
    ASSUME TypeOK, NEW h \in Host, NEW x \in Item,
           queue' = [queue EXCEPT ![h] = Append(@, x)]
    PROVE  queue' \in [Host -> Seq(Item)]
<1>1. queue[h] \in Seq(Item) BY DEF TypeOK, Item
<1>2. Append(queue[h], x) \in Seq(Item) BY <1>1, AppendProperties
<1> QED BY <1>2 DEF TypeOK, Item

LEMMA TailType ==
    ASSUME TypeOK, NEW h \in Host, queue[h] # <<>>,
           queue' = [queue EXCEPT ![h] = Tail(@)]
    PROVE  queue' \in [Host -> Seq(Item)] /\ Head(queue[h]) \in Item
<1>1. queue[h] \in Seq(Item) BY DEF TypeOK, Item
<1>2. Tail(queue[h]) \in Seq(Item) /\ Head(queue[h]) \in Item BY <1>1, HeadTailProperties
<1> QED BY <1>2 DEF TypeOK, Item

LEMMA MarkType ==
    ASSUME TypeOK, NEW h \in Host, NEW u,
           queue' = [queue EXCEPT ![h] = [i \in DOMAIN @ |-> IF @[i] = u THEN Gone ELSE @[i]]]
    PROVE  queue' \in [Host -> Seq(Item)]
<1> DEFINE q == queue[h]
           e(i) == IF q[i] = u THEN Gone ELSE q[i]
<1>1. q \in Seq(Item) BY DEF TypeOK, Item
<1>2. DOMAIN q = 1 .. Len(q) /\ Len(q) \in Nat BY <1>1, LenProperties
<1>3. \A i \in 1 .. Len(q) : e(i) \in Item BY <1>1, ElementOfSeq DEF Item
<1>4. [i \in 1 .. Len(q) |-> e(i)] \in Seq(Item)
  <2> HIDE DEF e
  <2> QED BY <1>2, <1>3, IsASeq
<1>5. [i \in DOMAIN q |-> IF q[i] = u THEN Gone ELSE q[i]] \in Seq(Item) BY <1>2, <1>4
<1> QED BY <1>5 DEF TypeOK, Item

SessionTypeOK ==
    /\ state \in [Host -> {"new", "serving", "leaving", "ended", "stopped"}]
    /\ queue \in [Host -> Seq(Item)]
    /\ serving \in [Host -> User \cup {Gone, "none"}]
    /\ alive \in [Host -> BOOLEAN]
    /\ closing \in [Host -> BOOLEAN]
    /\ cut \in [Host -> BOOLEAN]

ManagerTypeOK ==
    /\ live \in [Server -> Client \cup {0}]
    /\ brought \in [Server -> SUBSET Tool]
    /\ dial \in Server \cup {"none"}
    /\ made \in 0 .. MaxClients

ClientTypeOK ==
    /\ current \in [Client -> Host \cup {0}]
    /\ heard \in Outcome \cup {"none"}

LEMMA TypeParts ==
    TypeOK <=> RegistryTypeOK /\ ManagerTypeOK /\ ClientTypeOK /\ SessionTypeOK
BY DEF TypeOK, ManagerTypeOK, ClientTypeOK, SessionTypeOK, Item

LEMMA TypePartsNext ==
    TypeOK' <=> RegistryTypeOK' /\ ManagerTypeOK' /\ ClientTypeOK' /\ SessionTypeOK'
BY DEF TypeOK, ManagerTypeOK, ClientTypeOK, SessionTypeOK, Item

LEMMA EndType ==
    ASSUME TypeOK, NEW users, NEW how \in Outcome, End(users, how)
    PROVE  heard' \in Outcome \cup {"none"}
BY DEF End, TypeOK

LEMMA EnqueueType ==
    ASSUME TypeOK, NEW u \in User, NEW h \in Host, Enqueue(u, h)
    PROVE  queue' \in [Host -> Seq(Item)]
BY AppendType DEF Enqueue, Item

LEMMA CallOwnerType ==
    ASSUME TypeOK, NEW u \in User, NEW c \in Client, CallOwner(u, c)
    PROVE  ClientTypeOK' /\ SessionTypeOK'
<1>1. CASE /\ Connected(c) /\ Enqueue(u, current[c])
           /\ UNCHANGED <<current, state, serving, alive, closing, cut, heard>>
  <2>1. current[c] \in Host BY <1>1 DEF Connected, TypeOK
  <2>2. queue' \in [Host -> Seq(Item)] BY <1>1, <2>1, EnqueueType
  <2> QED BY <1>1, <2>2 DEF TypeOK, ClientTypeOK, SessionTypeOK
<1>2. ASSUME NEW h \in Host,
             state' = [state EXCEPT ![h] = "serving"],
             alive' = [alive EXCEPT ![h] = TRUE],
             current' = [current EXCEPT ![c] = h],
             Enqueue(u, h),
             UNCHANGED <<serving, closing, cut, heard>>
      PROVE  ClientTypeOK' /\ SessionTypeOK'
  <2>1. queue' \in [Host -> Seq(Item)] BY <1>2, EnqueueType
  <2> QED BY <1>2, <2>1 DEF TypeOK, ClientTypeOK, SessionTypeOK
<1>3. CASE /\ ~Connected(c) /\ current' = [current EXCEPT ![c] = 0]
           /\ End({u}, "lost") /\ UNCHANGED session
  <2>1. heard' \in Outcome \cup {"none"} BY <1>3, EndType DEF Outcome
  <2> QED BY <1>3, <2>1, TypeParts DEF ClientTypeOK, SessionTypeOK, session
<1> QED BY <1>1, <1>2, <1>3 DEF CallOwner

LEMMA CloseClientType ==
    ASSUME TypeOK, NEW c \in Client, CloseClient(c)
    PROVE  current' \in [Client -> Host \cup {0}] /\ SessionTypeOK'
<1> DEFINE h == current[c]
<1>1. /\ current' = [current EXCEPT ![c] = 0]
      /\ UNCHANGED <<state, serving, alive, cut>>
  BY DEF CloseClient
<1>2. CASE h # 0 /\ Open(h)
  <2>1. h \in Host BY <1>2 DEF TypeOK
  <2>2. /\ queue' = [queue EXCEPT ![h] = Append(@, Close)]
        /\ closing' = [closing EXCEPT ![h] = TRUE]
    BY <1>2 DEF CloseClient
  <2>3. queue' \in [Host -> Seq(Item)] BY <2>1, <2>2, AppendType DEF Item
  <2> QED BY <1>1, <2>1, <2>2, <2>3 DEF TypeOK, SessionTypeOK
<1>3. CASE ~(h # 0 /\ Open(h))
  <2>1. UNCHANGED <<queue, closing>> BY <1>3 DEF CloseClient
  <2> QED BY <1>1, <2>1, TypeParts DEF TypeOK, SessionTypeOK
<1> QED BY <1>2, <1>3

LEMMA CancelType ==
    ASSUME TypeOK, NEW u \in User, NEW h \in Host, Cancel(u, h)
    PROVE  SessionTypeOK'
<1>1. queue' \in [Host -> Seq(Item)] BY MarkType DEF Cancel
<1>2. /\ serving' = [serving EXCEPT ![h] = IF @ = u THEN Gone ELSE @]
      /\ cut' = [cut EXCEPT ![h] = @ \/ serving[h] = u]
      /\ UNCHANGED <<state, alive, closing>>
  BY DEF Cancel
<1>3. serving' \in [Host -> User \cup {Gone, "none"}] BY <1>2 DEF TypeOK
<1>4. cut' \in [Host -> BOOLEAN] BY <1>2 DEF TypeOK
<1> QED BY <1>1, <1>2, <1>3, <1>4 DEF TypeOK, SessionTypeOK

\* The steps of a host.
HostStep(h) ==
    \/ Serve(h) \/ Answer(h) \/ Leave(h) \/ ServerDies(h) \/ SessionBreaks(h) \/ GiveUp(h)

LEMMA HostStepType ==
    ASSUME TypeOK, NEW h \in Host, HostStep(h)
    PROVE  SessionTypeOK' /\ heard' \in Outcome \cup {"none"} /\ UNCHANGED hostFrame
<1>0. UNCHANGED hostFrame
  BY DEF HostStep, Serve, Answer, Leave, ServerDies, SessionBreaks, GiveUp
<1>1. CASE Serve(h)
  <2>1. queue' \in [Host -> Seq(Item)] /\ Head(queue[h]) \in Item
    BY <1>1, TailType DEF Serve
  <2>2. state' \in [Host -> {"new", "serving", "leaving", "ended", "stopped"}]
    BY <1>1 DEF Serve, TypeOK
  <2>3. serving' \in [Host -> User \cup {Gone, "none"}] BY <1>1 DEF Serve, TypeOK
  <2> QED BY <1>0, <1>1, <2>1, <2>2, <2>3 DEF Serve, TypeOK, SessionTypeOK
<1>2. CASE Answer(h)
  <2>1. heard' \in Outcome \cup {"none"} BY <1>2, EndType DEF Answer, Outcome
  <2>2. serving' \in [Host -> User \cup {Gone, "none"}] BY <1>2 DEF Answer, TypeOK
  <2>3. state' \in [Host -> {"new", "serving", "leaving", "ended", "stopped"}]
    BY <1>2 DEF Answer, TypeOK
  <2> QED BY <1>0, <1>2, <2>1, <2>2, <2>3 DEF Answer, TypeOK, SessionTypeOK, Item
<1>3. CASE Leave(h)
  <2>1. heard' \in Outcome \cup {"none"} BY <1>3, EndType DEF Leave, Outcome
  <2>2. queue' \in [Host -> Seq(Item)]
    <3>1. <<>> \in Seq(Item) BY EmptySeq
    <3> QED BY <1>3, <3>1 DEF Leave, TypeOK, Item
  <2> QED BY <1>0, <1>3, <2>1, <2>2 DEF Leave, TypeOK, SessionTypeOK
<1>4. CASE ServerDies(h)
  BY <1>0, <1>4 DEF ServerDies, TypeOK, SessionTypeOK, Item
<1>5. CASE SessionBreaks(h)
  <2>1. heard' \in Outcome \cup {"none"} BY <1>5, EndType DEF SessionBreaks, Outcome
  <2> QED BY <1>0, <1>5, <2>1 DEF SessionBreaks, TypeOK, SessionTypeOK, Item
<1>6. CASE GiveUp(h)
  <2>1. heard' \in Outcome \cup {"none"} BY <1>6, EndType DEF GiveUp, Outcome, TypeOK
  <2>2. serving' \in [Host -> User \cup {Gone, "none"}] BY <1>6 DEF GiveUp, TypeOK
  <2> QED BY <1>0, <1>6, <2>1, <2>2 DEF GiveUp, TypeOK, SessionTypeOK, Item
<1> QED BY <1>1, <1>2, <1>3, <1>4, <1>5, <1>6 DEF HostStep

\* The steps of the registry.
LEMMA RegisterType ==
    ASSUME RegistryTypeOK, NEW p \in Plugin, NEW v \in Version, NEW new \in SUBSET Tool,
           NEW by \in Provider, Register(p, v, new, by)
    PROVE  RegistryTypeOK'
<1>1. [by |-> by, version |-> v] \in Entry BY DEF Entry
<1>2. tools' \in [Name -> Entry \cup {Absent}] BY <1>1 DEF Register, RegistryTypeOK
<1>3. listed' \in [Plugin -> SUBSET Tool] BY DEF Register, RegistryTypeOK
<1>4. lock' \in [Plugin -> Version \cup {Absent}] BY DEF Register, RegistryTypeOK
<1> QED BY <1>2, <1>3, <1>4 DEF RegistryTypeOK

LEMMA UnregisterType ==
    ASSUME RegistryTypeOK, NEW p, NEW old, Unregister(p, old)
    PROVE  tools' \in [Name -> Entry \cup {Absent}]
BY DEF Unregister, RegistryTypeOK

LEMMA UnloadType ==
    ASSUME RegistryTypeOK, NEW p \in Plugin, Unload(p)
    PROVE  RegistryTypeOK'
<1>1. tools' \in [Name -> Entry \cup {Absent}] BY UnregisterType DEF Unload
<1> QED BY <1>1 DEF Unload, RegistryTypeOK

LEMMA LoadModuleType ==
    ASSUME RegistryTypeOK, NEW m \in Module, LoadModule(m)
    PROVE  RegistryTypeOK'
<1>1. PICK v \in Released[PluginOf[m]], new \in SUBSET Exports[m] :
        Register(PluginOf[m], v, new, m)
  BY DEF LoadModule
<1>2. PluginOf[m] \in Plugin /\ v \in Version /\ new \in SUBSET Tool /\ m \in Provider
  BY <1>1, PluginAssumption
<1> QED BY <1>1, <1>2, RegisterType

-----------------------------------------------------------------------------
(* The registries.                                                          *)

\* While a server is dialled the newest client is that of the connection, and
\* owns nothing yet.
Dialling ==
    dial # "none" => made \in Client /\ live[dial] = 0

NewestIsClean ==
    \A n \in Name : tools[n] # Absent /\ tools[n].by \in Client =>
        /\ tools[n].by <= made
        /\ dial # "none" => tools[n].by < made

\* Connected servers have older clients than the one that dials.
LiveIsOlder ==
    \A s \in Server : live[s] <= made /\ (dial # "none" => live[s] < made)

\* A tool that belongs to the client of a connected server came with it.
OwnIsBrought ==
    \A s \in Server, t \in Tool :
        LET n == <<Bridged[s], t>>
        IN live[s] # 0 /\ tools[n] # Absent /\ tools[n].by = live[s] => t \in brought[s]

IInv ==
    /\ TypeOK
    /\ RegisteredIsListed /\ ServedOrUnloaded
    /\ Dialling /\ NewestIsClean /\ LiveIsOlder /\ OwnIsBrought

Facts == RegisteredIsListed /\ ServedOrUnloaded /\ Dialling /\ NewestIsClean
             /\ LiveIsOlder /\ OwnIsBrought

LEMMA NameFacts ==
    ASSUME TypeOK
    PROVE  /\ \A p \in Plugin, t \in Tool : <<p, t>> \in Name
           /\ \A n \in Name : n[1] \in Plugin /\ n[2] \in Tool /\ n = <<n[1], n[2]>>
           /\ \A s \in Server : Bridged[s] \in Plugin /\ Managed[s] \in Plugin
           /\ \A m \in Module : PluginOf[m] \in Plugin
BY McpAssumption, PluginAssumption DEF Name

\* Whether a server has its plugin id for itself does not change.
LEMMA AloneStays == \A s \in Server : Alone(s)' <=> Alone(s)
BY DEF Alone

\* A connected server whose tools and listing a step leaves alone stays served.
LEMMA StillServed ==
    ASSUME TypeOK, ServedOrUnloaded, NEW s \in Server, live[s] # 0, Alone(s),
           live'[s] = live[s], brought'[s] = brought[s],
           listed'[Bridged[s]] = listed[Bridged[s]],
           \A t \in Tool : tools'[<<Bridged[s], t>>] = tools[<<Bridged[s], t>>]
    PROVE  Served(s)' \/ listed'[Bridged[s]] = {}
<1>1. brought[s] \subseteq Tool BY DEF TypeOK
<1> QED BY <1>1 DEF ServedOrUnloaded, Served

LEMMA InitIInv == Init => IInv
<1> SUFFICES ASSUME Init PROVE IInv OBVIOUS
<1>1. TypeOK
  <2>1. RegistryTypeOK BY DEF Init, RegistryInit, RegistryTypeOK
  <2>2. ManagerTypeOK BY ClientFacts DEF Init, ManagerTypeOK
  <2>3. ClientTypeOK BY DEF Init, ClientTypeOK
  <2>4. SessionTypeOK
    <3>1. <<>> \in Seq(Item) BY EmptySeq
    <3> QED BY <3>1 DEF Init, SessionTypeOK
  <2> QED BY <2>1, <2>2, <2>3, <2>4, TypeParts
<1>2. Facts
  BY NameFacts, <1>1 DEF Init, RegistryInit, Facts, RegisteredIsListed, ServedOrUnloaded,
     Served, Dialling, NewestIsClean, LiveIsOlder, OwnIsBrought
<1> QED BY <1>1, <1>2 DEF IInv, Facts

\* What a step of the registry alone, or of sessions alone, may leave alone.
LEMMA QuietIInv ==
    ASSUME IInv, UNCHANGED <<registry, live, brought, dial, made>>
    PROVE  Facts' /\ RegistryTypeOK' /\ ManagerTypeOK'
BY DEF IInv, TypeOK, Facts, registry, RegistryTypeOK, ManagerTypeOK, RegisteredIsListed,
   ServedOrUnloaded, Served, Alone, Dialling, NewestIsClean, LiveIsOlder, OwnIsBrought

\* A connection that ends without success.
LEMMA DialEndsIInv ==
    ASSUME IInv, UNCHANGED <<registry, live, brought, made>>, dial' = "none"
    PROVE  Facts' /\ RegistryTypeOK' /\ ManagerTypeOK'
BY DEF IInv, TypeOK, Facts, registry, RegistryTypeOK, ManagerTypeOK, RegisteredIsListed,
   ServedOrUnloaded, Served, Alone, Dialling, NewestIsClean, LiveIsOlder, OwnIsBrought

LEMMA HostStepIInv ==
    ASSUME IInv, NEW h \in Host, HostStep(h)
    PROVE  IInv'
<1>1. TypeOK BY DEF IInv
<1>2. SessionTypeOK' /\ heard' \in Outcome \cup {"none"} /\ UNCHANGED hostFrame
  BY <1>1, HostStepType
<1>3. Facts' /\ RegistryTypeOK' /\ ManagerTypeOK' BY <1>2, QuietIInv DEF hostFrame
<1>4. ClientTypeOK' BY <1>1, <1>2 DEF hostFrame, ClientTypeOK, TypeOK
<1> QED BY <1>2, <1>3, <1>4, TypePartsNext DEF IInv, Facts

\* Registering for a plugin id keeps the two registries in step.
LEMMA RegisterListed ==
    ASSUME TypeOK, RegisteredIsListed, NEW p \in Plugin, NEW v \in Version,
           NEW new \in SUBSET Tool, NEW by \in Provider, Register(p, v, new, by)
    PROVE  RegisteredIsListed'
<1> SUFFICES ASSUME NEW n \in Name, tools'[n] # Absent
             PROVE  n[2] \in listed'[n[1]] /\ tools'[n].version = lock'[n[1]]
  BY DEF RegisteredIsListed
<1>1. n[1] \in Plugin /\ n[2] \in Tool BY NameFacts
<1>2. CASE n[1] = p /\ n[2] \in new
  <2>1. new # {} /\ tools'[n] = [by |-> by, version |-> v] BY <1>2 DEF Register
  <2>2. lock'[p] = v BY <2>1 DEF Register, TypeOK, RegistryTypeOK
  <2>3. n[2] \in listed'[p] BY <1>2 DEF Register, TypeOK, RegistryTypeOK
  <2> QED BY <1>2, <2>1, <2>2, <2>3
<1>3. CASE ~(n[1] = p /\ n[2] \in new)
  <2>1. tools'[n] = tools[n] BY <1>3 DEF Register
  <2>2. n[2] \in listed[n[1]] /\ tools[n].version = lock[n[1]]
    BY <2>1 DEF RegisteredIsListed
  <2>3. listed[n[1]] \subseteq listed'[n[1]]
    BY <1>1 DEF Register, TypeOK, RegistryTypeOK
  <2>4. lock'[n[1]] = lock[n[1]]
    <3>1. CASE n[1] = p /\ new # {}
      <4>1. tools[n] \in Entry BY <2>1 DEF TypeOK, RegistryTypeOK
      <4>2. lock[p] \in Version BY <2>2, <3>1, <4>1 DEF Entry
      <4>3. lock[p] \in {v, Absent} BY <3>1 DEF Register, VersionClash
      <4>4. lock[p] = v BY <4>2, <4>3, PluginAssumption
      <4> QED BY <3>1, <4>4 DEF Register, TypeOK, RegistryTypeOK
    <3>2. CASE ~(n[1] = p /\ new # {})
      BY <1>1, <3>2 DEF Register, TypeOK, RegistryTypeOK
    <3> QED BY <3>1, <3>2
  <2> QED BY <2>1, <2>2, <2>3, <2>4
<1> QED BY <1>2, <1>3

\* A tool that a plugin id does not list is not registered.
LEMMA UnlistedIsAbsent ==
    ASSUME TypeOK, RegisteredIsListed, NEW p \in Plugin, NEW t \in Tool, t \notin listed[p]
    PROVE  tools[<<p, t>>] = Absent
<1>1. <<p, t>> \in Name BY NameFacts
<1> QED BY <1>1 DEF RegisteredIsListed

LEMMA UnloadIInv ==
    ASSUME IInv, NEW p \in Plugin, Unload(p), UNCHANGED <<made, dial, live, brought>>
    PROVE  Facts' /\ RegistryTypeOK' /\ ManagerTypeOK'
<1>1. TypeOK /\ RegisteredIsListed /\ ServedOrUnloaded BY DEF IInv
<1>2. \A n \in Name : tools'[n] = tools[n] \/ tools'[n] = Absent
  BY DEF Unload, Unregister
<1>3. \A n \in Name : n[1] = p => tools'[n] = Absent
  <2> TAKE n \in Name
  <2> HAVE n[1] = p
  <2>1. n = <<p, n[2]>> /\ n[2] \in Tool BY <1>1, NameFacts
  <2>2. CASE n[2] \in listed[p] BY <2>2 DEF Unload, Unregister
  <2>3. CASE n[2] \notin listed[p]
    BY <1>1, <1>2, <2>1, <2>3, UnlistedIsAbsent
  <2> QED BY <2>2, <2>3
<1>4. \A q \in Plugin : q # p => listed'[q] = listed[q] /\ lock'[q] = lock[q]
  BY <1>1 DEF Unload, TypeOK, RegistryTypeOK
<1>5. listed'[p] = {} BY <1>1 DEF Unload, TypeOK, RegistryTypeOK
<1>6. \A n \in Name : n[1] # p => tools'[n] = tools[n]
  BY DEF Unload, Unregister
<1>7. RegisteredIsListed' BY <1>1, <1>3, <1>4, <1>6, NameFacts DEF RegisteredIsListed
<1>8. ServedOrUnloaded'
  <2> SUFFICES ASSUME NEW s \in Server, live[s] # 0, Alone(s)
               PROVE  Served(s)' \/ listed'[Bridged[s]] = {}
    BY AloneStays DEF ServedOrUnloaded
  <2>1. CASE Bridged[s] = p BY <2>1, <1>5
  <2>2. CASE Bridged[s] # p
    <3>1. \A t \in Tool : tools'[<<Bridged[s], t>>] = tools[<<Bridged[s], t>>]
      BY <1>1, <1>6, <2>2, NameFacts
    <3>2. listed'[Bridged[s]] = listed[Bridged[s]] BY <1>1, <1>4, <2>2, NameFacts
    <3> QED BY <1>1, <3>1, <3>2, StillServed
  <2> QED BY <2>1, <2>2
<1>9. Dialling' BY DEF IInv, Dialling
<1>10. NewestIsClean' BY <1>2 DEF IInv, NewestIsClean
<1>11. LiveIsOlder' BY DEF IInv, LiveIsOlder
<1>12. OwnIsBrought' BY <1>1, <1>2, NameFacts DEF IInv, OwnIsBrought
<1>13. RegistryTypeOK' /\ ManagerTypeOK'
  BY <1>1, UnloadType, TypeParts DEF ManagerTypeOK
<1> QED BY <1>7, <1>8, <1>9, <1>10, <1>11, <1>12, <1>13 DEF Facts

LEMMA LoadModuleIInv ==
    ASSUME IInv, NEW m \in Module, LoadModule(m), UNCHANGED <<made, dial, live, brought>>
    PROVE  Facts' /\ RegistryTypeOK' /\ ManagerTypeOK'
<1> DEFINE p == PluginOf[m]
<1>1. TypeOK /\ RegisteredIsListed BY DEF IInv
<1>2. PICK v \in Released[p], new \in SUBSET Exports[m] : Register(p, v, new, m)
  BY DEF LoadModule
<1>3. p \in Plugin /\ v \in Version /\ new \in SUBSET Tool /\ m \in Provider /\ m \notin Client
  BY <1>2, PluginAssumption, McpAssumption
<1>4. RegisteredIsListed' BY <1>1, <1>2, <1>3, RegisterListed
<1>5. \A n \in Name : tools'[n] = tools[n] \/ (n[1] = p /\ tools'[n].by = m)
  BY <1>2 DEF Register
<1>6. \A q \in Plugin : q # p => listed'[q] = listed[q]
  BY <1>1, <1>2 DEF Register, TypeOK, RegistryTypeOK
<1>9. ServedOrUnloaded'
  <2> SUFFICES ASSUME NEW s \in Server, live[s] # 0, Alone(s)
               PROVE  Served(s)' \/ listed'[Bridged[s]] = {}
    BY AloneStays DEF ServedOrUnloaded
  <2>1. Bridged[s] # p BY DEF Alone
  <2>2. \A t \in Tool : tools'[<<Bridged[s], t>>] = tools[<<Bridged[s], t>>]
    BY <1>1, <1>5, <2>1, NameFacts
  <2>3. listed'[Bridged[s]] = listed[Bridged[s]] BY <1>1, <1>6, <2>1, NameFacts
  <2> QED BY <2>2, <2>3, StillServed DEF IInv
<1>10. Dialling' BY DEF IInv, Dialling
<1>11. NewestIsClean' BY <1>3, <1>5 DEF IInv, NewestIsClean
<1>12. LiveIsOlder' BY DEF IInv, LiveIsOlder
<1>13. OwnIsBrought'
  <2> SUFFICES ASSUME NEW s \in Server, NEW t \in Tool, live[s] # 0,
                      tools'[<<Bridged[s], t>>] # Absent,
                      tools'[<<Bridged[s], t>>].by = live[s]
               PROVE  t \in brought[s]
    BY DEF OwnIsBrought
  <2>1. live[s] \in Client BY <1>1 DEF TypeOK
  <2>2. tools'[<<Bridged[s], t>>] = tools[<<Bridged[s], t>>]
    BY <1>1, <1>3, <1>5, <2>1, NameFacts
  <2> QED BY <2>2 DEF IInv, OwnIsBrought
<1>14. RegistryTypeOK' /\ ManagerTypeOK'
  BY <1>1, LoadModuleType, TypeParts DEF ManagerTypeOK
<1> QED BY <1>4, <1>9, <1>10, <1>11, <1>12, <1>13, <1>14 DEF Facts

\* What registering the tools of a connection does to the other servers.
LEMMA RegisterForServer ==
    ASSUME IInv, NEW s \in Server, NEW v \in Released[Bridged[s]], NEW new \in SUBSET Tool,
           made \in Client, Register(Bridged[s], v, new, made)
    PROVE  /\ RegistryTypeOK' /\ RegisteredIsListed'
           /\ \A n \in Name : \/ tools'[n] = tools[n]
                              \/ n[1] = Bridged[s] /\ n[2] \in new /\ tools'[n].by = made
           /\ \A t \in new : /\ tools'[<<Bridged[s], t>>] # Absent
                             /\ tools'[<<Bridged[s], t>>].by = made
           /\ \A u \in Server : Bridged[u] # Bridged[s] =>
                 /\ \A t \in Tool : tools'[<<Bridged[u], t>>] = tools[<<Bridged[u], t>>]
                 /\ listed'[Bridged[u]] = listed[Bridged[u]]
           /\ new \subseteq listed'[Bridged[s]]
<1>1. TypeOK /\ RegisteredIsListed BY DEF IInv
<1>2. Bridged[s] \in Plugin /\ v \in Version /\ made \in Provider
  BY McpAssumption, PluginAssumption
<1>3. RegistryTypeOK' /\ RegisteredIsListed'
  BY <1>1, <1>2, RegisterType, RegisterListed, TypeParts
<1>4. \A n \in Name : tools'[n] = IF n[1] = Bridged[s] /\ n[2] \in new
                                  THEN [by |-> made, version |-> v] ELSE tools[n]
  BY DEF Register
<1>5. \A t \in new : tools'[<<Bridged[s], t>>] = [by |-> made, version |-> v]
  BY <1>1, <1>4, NameFacts
<1>6. [by |-> made, version |-> v] \in Entry BY <1>2 DEF Entry
<1>7. [by |-> made, version |-> v] # Absent BY <1>6, AbsentAssumption
<1>8. \A q \in Plugin : listed'[q] = IF q = Bridged[s] THEN listed[q] \cup new ELSE listed[q]
  BY <1>1 DEF Register, TypeOK, RegistryTypeOK
<1>9. \A u \in Server : Bridged[u] # Bridged[s] =>
         /\ \A t \in Tool : tools'[<<Bridged[u], t>>] = tools[<<Bridged[u], t>>]
         /\ listed'[Bridged[u]] = listed[Bridged[u]]
  BY <1>1, <1>4, <1>8, NameFacts
<1>10. new \subseteq listed'[Bridged[s]] BY <1>2, <1>8
<1> QED BY <1>3, <1>4, <1>5, <1>7, <1>9, <1>10

LEMMA ConnectSucceedsIInv ==
    ASSUME IInv, ConnectSucceeds
    PROVE  IInv'
<1>1. TypeOK /\ Dialling /\ NewestIsClean BY DEF IInv
<1>2. dial \in Server /\ made \in Client /\ live[dial] = 0 /\ made # 0
  BY <1>1, ClientFacts DEF ConnectSucceeds, Dialling, TypeOK
<1>3. PICK v \in Released[Bridged[dial]], all \in Catalogue[dial] :
        /\ Register(Bridged[dial], v, all, made)
        /\ live' = [live EXCEPT ![dial] = made]
        /\ brought' = [brought EXCEPT ![dial] = all]
  BY DEF ConnectSucceeds
<1>4. all \in SUBSET Tool BY <1>2, McpAssumption
<1>5. /\ RegistryTypeOK' /\ RegisteredIsListed'
      /\ \A n \in Name : \/ tools'[n] = tools[n]
                         \/ n[1] = Bridged[dial] /\ n[2] \in all /\ tools'[n].by = made
      /\ \A t \in all : /\ tools'[<<Bridged[dial], t>>] # Absent
                        /\ tools'[<<Bridged[dial], t>>].by = made
      /\ \A u \in Server : Bridged[u] # Bridged[dial] =>
            /\ \A t \in Tool : tools'[<<Bridged[u], t>>] = tools[<<Bridged[u], t>>]
            /\ listed'[Bridged[u]] = listed[Bridged[u]]
      /\ all \subseteq listed'[Bridged[dial]]
  BY <1>2, <1>3, <1>4, RegisterForServer
<1>6. /\ dial' = "none" /\ heard' = "none" /\ made' = made
      /\ UNCHANGED <<current, session>>
  BY DEF ConnectSucceeds, DialDone
<1>7. /\ live'[dial] = made /\ brought'[dial] = all
      /\ \A u \in Server \ {dial} : live'[u] = live[u] /\ brought'[u] = brought[u]
  BY <1>1, <1>2, <1>3 DEF TypeOK
<1>8. ManagerTypeOK' /\ ClientTypeOK' /\ SessionTypeOK'
  BY <1>1, <1>2, <1>3, <1>4, <1>6, TypeParts
     DEF ManagerTypeOK, ClientTypeOK, SessionTypeOK, session
<1>9. ServedOrUnloaded'
  <2> SUFFICES ASSUME NEW u \in Server, live'[u] # 0, Alone(u)
               PROVE  Served(u)' \/ listed'[Bridged[u]] = {}
    BY AloneStays DEF ServedOrUnloaded
  <2>1. CASE u = dial BY <1>5, <1>7, <2>1 DEF Served
  <2>2. CASE u # dial
    <3>1. Bridged[u] # Bridged[dial] BY <1>2, <2>2 DEF Alone
    <3> QED BY <1>1, <1>5, <1>7, <2>2, <3>1, StillServed DEF IInv
  <2> QED BY <2>1, <2>2
<1>10. Dialling' BY <1>6 DEF Dialling
<1>11. NewestIsClean'
  <2>1. made <= made BY <1>2, ClientFacts
  <2> QED BY <1>1, <1>5, <1>6, <2>1 DEF NewestIsClean
<1>12. LiveIsOlder'
  <2>1. made <= made BY <1>2, ClientFacts
  <2> QED BY <1>6, <1>7, <2>1 DEF IInv, LiveIsOlder
<1>13. OwnIsBrought'
  <2> SUFFICES ASSUME NEW s \in Server, NEW t \in Tool,
                      live'[s] # 0, tools'[<<Bridged[s], t>>] # Absent,
                      tools'[<<Bridged[s], t>>].by = live'[s]
               PROVE  t \in brought'[s]
    BY DEF OwnIsBrought
  <2> DEFINE n == <<Bridged[s], t>>
  <2>1. n \in Name /\ n[1] = Bridged[s] /\ n[2] = t BY <1>1, NameFacts
  <2>2. CASE s = dial
    <3>1. ~(tools[n] # Absent /\ tools[n].by = made)
      <4>1. tools[n] # Absent /\ tools[n].by \in Client => tools[n].by < made
        BY <1>1, <2>1 DEF NewestIsClean, ConnectSucceeds
      <4> QED BY <1>2, <4>1, ClientFacts
    <3> QED BY <1>5, <1>7, <2>1, <2>2, <3>1
  <2>3. CASE s # dial
    <3>1. live'[s] = live[s] /\ live[s] < made
      BY <1>7, <2>3 DEF IInv, LiveIsOlder, ConnectSucceeds
    <3>2. live[s] # made
      BY <1>1, <1>2, <3>1, ClientFacts DEF TypeOK
    <3>3. tools'[n] = tools[n] BY <1>5, <2>1, <3>1, <3>2
    <3> QED BY <1>7, <2>3, <3>1, <3>3 DEF IInv, OwnIsBrought
  <2> QED BY <2>2, <2>3
<1> QED BY <1>5, <1>8, <1>9, <1>10, <1>11, <1>12, <1>13, TypePartsNext DEF IInv

LEMMA ConnectFailsIInv ==
    ASSUME IInv, ConnectFails
    PROVE  IInv'
<1>1. TypeOK /\ Dialling /\ NewestIsClean BY DEF IInv
<1>2. dial \in Server /\ made \in Client /\ live[dial] = 0
  BY <1>1 DEF ConnectFails, Dialling, TypeOK
<1>3. /\ dial' = "none" /\ heard' = "none" /\ made' = made
      /\ UNCHANGED <<live, brought>> /\ CloseClient(made)
  BY DEF ConnectFails, DialDone
<1>4. ClientTypeOK' /\ SessionTypeOK'
  BY <1>1, <1>2, <1>3, CloseClientType DEF ClientTypeOK
<1>5. CASE UNCHANGED registry
  <2>1. Facts' /\ RegistryTypeOK' /\ ManagerTypeOK' BY <1>3, <1>5, DialEndsIInv
  <2> QED BY <1>4, <2>1, TypePartsNext DEF IInv, Facts
<1>6. ASSUME NEW v \in Released[Bridged[dial]], NEW all \in Catalogue[dial],
             NEW some \in SUBSET all, Register(Bridged[dial], v, some, made)
      PROVE  IInv'
  <2>1. some \in SUBSET Tool BY <1>2, McpAssumption
  <2>2. /\ RegistryTypeOK' /\ RegisteredIsListed'
        /\ \A n \in Name : \/ tools'[n] = tools[n]
                           \/ n[1] = Bridged[dial] /\ n[2] \in some /\ tools'[n].by = made
        /\ \A u \in Server : Bridged[u] # Bridged[dial] =>
              /\ \A t \in Tool : tools'[<<Bridged[u], t>>] = tools[<<Bridged[u], t>>]
              /\ listed'[Bridged[u]] = listed[Bridged[u]]
    BY <1>2, <1>6, <2>1, RegisterForServer
  <2>3. ManagerTypeOK' BY <1>1, <1>3, TypeParts DEF ManagerTypeOK
  <2>4. ServedOrUnloaded'
    <3> SUFFICES ASSUME NEW u \in Server, live'[u] # 0, Alone(u)
                 PROVE  Served(u)' \/ listed'[Bridged[u]] = {}
      BY AloneStays DEF ServedOrUnloaded
    <3>1. u # dial BY <1>2, <1>3
    <3>2. Bridged[u] # Bridged[dial] BY <1>2, <3>1 DEF Alone
    <3> QED BY <1>1, <1>3, <2>2, <3>2, StillServed DEF IInv
  <2>5. Dialling' BY <1>3 DEF Dialling
  <2>6. NewestIsClean'
    <3>1. made <= made BY <1>2, ClientFacts
    <3> QED BY <1>1, <1>3, <2>2, <3>1 DEF NewestIsClean
  <2>7. LiveIsOlder' BY <1>3 DEF IInv, LiveIsOlder
  <2>8. OwnIsBrought'
    <3> SUFFICES ASSUME NEW s \in Server, NEW t \in Tool, live[s] # 0,
                        tools'[<<Bridged[s], t>>] # Absent,
                        tools'[<<Bridged[s], t>>].by = live[s]
                 PROVE  t \in brought[s]
      BY <1>3 DEF OwnIsBrought
    <3>1. live[s] < made BY DEF IInv, LiveIsOlder, ConnectFails
    <3>2. live[s] # made BY <1>1, <1>2, <3>1, ClientFacts DEF TypeOK
    <3>3. tools'[<<Bridged[s], t>>] = tools[<<Bridged[s], t>>]
      BY <1>1, <2>2, <3>2, NameFacts
    <3> QED BY <3>3 DEF IInv, OwnIsBrought
  <2> QED BY <1>4, <2>2, <2>3, <2>4, <2>5, <2>6, <2>7, <2>8, TypePartsNext DEF IInv
<1> QED BY <1>5, <1>6 DEF ConnectFails

LEMMA ConnectEndsIInv ==
    ASSUME IInv, ConnectRaises \/ \E h \in Host : ConnectCancelled(h)
    PROVE  IInv'
<1>1. TypeOK BY DEF IInv
<1>2. /\ dial' = "none" /\ heard' = "none" /\ made' = made
      /\ UNCHANGED <<live, brought, registry, current>>
  BY DEF ConnectRaises, ConnectCancelled, DialDone
<1>3. Facts' /\ RegistryTypeOK' /\ ManagerTypeOK' BY <1>2, DialEndsIInv
<1>4. ClientTypeOK' BY <1>1, <1>2 DEF ClientTypeOK, TypeOK
<1>5. SessionTypeOK'
  <2>1. CASE ConnectRaises
    BY <1>1, <2>1, TypeParts DEF ConnectRaises, SessionTypeOK, session
  <2>2. ASSUME NEW h \in Host, ConnectCancelled(h) PROVE SessionTypeOK'
    BY <1>1, <2>2, CancelType DEF ConnectCancelled, User
  <2> QED BY <2>1, <2>2
<1> QED BY <1>3, <1>4, <1>5, TypePartsNext DEF IInv, Facts

LEMMA ConnectIInv ==
    ASSUME IInv, NEW s \in Server, Connect(s)
    PROVE  IInv'
<1>1. TypeOK BY DEF IInv
<1>2. /\ dial' = s /\ made' = made + 1 /\ live[s] = 0 /\ made < MaxClients
      /\ CallOwner(Dialer, made + 1) /\ UNCHANGED <<live, brought, registry>>
  BY DEF Connect
<1>3. made \in Nat /\ made + 1 \in Client
  BY <1>1, <1>2, ClientFacts DEF TypeOK, Client
<1>4. ClientTypeOK' /\ SessionTypeOK'
  BY <1>1, <1>2, <1>3, CallOwnerType DEF User
<1>5. RegistryTypeOK' /\ ManagerTypeOK'
  BY <1>1, <1>2, <1>3, TypeParts
     DEF RegistryTypeOK, ManagerTypeOK, registry, Client
<1>6. RegisteredIsListed' /\ ServedOrUnloaded' /\ OwnIsBrought'
  BY <1>2 DEF IInv, registry, RegisteredIsListed, ServedOrUnloaded, Served, Alone,
              OwnIsBrought
<1>7. Dialling' BY <1>2, <1>3 DEF Dialling
<1>8. NewestIsClean'
  <2>1. tools' = tools
    BY <1>2 DEF registry
  <2> SUFFICES ASSUME NEW n \in Name, tools[n] # Absent, tools[n].by \in Client
               PROVE  tools[n].by <= made' /\ tools[n].by < made'
    BY <2>1 DEF NewestIsClean
  <2> DEFINE x == tools[n].by
  <2>2. x <= made BY DEF IInv, NewestIsClean
  <2>3. x \in Nat BY ClientFacts
  <2> HIDE DEF x
  <2>4. x <= made' /\ x < made' BY <1>2, <1>3, <2>2, <2>3
  <2> QED BY <2>4 DEF x
<1>9. LiveIsOlder'
  <2> SUFFICES ASSUME NEW u \in Server PROVE live[u] <= made' /\ live[u] < made'
    BY <1>2 DEF LiveIsOlder
  <2>1. live[u] \in Nat
    <3>1. live[u] \in Client \cup {0} BY <1>1 DEF TypeOK
    <3>2. 0 \in Nat OBVIOUS
    <3> QED BY <3>1, <3>2, ClientFacts, Zenon
  <2>2. live[u] <= made BY DEF IInv, LiveIsOlder
  <2>3. live[u] < made + 1 /\ live[u] <= made + 1 BY <1>3, <2>1, <2>2
  <2> QED BY <1>2, <2>3
<1> QED BY <1>4, <1>5, <1>6, <1>7, <1>8, <1>9, TypePartsNext DEF IInv

\* What disconnecting s does to the tool t of its plugin id.
LeftBehind(s, t) ==
    \/ tools'[<<Bridged[s], t>>] = Absent
    \/ /\ Managed[s] # Bridged[s]
       /\ tools[<<Bridged[s], t>>].by # live[s] \/ listed[Managed[s]] # {}

\* Disconnecting removes tools only, and leaves the other plugin ids alone.
LEMMA DisconnectRegistry ==
    ASSUME IInv, NEW s \in Server, Disconnect(s)
    PROVE  /\ RegistryTypeOK'
           /\ \A n \in Name : tools'[n] = tools[n] \/ tools'[n] = Absent
           /\ \A u \in Server : Bridged[u] \notin {Bridged[s], Managed[s]} =>
                 /\ \A t \in Tool : tools'[<<Bridged[u], t>>] = tools[<<Bridged[u], t>>]
                 /\ listed'[Bridged[u]] = listed[Bridged[u]]
           /\ RegisteredIsListed'
           /\ \A t \in Tool : LeftBehind(s, t)
<1>1. TypeOK /\ RegisteredIsListed BY DEF IInv
<1>2. Bridged[s] \in Plugin /\ Managed[s] \in Plugin BY <1>1, NameFacts
<1>3. CASE listed[Managed[s]] # {}
  <2> DEFINE p == Managed[s]
  <2>1. Unload(p) BY <1>3 DEF Disconnect
  <2>2. RegistryTypeOK' BY <1>1, <1>2, <2>1, UnloadType, TypeParts
  <2>3. \A n \in Name : /\ tools'[n] = tools[n] \/ tools'[n] = Absent
                        /\ n[1] # p => tools'[n] = tools[n]
    BY <2>1 DEF Unload, Unregister
  <2>4. \A q \in Plugin : listed'[q] = IF q = p THEN {} ELSE listed[q]
    BY <1>1, <2>1 DEF Unload, TypeOK, RegistryTypeOK
  <2>5. \A t \in Tool : tools'[<<p, t>>] = Absent
    <3> TAKE t \in Tool
    <3>1. <<p, t>> \in Name BY <1>1, <1>2, NameFacts
    <3>2. CASE t \in listed[p] BY <2>1, <3>1, <3>2 DEF Unload, Unregister
    <3>3. CASE t \notin listed[p]
      BY <1>1, <1>2, <2>3, <3>1, <3>3, UnlistedIsAbsent
    <3> QED BY <3>2, <3>3
  <2>6. RegisteredIsListed'
    <3> SUFFICES ASSUME NEW n \in Name, tools'[n] # Absent
                 PROVE  n[2] \in listed'[n[1]] /\ tools'[n].version = lock'[n[1]]
      BY DEF RegisteredIsListed
    <3>1. n[1] \in Plugin /\ n[2] \in Tool /\ n = <<n[1], n[2]>> BY <1>1, NameFacts
    <3>2. n[1] # p BY <2>5, <3>1
    <3>3. lock'[n[1]] = lock[n[1]]
      BY <1>1, <2>1, <3>1, <3>2 DEF Unload, TypeOK, RegistryTypeOK
    <3> QED BY <1>1, <2>3, <2>4, <3>1, <3>2, <3>3 DEF RegisteredIsListed
  <2>7. \A u \in Server : Bridged[u] \notin {Bridged[s], Managed[s]} =>
           /\ \A t \in Tool : tools'[<<Bridged[u], t>>] = tools[<<Bridged[u], t>>]
           /\ listed'[Bridged[u]] = listed[Bridged[u]]
    BY <1>1, <2>3, <2>4, NameFacts
  <2>8. \A t \in Tool : LeftBehind(s, t) BY <1>3, <2>5 DEF LeftBehind
  <2> QED BY <2>2, <2>3, <2>6, <2>7, <2>8
<1>4. CASE listed[Managed[s]] = {}
  <2>1. Unregister(Bridged[s], brought[s]) /\ UNCHANGED <<listed, lock>>
    BY <1>4 DEF Disconnect
  <2>2. \A n \in Name : tools'[n] = IF n[1] = Bridged[s] /\ n[2] \in brought[s]
                                    THEN Absent ELSE tools[n]
    BY <2>1 DEF Unregister
  <2>3. RegistryTypeOK'
    BY <1>1, <2>1, UnregisterType, TypeParts DEF RegistryTypeOK
  <2>4. RegisteredIsListed' BY <1>1, <2>1, <2>2 DEF RegisteredIsListed
  <2>5. \A t \in Tool : LeftBehind(s, t)
    <3> SUFFICES ASSUME NEW t \in Tool, tools'[<<Bridged[s], t>>] # Absent
                 PROVE  /\ Managed[s] # Bridged[s]
                        /\ tools[<<Bridged[s], t>>].by # live[s]
      BY DEF LeftBehind
    <3>1. <<Bridged[s], t>> \in Name BY <1>1, <1>2, NameFacts
    <3>2. t \notin brought[s] /\ tools[<<Bridged[s], t>>] # Absent
      BY <2>2, <3>1
    <3>3. listed[Bridged[s]] # {}
      BY <1>1, <1>2, <3>2, UnlistedIsAbsent
    <3>4. live[s] # 0 BY DEF Disconnect
    <3> QED BY <1>4, <3>2, <3>3, <3>4 DEF IInv, OwnIsBrought
  <2>6. \A u \in Server : Bridged[u] \notin {Bridged[s], Managed[s]} =>
           /\ \A t \in Tool : tools'[<<Bridged[u], t>>] = tools[<<Bridged[u], t>>]
           /\ listed'[Bridged[u]] = listed[Bridged[u]]
    BY <1>1, <2>1, <2>2, NameFacts
  <2> QED BY <2>2, <2>3, <2>4, <2>5, <2>6
<1> QED BY <1>3, <1>4

LEMMA DisconnectIInv ==
    ASSUME IInv, NEW s \in Server, Disconnect(s)
    PROVE  IInv'
<1>1. TypeOK BY DEF IInv
<1>2. live[s] \in Client BY <1>1 DEF Disconnect, TypeOK
<1>3. /\ live' = [live EXCEPT ![s] = 0] /\ brought' = [brought EXCEPT ![s] = {}]
      /\ dial = "none" /\ CloseClient(live[s]) /\ UNCHANGED <<dial, made, heard>>
  BY DEF Disconnect
<1>4. /\ RegistryTypeOK'
      /\ \A n \in Name : tools'[n] = tools[n] \/ tools'[n] = Absent
      /\ \A u \in Server : Bridged[u] \notin {Bridged[s], Managed[s]} =>
            /\ \A t \in Tool : tools'[<<Bridged[u], t>>] = tools[<<Bridged[u], t>>]
            /\ listed'[Bridged[u]] = listed[Bridged[u]]
      /\ RegisteredIsListed'
  BY DisconnectRegistry
<1>5. /\ live'[s] = 0
      /\ \A u \in Server \ {s} : live'[u] = live[u] /\ brought'[u] = brought[u]
  BY <1>1, <1>3 DEF TypeOK
<1>6. ManagerTypeOK' BY <1>1, <1>3, TypeParts DEF ManagerTypeOK
<1>7. ClientTypeOK' /\ SessionTypeOK'
  BY <1>1, <1>2, <1>3, CloseClientType, TypeParts DEF ClientTypeOK
<1>8. ServedOrUnloaded'
  <2> SUFFICES ASSUME NEW u \in Server, live'[u] # 0, Alone(u)
               PROVE  Served(u)' \/ listed'[Bridged[u]] = {}
    BY AloneStays DEF ServedOrUnloaded
  <2>1. u # s BY <1>5
  <2>2. Bridged[u] \notin {Bridged[s], Managed[s]} BY <2>1 DEF Alone
  <2> QED BY <1>1, <1>4, <1>5, <2>1, <2>2, StillServed DEF IInv
<1>9. Dialling' BY <1>3 DEF Dialling
<1>10. NewestIsClean' BY <1>3, <1>4 DEF IInv, NewestIsClean
<1>11. LiveIsOlder'
  <2>1. made \in Nat /\ 0 <= made BY <1>1, ClientFacts DEF TypeOK
  <2> QED BY <1>3, <1>5, <2>1 DEF IInv, LiveIsOlder
<1>12. OwnIsBrought' BY <1>1, <1>4, <1>5, NameFacts DEF IInv, OwnIsBrought
<1> QED BY <1>4, <1>6, <1>7, <1>8, <1>9, <1>10, <1>11, <1>12, TypePartsNext DEF IInv

-----------------------------------------------------------------------------
(* Every step.                                                              *)

\* What only uses the clients leaves the registries and the connections alone.
LEMMA CallIInv ==
    ASSUME IInv, NEW k \in Caller, NEW n \in Name, CallTool(k, n)
    PROVE  IInv'
<1>1. tools[n].by \in Client /\ CallOwner(k, tools[n].by) BY DEF CallTool
<1>2. ClientTypeOK' /\ SessionTypeOK'
  BY <1>1, CallOwnerType DEF IInv, User
<1>3. Facts' /\ RegistryTypeOK' /\ ManagerTypeOK'
  BY QuietIInv DEF CallTool
<1> QED BY <1>2, <1>3, TypePartsNext DEF IInv, Facts

LEMMA CallCancelledIInv ==
    ASSUME IInv, NEW k \in Caller, NEW h \in Host, CallCancelled(k, h)
    PROVE  IInv'
<1>1. SessionTypeOK' BY CancelType DEF CallCancelled, User, IInv
<1>2. Facts' /\ RegistryTypeOK' /\ ManagerTypeOK'
  BY QuietIInv DEF CallCancelled, hostFrame
<1>3. ClientTypeOK'
  BY DEF CallCancelled, hostFrame, ClientTypeOK, IInv, TypeOK
<1> QED BY <1>1, <1>2, <1>3, TypePartsNext DEF IInv, Facts

LEMMA PluginIInv ==
    ASSUME IInv, PluginStep
    PROVE  IInv'
<1>1. UNCHANGED <<live, brought, dial, made, heard, current, session>>
  BY DEF PluginStep, manager
<1>2. ASSUME NEW m \in Module, LoadModule(m)
      PROVE  Facts' /\ RegistryTypeOK' /\ ManagerTypeOK'
  BY <1>1, <1>2, LoadModuleIInv
<1>3. ASSUME NEW p \in Plugin, Unload(p)
      PROVE  Facts' /\ RegistryTypeOK' /\ ManagerTypeOK'
  BY <1>1, <1>3, UnloadIInv
<1>4. Facts' /\ RegistryTypeOK' /\ ManagerTypeOK'
  BY <1>2, <1>3 DEF PluginStep
<1>5. ClientTypeOK' /\ SessionTypeOK'
  BY <1>1, TypeParts DEF IInv, ClientTypeOK, SessionTypeOK, session
<1> QED BY <1>4, <1>5, TypePartsNext DEF IInv, Facts

LEMMA StepIInv == IInv /\ [Next]_vars => IInv'
<1> SUFFICES ASSUME IInv, [Next]_vars PROVE IInv' OBVIOUS
<1>1. ASSUME NEW s \in Server, Connect(s) PROVE IInv'
  BY <1>1, ConnectIInv
<1>2. ASSUME NEW s \in Server, Disconnect(s) PROVE IInv'
  BY <1>2, DisconnectIInv
<1>3. CASE ConnectSucceeds BY <1>3, ConnectSucceedsIInv
<1>4. CASE ConnectFails BY <1>4, ConnectFailsIInv
<1>5. CASE ConnectRaises \/ \E h \in Host : ConnectCancelled(h)
  BY <1>5, ConnectEndsIInv
<1>6. ASSUME NEW k \in Caller, NEW n \in Name, CallTool(k, n) PROVE IInv'
  BY <1>6, CallIInv
<1>7. ASSUME NEW k \in Caller, NEW h \in Host, CallCancelled(k, h) PROVE IInv'
  BY <1>7, CallCancelledIInv
<1>8. ASSUME NEW h \in Host,
             \/ Serve(h) \/ Answer(h) \/ Leave(h)
             \/ ServerDies(h) \/ SessionBreaks(h) \/ GiveUp(h)
      PROVE  IInv'
  BY <1>8, HostStepIInv DEF HostStep
<1>9. CASE PluginStep BY <1>9, PluginIInv
<1>10. CASE UNCHANGED vars
  <2>1. UNCHANGED <<registry, live, brought, dial, made, heard, current, session>>
    BY <1>10 DEF vars, manager
  <2>2. Facts' /\ RegistryTypeOK' /\ ManagerTypeOK' BY <2>1, QuietIInv
  <2>3. ClientTypeOK' /\ SessionTypeOK'
    BY <2>1, TypeParts DEF IInv, ClientTypeOK, SessionTypeOK, session
  <2> QED BY <2>2, <2>3, TypePartsNext DEF IInv, Facts
<1> QED BY <1>1, <1>2, <1>3, <1>4, <1>5, <1>6, <1>7, <1>8, <1>9, <1>10 DEF Next

LEMMA AlwaysIInv == Spec => []IInv
BY InitIInv, StepIInv, PTL DEF Spec

\* Every variable of the manager, the clients, their hosts and the registries
\* keeps its type.
THEOREM TypeCorrect == Spec => []TypeOK
<1>1. IInv => TypeOK BY DEF IInv
<1> QED BY <1>1, AlwaysIInv, PTL

\* Whatever connects, fails half-way, is cancelled, loads and unloads: a tool that
\* can be called is listed under its plugin id at that id's version, and a
\* connected server that has its plugin id to itself has all its tools on the
\* client of its connection.  Nothing is assumed of the ids.
THEOREM RegistriesAgree == Spec => []ToolsConsistent
<1>1. IInv => ToolsConsistent BY DEF IInv, ToolsConsistent
<1> QED BY <1>1, AlwaysIInv, PTL

\* disconnect_server leaves no tool of the connection in the registry.
THEOREM DisconnectsClean == Spec => DisconnectRemoves
<1>1. ASSUME IInv, [Next]_vars,
             NEW s \in Server, NEW t \in Tool, live[s] # 0, live'[s] = 0
      PROVE  LeftBehind(s, t)
  <2>1. TypeOK BY <1>1 DEF IInv
  <2>2. live' # live BY <1>1
  <2>3. PICK u \in Server : Disconnect(u) \/ (ConnectSucceeds /\ u = dial)
    BY <1>1, <2>1, <2>2
       DEF Next, Connect, ConnectSucceeds, ConnectFails, ConnectRaises, ConnectCancelled,
           CallTool, CallCancelled, Serve, Answer, Leave, ServerDies, SessionBreaks,
           GiveUp, PluginStep, hostFrame, vars, manager, TypeOK
  <2>4. CASE ConnectSucceeds
    <3>1. live' = [live EXCEPT ![dial] = made] BY <2>4 DEF ConnectSucceeds
    <3>2. made # 0
      BY <1>1, <2>4, ClientFacts DEF ConnectSucceeds, IInv, Dialling
    <3> QED BY <1>1, <2>1, <3>1, <3>2 DEF TypeOK
  <2>5. CASE Disconnect(u)
    <3>1. live' = [live EXCEPT ![u] = 0] BY <2>5 DEF Disconnect
    <3>2. u = s BY <1>1, <2>1, <3>1 DEF TypeOK
    <3> QED BY <1>1, <2>5, <3>2, DisconnectRegistry
  <2> QED BY <2>3, <2>4, <2>5
<1>2. IInv /\ [Next]_vars =>
        [\A s \in Server, t \in Tool :
            live[s] # 0 /\ live'[s] = 0 =>
                LET n == <<Bridged[s], t>>
                IN \/ tools'[n] = Absent
                   \/ /\ Managed[s] # Bridged[s]
                      /\ tools[n].by # live[s] \/ listed[Managed[s]] # {}]_vars
  BY <1>1 DEF LeftBehind
<1> QED BY <1>2, AlwaysIInv, PTL DEF Spec, DisconnectRemoves

-----------------------------------------------------------------------------
(* Why a session ends.                                                      *)

Over(h) == state[h] \in {"ended", "stopped"}

\* What stands behind the end of a session, from the moment it is decided: the
\* sentinel comes from a close(), a request that is gone while the server has it
\* was cut, and a host leaves over one of the two or over a dead server.
Explained ==
    \A h \in Host :
        /\ Queued(Close, h) => closing[h] \/ Over(h)
        /\ serving[h] = Gone => cut[h] \/ Over(h)
        /\ state[h] = "leaving" => ~alive[h] \/ closing[h] \/ cut[h]

\* A request is no sentinel, and it comes behind the others.
LEMMA EnqueueCloses ==
    ASSUME TypeOK, NEW u \in User, NEW h \in Host, Enqueue(u, h), NEW g \in Host
    PROVE  Queued(Close, g)' => Queued(Close, g)
<1>1. queue[g] \in Seq(Item) /\ queue[h] \in Seq(Item) BY DEF TypeOK, Item
<1>2. u # Close BY McpAssumption
<1>3. CASE g # h BY <1>3 DEF Enqueue, TypeOK, Queued
<1>4. CASE g = h
  <2>1. queue'[h] = Append(queue[h], u) BY DEF Enqueue, TypeOK
  <2>2. /\ DOMAIN queue[h] = 1 .. Len(queue[h]) /\ Len(queue[h]) \in Nat
        /\ DOMAIN Append(queue[h], u) = 1 .. Len(queue[h]) + 1
        /\ \A i \in 1 .. Len(queue[h]) : Append(queue[h], u)[i] = queue[h][i]
        /\ Append(queue[h], u)[Len(queue[h]) + 1] = u
    BY <1>1
  <2> QED BY <1>2, <1>4, <2>1, <2>2 DEF Queued
<1> QED BY <1>3, <1>4

LEMMA CallOwnerExplained ==
    ASSUME TypeOK, Explained, NEW u \in User, NEW c \in Client, CallOwner(u, c)
    PROVE  Explained'
<1>1. CASE /\ Connected(c) /\ Enqueue(u, current[c])
           /\ UNCHANGED <<current, state, serving, alive, closing, cut, heard>>
  <2>1. current[c] \in Host BY <1>1 DEF Connected, TypeOK
  <2> QED BY <1>1, <2>1, EnqueueCloses DEF Explained, Over
<1>2. ASSUME NEW h \in Host, IsNext(h),
             state' = [state EXCEPT ![h] = "serving"],
             alive' = [alive EXCEPT ![h] = TRUE],
             Enqueue(u, h),
             UNCHANGED <<serving, closing, cut, heard>>
      PROVE  Explained'
  <2>1. state[h] = "new" /\ state'[h] = "serving" BY <1>2 DEF IsNext, TypeOK
  <2>2. \A g \in Host : g # h => state'[g] = state[g] /\ alive'[g] = alive[g]
    BY <1>2 DEF TypeOK
  <2>3. \A g \in Host : Over(g) => Over(g)' BY <2>1, <2>2 DEF Over
  <2>4. ~Over(h) BY <2>1 DEF Over
  <2> QED BY <1>2, <2>1, <2>2, <2>3, <2>4, EnqueueCloses DEF Explained
<1>3. CASE UNCHANGED session BY <1>3 DEF session, Explained, Over, Queued
<1> QED BY <1>1, <1>2, <1>3 DEF CallOwner

LEMMA CloseClientExplained ==
    ASSUME TypeOK, Explained, NEW c \in Client, CloseClient(c)
    PROVE  Explained'
<1> DEFINE h == current[c]
<1>1. UNCHANGED <<state, serving, alive, cut>> BY DEF CloseClient
<1>2. CASE /\ h # 0 /\ closing' = [closing EXCEPT ![h] = TRUE]
           /\ queue' = [queue EXCEPT ![h] = Append(@, Close)]
  <2>1. h \in Host BY <1>2 DEF TypeOK
  <2>2. closing'[h] /\ \A g \in Host : g # h => closing'[g] = closing[g] /\ queue'[g] = queue[g]
    BY <1>2, <2>1 DEF TypeOK
  <2> QED BY <1>1, <2>1, <2>2 DEF Explained, Over, Queued
<1>3. CASE UNCHANGED <<queue, closing>> BY <1>1, <1>3 DEF Explained, Over, Queued
<1> QED BY <1>2, <1>3 DEF CloseClient

LEMMA CancelExplained ==
    ASSUME TypeOK, Explained, NEW u \in User, NEW h \in Host, Cancel(u, h)
    PROVE  Explained'
<1>1. UNCHANGED <<state, alive, closing>> BY DEF Cancel
<1>2. /\ queue' = [queue EXCEPT ![h] = [i \in DOMAIN @ |-> IF @[i] = u THEN Gone ELSE @[i]]]
      /\ serving' = [serving EXCEPT ![h] = IF @ = u THEN Gone ELSE @]
  BY DEF Cancel
<1>3. /\ \A g \in Host : g # h => /\ queue'[g] = queue[g] /\ serving'[g] = serving[g]
                                  /\ cut'[g] = cut[g]
      /\ cut'[h] = (cut[h] \/ serving[h] = u)
      /\ serving'[h] = Gone => serving[h] = u \/ serving[h] = Gone
  BY <1>2 DEF Cancel, TypeOK
<1>4. Queued(Close, h)' => Queued(Close, h)
  <2>1. queue'[h] = [i \in DOMAIN queue[h] |-> IF queue[h][i] = u THEN Gone ELSE queue[h][i]]
    BY <1>2 DEF TypeOK
  <2>2. \A i \in DOMAIN queue'[h] : i \in DOMAIN queue[h] /\ queue'[h][i] \in {Gone, queue[h][i]}
    BY <2>1
  <2> QED BY <2>2 DEF Queued, Gone, Close
<1>5. \A g \in Host : g # h => Queued(Close, g)' = Queued(Close, g) BY <1>3 DEF Queued
<1>6. \A g \in Host : Over(g)' = Over(g) BY <1>1 DEF Over
<1> QED BY <1>1, <1>3, <1>4, <1>5, <1>6 DEF Explained

LEMMA HostStepExplained ==
    ASSUME TypeOK, Explained, NEW h \in Host,
           \/ Serve(h) \/ Answer(h) \/ Leave(h)
           \/ ServerDies(h) \/ SessionBreaks(h) \/ GiveUp(h)
    PROVE  Explained'
<1>1. ASSUME NEW g \in Host, g # h
      PROVE  /\ state'[g] = state[g] /\ queue'[g] = queue[g] /\ serving'[g] = serving[g]
             /\ alive'[g] = alive[g] /\ closing'[g] = closing[g] /\ cut'[g] = cut[g]
  BY <1>1 DEF Serve, Answer, Leave, ServerDies, SessionBreaks, GiveUp, TypeOK
<1>2. /\ Queued(Close, h)' => closing'[h] \/ Over(h)'
      /\ serving'[h] = Gone => cut'[h] \/ Over(h)'
      /\ state'[h] = "leaving" => ~alive'[h] \/ closing'[h] \/ cut'[h]
  <2>1. CASE Serve(h)
    <3>1. queue[h] \in Seq(Item) /\ queue[h] # <<>> /\ queue'[h] = Tail(queue[h])
      BY <2>1 DEF Serve, TypeOK, Item
    <3>2. Queued(Close, h)' => Queued(Close, h)
      <4>1. /\ DOMAIN queue[h] = 1 .. Len(queue[h]) /\ Len(queue[h]) \in Nat
            /\ DOMAIN Tail(queue[h]) = 1 .. Len(queue[h]) - 1
            /\ \A i \in 1 .. Len(queue[h]) - 1 : Tail(queue[h])[i] = queue[h][i + 1]
        BY <3>1
      <4> QED BY <3>1, <4>1 DEF Queued
    <3>3. Head(queue[h]) = Close => Queued(Close, h)
      BY <3>1 DEF Queued
    <3>4. ~Over(h) /\ UNCHANGED <<alive, closing, cut>> BY <2>1 DEF Serve, Over
    <3>5. CASE Head(queue[h]) = Close /\ state'[h] = "leaving" /\ serving' = serving
      BY <3>2, <3>3, <3>4, <3>5 DEF Explained
    <3>6. CASE state' = state /\ serving' = serving
      BY <3>2, <3>4, <3>6 DEF Explained
    <3>7. CASE Head(queue[h]) \in User /\ serving'[h] = Head(queue[h]) /\ state' = state
      <4>1. serving'[h] # Gone BY <3>7, McpAssumption
      <4> QED BY <3>2, <3>4, <3>7, <4>1 DEF Explained
    <3> QED BY <2>1, <3>5, <3>6, <3>7 DEF Serve, TypeOK
  <2>2. CASE Answer(h)
    <3>1. /\ serving'[h] = "none" /\ ~Over(h) /\ UNCHANGED <<queue, alive, closing, cut>>
          /\ serving[h] # Gone => state' = state
      BY <2>2 DEF Answer, TypeOK, Over
    <3> QED BY <3>1 DEF Explained, Queued, Gone, Over
  <2>3. CASE Leave(h) \/ GiveUp(h)
    <3>1. Over(h)' BY <2>3 DEF Leave, GiveUp, Over, TypeOK
    <3> QED BY <3>1 DEF Over
  <2>4. CASE ServerDies(h)
    <3>1. ~alive'[h] /\ UNCHANGED <<state, queue, serving, closing, cut>>
      BY <2>4 DEF ServerDies, TypeOK
    <3> QED BY <3>1 DEF Explained, Queued, Over
  <2>5. CASE SessionBreaks(h)
    <3>1. /\ ~alive[h] /\ ~Over(h) /\ serving'[h] = "none"
          /\ UNCHANGED <<queue, alive, closing, cut>>
      BY <2>5 DEF SessionBreaks, TypeOK, Over
    <3> QED BY <3>1 DEF Explained, Queued, Gone
  <2> QED BY <2>1, <2>2, <2>3, <2>4, <2>5
<1> QED BY <1>1, <1>2 DEF Explained, Over, Queued

LEMMA StepExplained == TypeOK /\ Dialling /\ Explained /\ [Next]_vars => Explained'
<1> SUFFICES ASSUME TypeOK, Dialling, Explained, [Next]_vars PROVE Explained' OBVIOUS
<1>1. CASE UNCHANGED session BY <1>1 DEF session, Explained, Over, Queued
<1>2. ASSUME NEW s \in Server, Connect(s) PROVE Explained'
  <2>1. made + 1 \in Client BY <1>2, ClientFacts DEF Connect, TypeOK, Client
  <2> QED BY <1>2, <2>1, CallOwnerExplained DEF Connect, User
<1>3. ASSUME NEW s \in Server, Disconnect(s) PROVE Explained'
  <2>1. live[s] \in Client BY <1>3 DEF Disconnect, TypeOK
  <2> QED BY <1>3, <2>1, CloseClientExplained DEF Disconnect
<1>4. CASE ConnectFails
  <2>1. made \in Client BY <1>4 DEF ConnectFails, Dialling, Client, TypeOK
  <2> QED BY <1>4, <2>1, CloseClientExplained DEF ConnectFails
<1>5. ASSUME NEW h \in Host, ConnectCancelled(h) PROVE Explained'
  BY <1>5, CancelExplained DEF ConnectCancelled, User
<1>6. ASSUME NEW k \in Caller, NEW n \in Name, CallTool(k, n) PROVE Explained'
  BY <1>6, CallOwnerExplained DEF CallTool, User
<1>7. ASSUME NEW k \in Caller, NEW h \in Host, CallCancelled(k, h) PROVE Explained'
  BY <1>7, CancelExplained DEF CallCancelled, User
<1>8. CASE ConnectSucceeds \/ ConnectRaises \/ PluginStep \/ UNCHANGED vars
  BY <1>1, <1>8 DEF ConnectSucceeds, ConnectRaises, PluginStep, vars
<1> QED BY <1>2, <1>3, <1>4, <1>5, <1>6, <1>7, <1>8, HostStepExplained DEF Next

\* A host that answers its waiting requests with an error does so because its
\* server died, its client was closed, or a request was cancelled while the
\* server had it: cancelling a request that waits ends nobody else's session,
\* whatever is queued, cancelled, closed and reconnected meanwhile.
THEOREM LossHasCause == Spec => LossExplained
<1>1. Init => Explained
  BY DEF Init, Explained, Queued, Gone
<1>2. IInv => TypeOK /\ Dialling BY DEF IInv
<1>3. Explained =>
        [\A h \in Host, k \in Caller :
            Queued(k, h) /\ Leave(h) => ~alive[h] \/ closing[h] \/ cut[h]]_vars
  BY DEF Explained, Leave
<1> QED BY <1>1, <1>2, <1>3, AlwaysIInv, StepExplained, PTL DEF Spec, LossExplained

=============================================================================
