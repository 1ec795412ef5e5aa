-------------------------------- MODULE Mcp ---------------------------------
(***************************************************************************)
(* MCP servers: the manager (aegisx_agent/mcp/manager.py), which connects a  *)
(* server, registers its tools as plugins and disconnects it; the client     *)
(* (aegisx_agent/mcp/client.py), through which calls reach a server; and the  *)
(* host task of each session, which runs on an event loop of its own thread. *)
(*                                                                           *)
(* A client is an MCPToolClient; connect_server makes a new one each time.   *)
(* A host is a _Host with its thread and its server process; a client starts *)
(* another one when it is used and its session has ended.  Manager           *)
(* operations are issued one at a time (by commands, or by connect_all's     *)
(* loop); calls of tools, from concurrent coroutines, interleave with them.  *)
(* An operation of the client appends its request to the queue of the host   *)
(* in the same step: both happen before the host can take anything newer.    *)
(***************************************************************************)
EXTENDS Plugins, Sequences

CONSTANTS
    Server,      \* server ids
    Catalogue,   \* [Server -> the sets of tools it may advertise]
    Bridged,     \* [Server -> Plugin]: mcp_<sanitised id>, used by the bridge;
                 \* lower case and collapsed, so that servers may share it
    Managed,     \* [Server -> Plugin]: mcp_<id>, used by the manager
    Caller,      \* coroutines that call tools
    Dialer,      \* the one connect_server under way
    MaxClients,  \* bound: connect_server calls
    Beside,      \* bound: [Server -> sets of other servers there may be as it connects]
    MaxHosts,    \* bound: handshakes that succeed
    MaxQueue     \* bound: requests that wait at one host, cancelled ones included

Client == 1 .. MaxClients
Host == 1 .. MaxHosts
User == Caller \cup {Dialer}

\* A request whose future is done, and the sentinel _CLOSE.
Gone == "gone"
Close == "close"

ASSUME McpAssumption ==
    /\ Bridged \in [Server -> Plugin] /\ Managed \in [Server -> Plugin]
    /\ Catalogue \in [Server -> SUBSET ((SUBSET Tool) \ {{}})]
    /\ Beside \in [Server -> SUBSET SUBSET Server]
    /\ {MaxClients, MaxHosts, MaxQueue} \subseteq Nat
    /\ Provider = Client \cup Module /\ Client \cap Module = {}
    /\ Dialer \notin Caller /\ User \cap {Gone, Close} = {}

VARIABLES
    live,      \* [Server -> client in MCPManager._clients, or 0]
    brought,   \* [Server -> tool names in MCPManager._definitions]
    dial,      \* the server connect_server is awaiting, or "none"
    made,      \* clients made so far; the newest is that of dial
    current,   \* [Client -> MCPToolClient._host, or 0]
    state,     \* [Host -> "new", "serving", "leaving", "ended" or "stopped"]
    queue,     \* [Host -> _Host.commands]
    serving,   \* [Host -> whose request is at the server, Gone, or "none"]
    alive,     \* [Host -> its server process answers the host]
    closing,   \* [Host -> client.close() awaits it]
    cut,       \* [Host -> a request was cancelled while the server had it]
    heard      \* what list_tools of the connection under way came to, or "none"

manager == <<live, brought, dial, made, heard>>
session == <<state, queue, serving, alive, closing, cut>>
vars == <<registry, manager, current, session>>

\* "error" is an exception of the server or the SDK, "lost" an MCPClientError.
Outcome == {"result", "error", "lost"}

TypeOK ==
    /\ RegistryTypeOK
    /\ live \in [Server -> Client \cup {0}]
    /\ brought \in [Server -> SUBSET Tool]
    /\ dial \in Server \cup {"none"}
    /\ made \in 0 .. MaxClients
    /\ heard \in Outcome \cup {"none"}
    /\ current \in [Client -> Host \cup {0}]
    /\ state \in [Host -> {"new", "serving", "leaving", "ended", "stopped"}]
    /\ queue \in [Host -> Seq(User \cup {Gone, Close})]
    /\ serving \in [Host -> User \cup {Gone, "none"}]
    /\ alive \in [Host -> BOOLEAN]
    /\ closing \in [Host -> BOOLEAN]
    /\ cut \in [Host -> BOOLEAN]

Init ==
    /\ RegistryInit
    /\ live = [s \in Server |-> 0] /\ brought = [s \in Server |-> {}]
    /\ dial = "none" /\ made = 0 /\ heard = "none"
    /\ current = [c \in Client |-> 0]
    /\ state = [h \in Host |-> "new"]
    /\ queue = [h \in Host |-> <<>>] /\ serving = [h \in Host |-> "none"]
    /\ alive = [h \in Host |-> FALSE] /\ closing = [h \in Host |-> FALSE]
    /\ cut = [h \in Host |-> FALSE]

-----------------------------------------------------------------------------
(* The client, on the caller's thread.                                      *)

Open(h) == state[h] \in {"serving", "leaving"}

Queued(u, h) == \E i \in DOMAIN queue[h] : queue[h][i] = u

\* u awaits its future on h.
Awaits(u, h) == serving[h] = u \/ Queued(u, h)

Idle(u) == \A h \in Host : ~Awaits(u, h)

\* The requests of users end: a call returns or raises, connect_server goes on.
End(users, how) == heard' = IF Dialer \in users THEN how ELSE heard

\* MCPToolClient.connected.
Connected(c) == current[c] # 0 /\ Open(current[c])

\* _enqueue: h is not closed, and answers later.
Enqueue(u, h) ==
    /\ Len(queue[h]) < MaxQueue
    /\ queue' = [queue EXCEPT ![h] = Append(@, u)]

\* The next host: they are numbered in the order they start.
IsNext(h) == state[h] = "new" /\ \A g \in Host : g < h => state[g] # "new"

\* _call_owner(u's operation) of client c: on the session there is, or on one
\* _ensure_host starts, unless its handshake fails.
CallOwner(u, c) ==
    \/ /\ Connected(c)
       /\ Enqueue(u, current[c])
       /\ UNCHANGED <<current, state, serving, alive, closing, cut, heard>>
    \/ /\ ~Connected(c)
       /\ \E h \in Host :
             /\ IsNext(h)
             /\ state' = [state EXCEPT ![h] = "serving"]
             /\ alive' = [alive EXCEPT ![h] = TRUE]
             /\ current' = [current EXCEPT ![c] = h]
             /\ Enqueue(u, h)
       /\ UNCHANGED <<serving, closing, cut, heard>>
    \/ /\ ~Connected(c)
       /\ current' = [current EXCEPT ![c] = 0]
       /\ End({u}, "lost")
       /\ UNCHANGED session

\* close(): the client lets go of its host at once; the sentinel goes behind
\* the requests that wait.
CloseClient(c) ==
    LET h == current[c]
    IN /\ current' = [current EXCEPT ![c] = 0]
       /\ IF h # 0 /\ Open(h)
          THEN /\ queue' = [queue EXCEPT ![h] = Append(@, Close)]
               /\ closing' = [closing EXCEPT ![h] = TRUE]
          ELSE UNCHANGED <<queue, closing>>
       /\ UNCHANGED <<state, serving, alive, cut>>

\* The coroutine of u is cancelled, and with it the future it awaits on h.
Cancel(u, h) ==
    /\ Awaits(u, h)
    /\ queue' = [queue EXCEPT ![h] = [i \in DOMAIN @ |-> IF @[i] = u THEN Gone ELSE @[i]]]
    /\ serving' = [serving EXCEPT ![h] = IF @ = u THEN Gone ELSE @]
    /\ cut' = [cut EXCEPT ![h] = @ \/ serving[h] = u]
    /\ UNCHANGED <<state, alive, closing>>

-----------------------------------------------------------------------------
(* The host task, on the owner thread.                                      *)

hostFrame == <<registry, live, brought, dial, made, current>>

\* Mutant: the future of a request is not looked at before it is served.
ServeCancelled(h) ==
    /\ state[h] = "serving" /\ serving[h] = "none" /\ queue[h] # <<>>
    /\ queue' = [queue EXCEPT ![h] = Tail(@)]
    /\ IF Head(queue[h]) = Close
       THEN state' = [state EXCEPT ![h] = "leaving"] /\ UNCHANGED serving
       ELSE serving' = [serving EXCEPT ![h] = Head(queue[h])] /\ UNCHANGED state
    /\ UNCHANGED <<alive, closing, cut, heard, hostFrame>>

\* _serve takes the next item: to leave, to skip, or to send to the server.
Serve(h) ==
    /\ state[h] = "serving" /\ serving[h] = "none" /\ queue[h] # <<>>
    /\ queue' = [queue EXCEPT ![h] = Tail(@)]
    /\ \/ /\ Head(queue[h]) = Close
          /\ state' = [state EXCEPT ![h] = "leaving"]
          /\ UNCHANGED serving
       \/ /\ Head(queue[h]) = Gone
          /\ UNCHANGED <<state, serving>>
       \/ /\ Head(queue[h]) \in User
          /\ serving' = [serving EXCEPT ![h] = Head(queue[h])]
          /\ UNCHANGED state
    /\ UNCHANGED <<alive, closing, cut, heard, hostFrame>>

\* The session's call returns or raises.  Setting the future of a request that
\* was cancelled meanwhile raises in turn, out of _serve.
Answer(h) ==
    /\ state[h] = "serving" /\ serving[h] # "none"
    /\ serving' = [serving EXCEPT ![h] = "none"]
    /\ state' = IF serving[h] = Gone THEN [state EXCEPT ![h] = "leaving"] ELSE state
    /\ \E how \in IF alive[h] THEN {"result", "error"} ELSE {"error"} :
          End({serving[h]}, how)
    /\ UNCHANGED <<queue, alive, closing, cut, hostFrame>>

\* The server process dies; the SDK may cancel the host task over it.
ServerDies(h) ==
    /\ Open(h) /\ alive[h]
    /\ alive' = [alive EXCEPT ![h] = FALSE]
    /\ UNCHANGED <<state, queue, serving, closing, cut, heard, hostFrame>>

SessionBreaks(h) ==
    /\ state[h] = "serving" /\ ~alive[h]
    /\ state' = [state EXCEPT ![h] = "leaving"]
    /\ serving' = [serving EXCEPT ![h] = "none"]
    /\ End({serving[h]}, "error")
    /\ UNCHANGED <<queue, alive, closing, cut, hostFrame>>

\* Mutant: the requests that wait keep waiting.
LeaveQuietly(h) ==
    /\ state[h] = "leaving"
    /\ state' = [state EXCEPT ![h] = "ended"]
    /\ alive' = [alive EXCEPT ![h] = FALSE]
    /\ closing' = [closing EXCEPT ![h] = FALSE]
    /\ cut' = [cut EXCEPT ![h] = FALSE]
    /\ UNCHANGED <<queue, serving, heard, hostFrame>>

\* The contexts are left, the process is gone, and every request that waits is
\* answered with an error; close(), if any, returns.
Leave(h) ==
    /\ state[h] = "leaving"
    /\ state' = [state EXCEPT ![h] = "ended"]
    /\ queue' = [queue EXCEPT ![h] = <<>>]
    /\ End({u \in User : Queued(u, h)}, "lost")
    /\ alive' = [alive EXCEPT ![h] = FALSE]
    /\ closing' = [closing EXCEPT ![h] = FALSE]
    /\ cut' = [cut EXCEPT ![h] = FALSE]
    /\ UNCHANGED <<serving, hostFrame>>

\* close() gives up after 10 seconds and stops the loop of the thread: requests
\* stay unanswered, but for the one at the server, which may still hear of it.
GiveUp(h) ==
    /\ closing[h] /\ Open(h)
    /\ state' = [state EXCEPT ![h] = "stopped"]
    /\ \/ UNCHANGED <<serving, heard>>
       \/ /\ serving[h] \in User
          /\ serving' = [serving EXCEPT ![h] = "none"]
          /\ End({serving[h]}, "lost")
    /\ alive' = [alive EXCEPT ![h] = FALSE]
    /\ closing' = [closing EXCEPT ![h] = FALSE]
    /\ cut' = [cut EXCEPT ![h] = FALSE]
    /\ UNCHANGED <<queue, hostFrame>>

-----------------------------------------------------------------------------
(* The manager.                                                             *)

\* connect_server(s), up to the await of list_tools.
Connect(s) ==
    /\ dial = "none" /\ live[s] = 0
    /\ made < MaxClients
    /\ {t \in Server \ {s} : live[t] # 0 \/ listed[Bridged[t]] # {}} \in Beside[s]
    /\ dial' = s
    /\ made' = made + 1
    /\ CallOwner(Dialer, made + 1)
    /\ UNCHANGED <<live, brought, registry>>

DialDone == dial' = "none" /\ heard' = "none" /\ UNCHANGED made

\* All of the server's tools validate.
ConnectSucceeds ==
    /\ dial # "none" /\ heard = "result"
    /\ \E v \in Released[Bridged[dial]], all \in Catalogue[dial] :
          /\ Register(Bridged[dial], v, all, made)
          /\ live' = [live EXCEPT ![dial] = made]
          /\ brought' = [brought EXCEPT ![dial] = all]
    /\ DialDone
    /\ UNCHANGED <<current, session>>

\* The catalogue is empty or ambiguous, or a tool does not validate, after some
\* have been registered; or the session was lost or raised an OSError.  The
\* client is closed.
ConnectFails ==
    /\ dial # "none"
    /\ \/ heard \in {"lost", "error"} /\ UNCHANGED registry
       \/ /\ heard = "result"
          /\ \E v \in Released[Bridged[dial]], all \in Catalogue[dial] : \E some \in SUBSET all :
                Register(Bridged[dial], v, some, made)
    /\ CloseClient(made)
    /\ DialDone
    /\ UNCHANGED <<live, brought>>

\* An exception connect_server does not catch, of the server or the SDK and not
\* an OSError: the client is left as it is.
ConnectRaises ==
    /\ dial # "none" /\ heard = "error"
    /\ DialDone
    /\ UNCHANGED <<live, brought, current, session, registry>>

\* Ctrl-C while connect_server awaits list_tools.
ConnectCancelled(h) ==
    /\ Cancel(Dialer, h)
    /\ DialDone
    /\ UNCHANGED <<live, brought, current, registry>>

\* Mutant: only what this connection brought is removed.
DisconnectBrought(s) ==
    /\ dial = "none" /\ live[s] # 0
    /\ live' = [live EXCEPT ![s] = 0]
    /\ brought' = [brought EXCEPT ![s] = {}]
    /\ Unregister(Bridged[s], brought[s])
    /\ listed' = [listed EXCEPT ![Managed[s]] = {}]
    /\ CloseClient(live[s])
    /\ UNCHANGED <<lock, dial, made, heard>>

\* disconnect_server(s): through the plugin registry when it knows the id the
\* manager uses, else from the manager's own list.
Disconnect(s) ==
    /\ dial = "none" /\ live[s] # 0
    /\ live' = [live EXCEPT ![s] = 0]
    /\ brought' = [brought EXCEPT ![s] = {}]
    /\ IF listed[Managed[s]] # {} THEN Unload(Managed[s])
       ELSE Unregister(Bridged[s], brought[s]) /\ UNCHANGED <<listed, lock>>
    /\ CloseClient(live[s])
    /\ UNCHANGED <<dial, made, heard>>

-----------------------------------------------------------------------------
(* Everything else that touches the registries and the clients.             *)

\* The handler of a registered tool: client.call_tool.
CallTool(k, n) ==
    /\ Idle(k)
    /\ tools[n] # Absent /\ tools[n].by \in Client
    /\ CallOwner(k, tools[n].by)
    /\ UNCHANGED <<registry, live, brought, dial, made>>

CallCancelled(k, h) ==
    /\ Cancel(k, h)
    /\ UNCHANGED <<heard, hostFrame>>

\* Python plugins, and /plugin unload of any id.
PluginStep ==
    /\ \/ \E m \in Module : LoadModule(m)
       \/ \E p \in Plugin : Unload(p)
    /\ UNCHANGED <<manager, current, session>>

Next ==
    \/ \E s \in Server : Connect(s) \/ Disconnect(s)
    \/ ConnectSucceeds \/ ConnectFails \/ ConnectRaises
    \/ \E h \in Host : ConnectCancelled(h)
    \/ \E k \in Caller, n \in Name : CallTool(k, n)
    \/ \E k \in Caller, h \in Host : CallCancelled(k, h)
    \/ \E h \in Host : Serve(h) \/ Answer(h) \/ Leave(h)
    \/ \E h \in Host : ServerDies(h) \/ SessionBreaks(h) \/ GiveUp(h)
    \/ PluginStep

Spec == Init /\ [][Next]_vars

\* The owner threads run, servers answer or die, and the SDK ends the contexts
\* it is told to leave.  Nobody has to cancel, give up or use a tool.
Fairness ==
    \A h \in Host : WF_vars(Serve(h)) /\ WF_vars(Answer(h)) /\ WF_vars(Leave(h))

FairSpec == Spec /\ Fairness

-----------------------------------------------------------------------------
\* The tools of s are registered, on the client of this connection.
Served(s) ==
    /\ brought[s] \subseteq listed[Bridged[s]]
    /\ \A t \in brought[s] : LET entry == tools[<<Bridged[s], t>>]
                             IN entry # Absent /\ entry.by = live[s]

\* Nothing else registers under the plugin id of s, or unloads it for itself.
Alone(s) ==
    /\ \A t \in Server \ {s} : Bridged[s] \notin {Bridged[t], Managed[t]}
    /\ \A m \in Module : Bridged[s] # PluginOf[m]

\* A server that counts as connected has all its tools registered, on the client
\* of this connection, whatever earlier connections left behind; or its plugin
\* was unloaded as a whole.  That is where its plugin id is its own: the code does
\* not keep it for servers whose ids are sanitised to one.  (connect_server,
\* disconnect_server, unload_plugin.)
ServedOrUnloaded ==
    \A s \in Server : live[s] # 0 /\ Alone(s) => Served(s) \/ listed[Bridged[s]] = {}

\* What can be called is listed for unloading, and connected servers are served.
ToolsConsistent == RegisteredIsListed /\ ServedOrUnloaded

\* "removes every tool the server brought": disconnecting leaves no tool that is
\* bound to the connection, nor, when the id needs no sanitising, any tool of the
\* plugin id that a connection which failed half-way had left.  Servers that share
\* an id are no exception; one whose unsanitised id is that of another plugin is.
DisconnectRemoves ==
    [][\A s \in Server, t \in Tool :
          live[s] # 0 /\ live'[s] = 0 =>
              LET n == <<Bridged[s], t>>
              IN \/ tools'[n] = Absent
                 \/ /\ Managed[s] # Bridged[s]
                    /\ tools[n].by # live[s] \/ listed[Managed[s]] # {}]_vars

\* Calls are lost with a session only when the server died, the client was
\* closed, or a request was cancelled while the server had it: cancelling a
\* request that waits costs nobody else their call.  (_serve, _fail_pending.)
LossExplained ==
    [][\A h \in Host, k \in Caller :
          Queued(k, h) /\ Leave(h) => ~alive[h] \/ closing[h] \/ cut[h]]_vars

\* A call returns, unless a close() gave up on the host it waits for.
CallsReturn ==
    \A k \in Caller : ~Idle(k) ~>
        (Idle(k) \/ \E h \in Host : Awaits(k, h) /\ state[h] = "stopped")

=============================================================================
