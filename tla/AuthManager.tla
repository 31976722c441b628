----------------------------- MODULE AuthManager -----------------------------
(***************************************************************************)
(* Authorization: the manager's main loop and its worker (app/auth.go),    *)
(* the agent's Authorize (app/mender.go) inside the client that retries a  *)
(* refused request once with a new token (client/client.go), and the local *)
(* proxy every request goes through (app/proxy), which the worker restarts *)
(* with each token.                                                        *)
(*                                                                         *)
(* A token is a record of the server that issued it and a number.  The URL *)
(* the agent uses is the port of the proxy's listener, a new one with each *)
(* Reconfigure.  Questions that change nothing (GetJwtToken) are left out; *)
(* so is Stop, which comes with the end of the process.                    *)
(***************************************************************************)
EXTENDS Integers, Sequences, FiniteSets

CONSTANTS
  Servers,     \* the configured servers, in order
  Apps,        \* programs that open a websocket through the proxy
  MaxCalls,    \* bound: requests of the agent
  MaxFetches,  \* bound: FetchJwtToken calls of other programs over D-Bus
  MaxSockets,  \* bound: attempts of each program to open a websocket
  MaxRestarts, \* bound: restarts of the process
  MaxFaults    \* bound: failing key generation, key store, listener

ASSUME AuthAssumption ==
  /\ Servers \in Seq(STRING)
  /\ MaxCalls \in Nat /\ MaxFetches \in Nat /\ MaxSockets \in Nat
  /\ MaxRestarts \in Nat /\ MaxFaults \in Nat

VARIABLES
  inChan,   \* FETCH requests that wait for the main loop, by sender
  loop,     \* the request the main loop has answered and not yet queued
  queue,    \* workerChan
  worker,   \* where fetchAuthToken and its deferred broadcast are
  server,   \* the server fetchAuthToken tries, an index
  token, serverURL,  \* what the manager has
  key,      \* the device key in memory and on disk (0: none), whether it is
            \* static, forceBootstrap, the command line's flag for it, and
            \* ghost: the keys made
  proxy,    \* running, its port, and conf: backend and token
  channel,  \* the agent's broadcast channel: open (in the map), and its message
  agent,    \* ReauthorizingClient.Do and Authorize
  answer,   \* the agent's response channel
  socket,   \* what the proxy's websocket handlers do
  conns,    \* wsConnections
  owner,    \* ghost: the key of the last token
  changes,  \* ghost: tokens for another key than the one before
  excused,  \* ghost: failed Saves, failed Loads and forced bootstraps
  sent, issued, calls, fetches, sockets, restarts, faults

manager == <<inChan, loop, queue, worker, server>>
tokens  == <<token, serverURL, issued>>
keys    == <<key, owner, changes, excused>>
client  == <<agent, answer, calls>>
ws      == <<socket, conns, sockets>>
bounds  == <<fetches, restarts, faults>>
vars    == <<manager, tokens, keys, proxy, channel, client, ws, sent, bounds>>

None == [from |-> "", n |-> 0]
Fault == faults < MaxFaults /\ faults' = faults + 1

-----------------------------------------------------------------------------
(* The main loop *)

(* FETCH: the sender is told, and the request goes to the worker.  The     *)
(* response channel has room for the answer.                               *)
Receive ==
  /\ loop = "" /\ inChan # <<>>
  /\ loop' = Head(inChan) /\ inChan' = Tail(inChan)
  /\ answer' = IF Head(inChan) = "agent" THEN TRUE ELSE answer
  /\ UNCHANGED <<queue, worker, server, tokens, keys, proxy, channel, agent, calls, ws,
                 sent, bounds>>

(* Mutant: every request is queued *)
QueuedTwice == Append(queue, "fetch")

(* A request that waits serves for this one as well *)
Queued == IF queue = <<>> THEN <<"fetch">> ELSE queue

Enqueue ==
  /\ loop # "" /\ loop' = "" /\ queue' = Queued
  /\ UNCHANGED <<inChan, worker, server, tokens, keys, proxy, channel, client, ws,
                 sent, bounds>>

-----------------------------------------------------------------------------
(* The worker: fetchAuthToken *)

TakeRequest ==
  /\ worker = "idle" /\ queue # <<>>
  /\ queue' = <<>> /\ worker' = "bootstrap"
  /\ UNCHANGED <<inChan, loop, server, tokens, keys, proxy, channel, client, ws,
                 sent, bounds>>

NeedsBootstrap == key.mem = 0 \/ key.force

(* Mutant: the new key is kept in memory only *)
SavedNowhere == [key EXCEPT !.mem = key.made + 1, !.force = FALSE, !.made = @ + 1]

(* GenerateKey: Generate, then Save *)
Saved == [key EXCEPT !.mem = key.made + 1, !.disk = key.made + 1, !.force = FALSE, !.made = @ + 1]

(* A static key is not made again, which is no error *)
Bootstrapped ==
  IF ~NeedsBootstrap THEN key
  ELSE IF key.static THEN [key EXCEPT !.force = FALSE] ELSE Saved

(* Mutant: a fetch that fails early tells nobody *)
BootstrapFailsQuietly ==
  /\ worker = "bootstrap" /\ server' = 1
  /\ \/ key' = Bootstrapped /\ worker' = "request" /\ UNCHANGED faults
     \/ NeedsBootstrap /\ ~key.static /\ Fault /\ worker' = "idle" /\ UNCHANGED key
  /\ UNCHANGED <<inChan, loop, queue, tokens, owner, changes, excused, proxy, channel, client,
                 ws, sent, fetches, restarts>>

(* A key that could not be stored stays in memory and is used from the     *)
(* next fetch on, unless bootstrap is forced.                              *)
Bootstrap ==
  /\ worker = "bootstrap" /\ server' = 1
  /\ \/ /\ key' = Bootstrapped
        /\ worker' = IF Servers = <<>> THEN "cancel" ELSE "request"
        /\ UNCHANGED <<excused, faults>>
     \/ /\ NeedsBootstrap /\ ~key.static /\ Fault /\ worker' = "cancel"
        /\ \/ UNCHANGED <<key, excused>>                    \* Generate fails
           \/ /\ key' = [key EXCEPT !.mem = key.made + 1, !.made = @ + 1]
              /\ excused' = excused + 1                     \* Save fails
  /\ UNCHANGED <<inChan, loop, queue, tokens, owner, changes, proxy, channel, client, ws,
                 sent, fetches, restarts>>

(* MakeAuthRequest: without a key nothing is sent *)
CanSign == key.mem # 0

(* The loop over the servers is left *)
Done == worker' = "cancel" /\ server' = 1

(* One server: a token, an empty answer, a refusal, or any other failure.  *)
(* Only if the last server refuses is the old token given up.              *)
Request ==
  /\ worker = "request"
  /\ \/ /\ CanSign /\ Done                    \* success
        /\ token' = [from |-> Servers[server], n |-> issued + 1] /\ issued' = issued + 1
        /\ serverURL' = Servers[server]
        /\ owner' = key.mem
        /\ changes' = IF owner \in {0, key.mem} THEN changes ELSE changes + 1
     \/ CanSign /\ Done /\ UNCHANGED <<tokens, owner, changes>>
     \/ /\ server < Len(Servers) /\ server' = server + 1
        /\ UNCHANGED <<worker, tokens, owner, changes>>
     \/ /\ server = Len(Servers) /\ Done
        /\ \/ CanSign /\ token' = None /\ serverURL' = ""     \* refused
           \/ UNCHANGED <<token, serverURL>>
        /\ UNCHANGED <<issued, owner, changes>>
  /\ UNCHANGED <<inChan, loop, queue, key, excused, proxy, channel, client, ws, sent, bounds>>

(* Every request first runs the identity helper, which nobody stops: one   *)
(* that never ends keeps the worker for ever.                              *)
HelperHangs ==
  /\ worker = "request" /\ worker' = "hung"
  /\ UNCHANGED <<inChan, loop, queue, server, tokens, keys, proxy, channel, client, ws,
                 sent, bounds>>

-----------------------------------------------------------------------------
(* The worker: broadcastAuthTokenStateChange *)

(* Mutant: only a missing token stops the proxy *)
ProxyStopSkipped ==
  /\ worker = "cancel" /\ worker' = IF token = None THEN "closeWs" ELSE "reconfigure"
  /\ UNCHANGED <<inChan, loop, queue, server, tokens, keys, proxy, channel, client, ws,
                 sent, bounds>>

(* ProxyController.Stop cancels the context, so dials fail from here on *)
ProxyCancel ==
  /\ worker = "cancel" /\ worker' = IF proxy.running THEN "closeWs" ELSE "reconfigure"
  /\ proxy' = [proxy EXCEPT !.ctx = FALSE]
  /\ UNCHANGED <<inChan, loop, queue, server, tokens, keys, channel, client, ws,
                 sent, bounds>>

(* wsRunning; CloseWsConnections keeps wsConnectionsMutex until it is done *)
WsRunning ==
  /\ worker = "closeWs" /\ worker' = IF conns = {} THEN "shutdown" ELSE "closing"
  /\ UNCHANGED <<inChan, loop, queue, server, tokens, keys, proxy, channel, client, ws,
                 sent, bounds>>

(* CloseWsConnections: a close message to both ends of each connection.    *)
(* The write mutexes and the writes have no deadline: neither returns      *)
(* while an end does not read.                                             *)
CloseWsConnections ==
  /\ worker = "closing"
  /\ \/ \E a \in conns :
          /\ socket[a] # "stalled" /\ socket' = [socket EXCEPT ![a] = "ending"]
          /\ conns' = conns \ {a} /\ UNCHANGED worker
     \/ conns = {} /\ worker' = "shutdown" /\ UNCHANGED <<socket, conns>>
  /\ UNCHANGED <<inChan, loop, queue, server, tokens, keys, proxy, channel, client,
                 sockets, sent, bounds>>

(* The context of Shutdown is cancelled already, so it closes the listener *)
(* and waits for no handler.                                               *)
ProxyShutdown ==
  /\ worker = "shutdown" /\ worker' = "reconfigure"
  /\ proxy' = [proxy EXCEPT !.running = FALSE]
  /\ UNCHANGED <<inChan, loop, queue, server, tokens, keys, channel, client, ws,
                 sent, bounds>>

(* Reconfigure and Start, with a token only; Reconfigure fails while the   *)
(* proxy is running or without a listener.                                 *)
Reconfigure ==
  /\ worker = "reconfigure" /\ worker' = "broadcast"
  /\ \/ /\ token # None /\ ~proxy.running
        /\ proxy' = [running |-> TRUE, port |-> proxy.port + 1, backend |-> serverURL,
                     jwt |-> token, ctx |-> TRUE]
        /\ UNCHANGED faults
     \/ /\ token # None /\ ~proxy.running /\ Fault /\ UNCHANGED proxy
     \/ /\ token = None \/ proxy.running
        /\ UNCHANGED <<proxy, faults>>
  /\ UNCHANGED <<inChan, loop, queue, server, tokens, keys, channel, client, ws,
                 sent, fetches, restarts>>

GetServerUrl == IF proxy.running THEN proxy.port ELSE 0

(* A channel that still holds a message is closed and forgotten; its       *)
(* message can still be read.                                              *)
Broadcast ==
  /\ worker = "broadcast" /\ worker' = "idle"
  /\ sent' = sent + 1
  /\ channel' =
       IF ~channel.open THEN channel
       ELSE IF channel.box = <<>>
         THEN [channel EXCEPT !.box = <<[token |-> token, url |-> GetServerUrl, at |-> sent + 1]>>]
         ELSE [channel EXCEPT !.open = FALSE]
  /\ UNCHANGED <<inChan, loop, queue, server, tokens, keys, proxy, client, ws,
                 bounds>>

-----------------------------------------------------------------------------
(* The agent: Do around Authorize *)

AgentStep(to) == agent' = [agent EXCEPT !.pc = to]

(* Do returns, and its variables are gone *)
Return == agent' = [agent EXCEPT !.pc = "idle", !.tried = FALSE, !.began = 0, !.at = 0]

Do ==
  /\ agent.pc = "idle" /\ calls < MaxCalls /\ calls' = calls + 1
  /\ agent' = [agent EXCEPT !.pc = "send", !.tried = FALSE]
  /\ UNCHANGED <<manager, tokens, keys, proxy, channel, answer, ws, sent, bounds>>

(* A connection error or a refusal: Authorize once, then give it back *)
Refused == IF agent.tried THEN Return ELSE AgentStep("authorize")

(* checkAuthorizationHook: only the proxy's own token passes *)
Send ==
  /\ agent.pc = "send"
  /\ IF agent.url # 0 /\ proxy.running /\ agent.url = proxy.port /\ agent.token = proxy.jwt
       THEN AgentStep("forward") ELSE Refused
  /\ UNCHANGED <<manager, tokens, keys, proxy, channel, answer, calls, ws, sent, bounds>>

(* doHttpRequest, to what is the backend now; any answer may come *)
Forward ==
  /\ agent.pc = "forward"
  /\ Return \/ Refused
  /\ UNCHANGED <<manager, tokens, keys, proxy, channel, answer, calls, ws, sent, bounds>>

(* GetBroadcastMessageChan makes a channel if there is none *)
GetBroadcastMessageChan ==
  /\ agent.pc = "authorize"
  /\ agent' = [agent EXCEPT !.pc = "drain", !.began = sent]
  /\ channel' = IF channel.open THEN channel ELSE [open |-> TRUE, box |-> <<>>]
  /\ answer' = FALSE
  /\ UNCHANGED <<manager, tokens, keys, proxy, calls, ws, sent, bounds>>

(* Mutant: what is in the channel stays there *)
DrainNothing == channel

Drained == [channel EXCEPT !.box = <<>>]

Drain ==
  /\ agent.pc = "drain" /\ AgentStep("ask") /\ channel' = Drained
  /\ UNCHANGED <<manager, tokens, keys, proxy, answer, calls, ws, sent, bounds>>

Ask ==
  /\ agent.pc = "ask" /\ AgentStep("answer")
  /\ inChan' = Append(inChan, "agent")
  /\ UNCHANGED <<loop, queue, worker, server, tokens, keys, proxy, channel, answer, calls,
                 ws, sent, bounds>>

GetAnswer ==
  /\ agent.pc = "answer" /\ answer /\ answer' = FALSE /\ AgentStep("wait")
  /\ UNCHANGED <<manager, tokens, keys, proxy, channel, calls, ws, sent, bounds>>

(* The broadcast: a token and a URL, or an error to the caller of Do *)
WaitBroadcast ==
  /\ agent.pc = "wait"
  /\ \/ /\ channel.box # <<>> /\ channel' = [channel EXCEPT !.box = <<>>]
        /\ LET m == Head(channel.box) IN
             IF m.token # None /\ m.url # 0
               THEN agent' = [agent EXCEPT !.pc = "send", !.tried = TRUE, !.token = m.token,
                                           !.url = m.url, !.at = m.at]
               ELSE Return
     \/ channel.box = <<>> /\ ~channel.open /\ Return /\ UNCHANGED channel
  /\ UNCHANGED <<manager, tokens, keys, proxy, answer, calls, ws, sent, bounds>>

(* ClearAuthorization, between requests *)
ClearAuthorization ==
  /\ agent.pc = "idle" /\ agent.url # 0
  /\ agent' = [agent EXCEPT !.token = None, !.url = 0]
  /\ UNCHANGED <<manager, tokens, keys, proxy, channel, answer, calls, ws, sent, bounds>>

-----------------------------------------------------------------------------
(* Other programs *)

FetchJwtToken ==
  /\ fetches < MaxFetches /\ fetches' = fetches + 1
  /\ inChan' = Append(inChan, "dbus")
  /\ UNCHANGED <<loop, queue, worker, server, tokens, keys, proxy, channel, client, ws,
                 sent, restarts, faults>>

MaxWsConnections == 1

SocketStep(a, from, to) ==
  /\ socket[a] = from /\ socket' = [socket EXCEPT ![a] = to]
  /\ UNCHANGED <<manager, tokens, keys, proxy, channel, client, sent, bounds>>

(* wsConnectionsMutex *)
WsFree == worker # "closing"

(* apiDevicesConnectHandler: while there is room, with the proxy's token *)
WsConnect(a) ==
  /\ WsFree /\ sockets[a] < MaxSockets /\ proxy.running
  /\ SocketStep(a, "none", IF Cardinality(conns) < MaxWsConnections THEN "dial" ELSE "none")
  /\ sockets' = [sockets EXCEPT ![a] = @ + 1] /\ UNCHANGED conns

(* DoWsUpgrade dials the backend, which a cancelled context ends *)
WsDial(a) ==
  /\ \/ proxy.ctx /\ SocketStep(a, "dial", "upgrade")
     \/ SocketStep(a, "dial", "none")
  /\ UNCHANGED <<conns, sockets>>

WsUpgrade(a) ==
  /\ \/ WsFree /\ SocketStep(a, "upgrade", "open") /\ conns' = conns \cup {a}
     \/ SocketStep(a, "upgrade", "none") /\ UNCHANGED conns
  /\ UNCHANGED sockets

(* forwardWsConnection: an end that does not read makes the write to it    *)
(* wait, with the write mutex held, until it reads again or is gone.       *)
WsStall(a) ==
  /\ SocketStep(a, "open", "stalled") \/ SocketStep(a, "stalled", "open")
  /\ UNCHANGED <<conns, sockets>>

(* forwardWsConnection: one end closes, the other end is told *)
WsClosed(a) ==
  /\ SocketStep(a, "open", "ending") \/ SocketStep(a, "stalled", "ending")
  /\ UNCHANGED <<conns, sockets>>

WsEnd(a) ==
  /\ WsFree /\ SocketStep(a, "ending", "none") /\ conns' = conns \ {a}
  /\ UNCHANGED sockets

-----------------------------------------------------------------------------
(* Load gets the key from the disk; if it fails the key store is empty *)
Loaded == {key.disk, 0}

(* The process ends and starts again; an error of Load is only logged *)
Restart ==
  /\ restarts < MaxRestarts /\ restarts' = restarts + 1
  /\ inChan' = <<>> /\ loop' = "" /\ queue' = <<>> /\ worker' = "idle" /\ server' = 1
  /\ token' = None /\ serverURL' = ""
  /\ \E k \in Loaded :
       /\ key' = [key EXCEPT !.mem = k, !.force = key.flag]
       /\ excused' = IF key.flag \/ k # key.disk THEN excused + 1 ELSE excused
  /\ proxy' = [running |-> FALSE, port |-> 0, backend |-> "", jwt |-> None, ctx |-> TRUE]
  /\ channel' = [open |-> FALSE, box |-> <<>>] /\ sent' = 0
  /\ agent' = [pc |-> "idle", tried |-> FALSE, token |-> None, url |-> 0, began |-> 0, at |-> 0]
  /\ answer' = FALSE
  /\ socket' = [a \in Apps |-> "none"] /\ conns' = {}
  /\ UNCHANGED <<issued, owner, changes, calls, sockets, fetches, faults>>

(* A device with or without a key, static or not, and with or without      *)
(* --forcebootstrap                                                        *)
Init ==
  /\ inChan = <<>> /\ loop = "" /\ queue = <<>> /\ worker = "idle" /\ server = 1
  /\ token = None /\ serverURL = "" /\ issued = 0
  /\ \E k \in {0, 1}, f \in BOOLEAN, s \in BOOLEAN :
       /\ key = [mem |-> k, disk |-> k, static |-> s, force |-> f, flag |-> f, made |-> k]
       /\ excused = IF f THEN 1 ELSE 0
  /\ owner = 0 /\ changes = 0
  /\ proxy = [running |-> FALSE, port |-> 0, backend |-> "", jwt |-> None, ctx |-> TRUE]
  /\ channel = [open |-> FALSE, box |-> <<>>]
  /\ agent = [pc |-> "idle", tried |-> FALSE, token |-> None, url |-> 0, began |-> 0, at |-> 0]
  /\ answer = FALSE /\ socket = [a \in Apps |-> "none"] /\ conns = {}
  /\ sent = 0 /\ calls = 0 /\ fetches = 0 /\ restarts = 0 /\ faults = 0
  /\ sockets = [a \in Apps |-> 0]

MainLoop == Receive \/ Enqueue
Worker ==
  \/ TakeRequest \/ Bootstrap \/ Request
  \/ ProxyCancel \/ WsRunning \/ CloseWsConnections \/ ProxyShutdown \/ Reconfigure \/ Broadcast
Agent ==
  \/ Send \/ Forward
  \/ GetBroadcastMessageChan \/ Drain \/ Ask \/ GetAnswer \/ WaitBroadcast
Handler(a) == WsDial(a) \/ WsUpgrade(a) \/ WsEnd(a)

Next ==
  \/ MainLoop \/ Worker \/ HelperHangs \/ Agent \/ Do \/ ClearAuthorization
  \/ FetchJwtToken \/ Restart
  \/ \E a \in Apps : Handler(a) \/ WsConnect(a) \/ WsStall(a) \/ WsClosed(a)

(* Main loop, worker and agent go on where nothing holds them up: a worker *)
(* in CloseWsConnections needs ends that read.  Calls, whatever happens to *)
(* sockets, and faults may come or not.                                    *)
Spec ==
  /\ Init /\ [][Next]_vars
  /\ WF_vars(MainLoop) /\ WF_vars(Worker) /\ WF_vars(Agent)

-----------------------------------------------------------------------------
(* Types *)
Names    == {""} \cup {Servers[i] : i \in DOMAIN Servers}
Tokens   == [from : Names, n : Nat]
Messages == [token : Tokens, url : Nat, at : Nat]

ManagerTypes ==
  /\ inChan \in Seq({"agent", "dbus"}) /\ loop \in {"", "agent", "dbus"}
  /\ queue \in {<<>>, <<"fetch">>}
  /\ worker \in {"idle", "bootstrap", "request", "hung", "cancel", "closeWs", "closing",
                 "shutdown", "reconfigure", "broadcast"}
  /\ worker = "request" => server \in DOMAIN Servers

TokenTypes == token \in Tokens /\ serverURL \in Names /\ issued \in Nat

KeyTypes ==
  /\ key \in [mem : Nat, disk : Nat, static : BOOLEAN, force : BOOLEAN, flag : BOOLEAN,
              made : Nat]
  /\ key.mem <= key.made /\ key.disk <= key.made
  /\ owner \in 0..key.made /\ changes \in Nat /\ excused \in Nat

ProxyTypes ==
  proxy \in [running : BOOLEAN, port : Nat, backend : Names, jwt : Tokens, ctx : BOOLEAN]

ChannelTypes ==
  /\ channel \in [open : BOOLEAN, box : Seq(Messages)] /\ Len(channel.box) <= 1
  /\ sent \in Nat

AgentTypes ==
  agent \in [pc : {"idle", "send", "forward", "authorize", "drain", "ask", "answer", "wait"},
             tried : BOOLEAN, token : Tokens, url : Nat, began : Nat, at : Nat]

SocketTypes ==
  /\ socket \in [Apps -> {"none", "dial", "upgrade", "open", "stalled", "ending"}]
  /\ conns \subseteq Apps

TypeOK ==
  /\ ManagerTypes /\ TokenTypes /\ KeyTypes /\ ProxyTypes /\ ChannelTypes /\ AgentTypes
  /\ SocketTypes

(* Authorize asks because its token was refused, so it never takes a       *)
(* message from before it began: the channel is drained before the         *)
(* request, and closed if the worker fills it twice.                       *)
FreshAnswer == agent.pc \in {"send", "forward"} /\ agent.tried => agent.at > agent.began

(* Between two fetches a running proxy forwards for exactly the manager's  *)
(* token to the server that issued it, and without a token there is no     *)
(* proxy (broadcastAuthTokenStateChange).                                  *)
ProxyAgrees ==
  worker \in {"idle", "bootstrap", "request"} /\ proxy.running =>
    /\ proxy.backend = proxy.jwt.from
    /\ worker = "idle" => proxy.jwt = token /\ token # None /\ proxy.backend = serverURL

(* The server knows the device by its key.  Every token for another key    *)
(* than the one before is owed to a Save that failed, to a Load that       *)
(* failed, or to a start with --forcebootstrap, each of which costs the    *)
(* device its identity at most once; a static key is never changed.        *)
OneIdentity == changes <= excused /\ (key.static => changes = 0)

(* What nothing in the code ends: a write to a websocket whose end does    *)
(* not read, and an identity helper that does not finish.                  *)
Blocked ==
  \/ worker = "closing" /\ \E a \in conns : socket[a] = "stalled"
  \/ worker = "hung"

(* A request of the agent returns, with or without a new token, unless the *)
(* worker is blocked again and again: no fetch of another program can make *)
(* it miss the broadcast it waits for.                                     *)
DoReturns == agent.pc # "idle" ~> agent.pc = "idle" \/ Blocked

=============================================================================
