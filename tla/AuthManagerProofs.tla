-------------------------- MODULE AuthManagerProofs --------------------------
(***************************************************************************)
(* Authorization: the types of AuthManager, FreshAnswer, ProxyAgrees and   *)
(* OneIdentity, proved for any list of servers and any number of requests, *)
(* programs, websockets and faults.                                        *)
(***************************************************************************)
EXTENDS AuthManager, SequenceTheorems, TLAPS

(* Once the channel is drained, what is in it was broadcast after          *)
(* Authorize began                                                         *)
BoxIsFresh ==
  /\ agent.pc \in {"drain", "ask", "answer", "wait"} => agent.began <= sent
  /\ agent.pc \in {"ask", "answer", "wait"} /\ channel.box # <<>> =>
       channel.box[1].at > agent.began

(* The manager's token and the proxy's come from the server that belongs   *)
(* to them; the proxy is down while it gets a new one, and has the         *)
(* manager's from there to the next fetch.                                 *)
ProxyFollows ==
  /\ serverURL = token.from /\ proxy.backend = proxy.jwt.from
  /\ worker = "reconfigure" => ~proxy.running
  /\ worker \in {"broadcast", "idle"} /\ proxy.running => proxy.jwt = token /\ token # None

(* A token for the key in memory would be one for another key *)
OtherKey == IF owner \in {0, key.mem} THEN 0 ELSE 1

(* The changes of identity to come if nothing fails from now on: one that  *)
(* the next fetch brings, and one that the next restart brings because the *)
(* disk has another key than memory.                                       *)
Pending ==
  IF key.static THEN 0
  ELSE IF key.force \/ key.mem = 0 THEN IF owner = 0 THEN 0 ELSE 1
  ELSE IF key.mem = key.disk THEN OtherKey ELSE OtherKey + 1

(* What went wrong pays for the changes so far and for those to come *)
KeyAccount ==
  /\ key.force => key.flag
  /\ worker = "request" => ~key.force
  /\ key.static => key.mem \in {0, key.disk} /\ owner \in {0, key.disk} /\ changes = 0
  /\ changes + Pending <= excused

AuthInv == TypeOK /\ FreshAnswer /\ BoxIsFresh /\ ProxyFollows /\ KeyAccount

-----------------------------------------------------------------------------

(* Which step changes what *)
LEMMA WhoChanges ==
  ASSUME [Next]_vars
  PROVE  /\ UNCHANGED inChan \/ Receive \/ Ask \/ FetchJwtToken \/ Restart
         /\ UNCHANGED loop \/ Receive \/ Enqueue \/ Restart
         /\ UNCHANGED queue \/ Enqueue \/ TakeRequest \/ Restart
         /\ UNCHANGED <<worker, server>> \/ Worker \/ HelperHangs \/ Restart
         /\ UNCHANGED tokens \/ Request \/ Restart
         /\ UNCHANGED keys \/ Bootstrap \/ Request \/ Restart
         /\ UNCHANGED proxy \/ ProxyCancel \/ ProxyShutdown \/ Reconfigure \/ Restart
         /\ \/ UNCHANGED <<channel, sent>>
            \/ Broadcast \/ GetBroadcastMessageChan \/ Drain \/ WaitBroadcast \/ Restart
         /\ UNCHANGED agent \/ Agent \/ Do \/ ClearAuthorization \/ Restart
         /\ \/ UNCHANGED <<socket, conns>> \/ CloseWsConnections \/ Restart
            \/ \E a \in Apps : Handler(a) \/ WsConnect(a) \/ WsStall(a) \/ WsClosed(a)
<1> USE DEF vars, manager, tokens, keys, client, ws
<1>1. CASE UNCHANGED vars
  BY <1>1
<1>2. CASE MainLoop
  BY <1>2 DEF MainLoop, Receive, Enqueue
<1>3. CASE Worker
  BY <1>3 DEF Worker, TakeRequest, Bootstrap, Request, ProxyCancel, WsRunning,
              CloseWsConnections, ProxyShutdown, Reconfigure, Broadcast
<1>4. CASE Agent
  BY <1>4 DEF Agent, Send, Forward, GetBroadcastMessageChan, Drain, Ask, GetAnswer, WaitBroadcast
<1>5. CASE Do \/ ClearAuthorization \/ FetchJwtToken \/ HelperHangs
  BY <1>5 DEF Do, ClearAuthorization, FetchJwtToken, HelperHangs
<1>6. CASE \E a \in Apps : Handler(a) \/ WsConnect(a) \/ WsStall(a) \/ WsClosed(a)
  BY <1>6 DEF Handler, WsDial, WsUpgrade, WsEnd, WsConnect, WsStall, WsClosed, SocketStep
<1> QED
  BY <1>1, <1>2, <1>3, <1>4, <1>5, <1>6 DEF Next

-----------------------------------------------------------------------------
(* Types *)

LEMMA NoToken == None \in Tokens /\ None.from = "" /\ "" \in Names
BY DEF None, Tokens, Names

LEMMA TokenOf ==
  ASSUME NEW from \in Names, NEW n \in Nat
  PROVE  /\ [from |-> from, n |-> n] \in Tokens
         /\ [from |-> from, n |-> n].from = from
BY DEF Tokens

LEMMA ManagerNext ==
  ASSUME TypeOK, [Next]_vars
  PROVE  ManagerTypes'
<1> DEFINE Senders == {"agent", "dbus"}
<1>0. inChan \in Seq(Senders) /\ "agent" \in Senders /\ "dbus" \in Senders
  BY DEF TypeOK, ManagerTypes
<1>1. inChan' \in Seq(Senders) /\ (Receive => loop' \in Senders)
  <2> HIDE DEF Senders
  <2>1. CASE Receive
    <3>1. inChan # <<>> /\ inChan' = Tail(inChan) /\ loop' = Head(inChan)
      BY <2>1 DEF Receive
    <3> QED
      BY <1>0, <3>1, HeadTailProperties
  <2>2. CASE inChan' \in {Append(inChan, "agent"), Append(inChan, "dbus")} /\ ~Receive
    BY <1>0, <2>2, AppendProperties
  <2>3. CASE inChan' = <<>> /\ ~Receive
    BY <2>3, EmptySeq
  <2>4. CASE UNCHANGED inChan /\ ~Receive
    BY <1>0, <2>4
  <2> QED
    BY <2>1, <2>2, <2>3, <2>4, WhoChanges DEF Ask, FetchJwtToken, Restart
<1>2. loop' \in {"", "agent", "dbus"}
  BY <1>1, WhoChanges DEF TypeOK, ManagerTypes, Enqueue, Restart
<1>3. queue' \in {<<>>, <<"fetch">>}
  BY WhoChanges DEF TypeOK, ManagerTypes, Enqueue, Queued, TakeRequest, Restart
<1>4. worker' = "request" => server' \in DOMAIN Servers
  <2>1. /\ worker = "request" => server \in DOMAIN Servers
        /\ DOMAIN Servers = 1..Len(Servers) /\ Len(Servers) \in Nat
        /\ Servers # <<>> => Len(Servers) \in Nat \ {0}
    BY AuthAssumption, LenProperties, EmptySeq DEF TypeOK, ManagerTypes, AuthAssumption
  <2>2. CASE Bootstrap
    BY <2>1, <2>2 DEF Bootstrap
  <2>3. CASE Request
    BY <2>1, <2>3 DEF Request, Done
  <2> QED
    BY <2>1, <2>2, <2>3, WhoChanges
    DEF Worker, TakeRequest, HelperHangs, ProxyCancel, WsRunning, CloseWsConnections,
        ProxyShutdown, Reconfigure, Broadcast, Restart
<1>5. worker' \in {"idle", "bootstrap", "request", "hung", "cancel", "closeWs", "closing",
                   "shutdown", "reconfigure", "broadcast"}
  BY WhoChanges
  DEF TypeOK, ManagerTypes, Worker, TakeRequest, Bootstrap, Request, Done, HelperHangs,
      ProxyCancel, WsRunning, CloseWsConnections, ProxyShutdown, Reconfigure, Broadcast, Restart
<1> QED
  BY <1>1, <1>2, <1>3, <1>4, <1>5 DEF ManagerTypes

(* A successful request gives a token of the server that was asked; where  *)
(* the token goes, its server's URL goes as well.                          *)
LEMMA RequestTokens ==
  ASSUME TypeOK, Request
  PROVE  \/ UNCHANGED tokens
         \/ token' = None /\ serverURL' = "" /\ issued' = issued
         \/ /\ issued' = issued + 1 /\ token' \in Tokens
            /\ serverURL' \in Names /\ token'.from = serverURL'
<1>1. Servers[server] \in Names /\ issued + 1 \in Nat
  <2>1. server \in DOMAIN Servers /\ issued \in Nat
    BY DEF TypeOK, ManagerTypes, TokenTypes, Request
  <2>2. Servers[server] \in Names
    BY <2>1, Zenon DEF Names
  <2> QED
    BY <2>1, <2>2
<1>2. /\ [from |-> Servers[server], n |-> issued + 1] \in Tokens
      /\ [from |-> Servers[server], n |-> issued + 1].from = Servers[server]
  BY <1>1, TokenOf
<1> QED
  BY <1>1, <1>2 DEF Request, tokens

LEMMA TokenNext ==
  ASSUME TypeOK, [Next]_vars
  PROVE  TokenTypes'
<1>1. token \in Tokens /\ serverURL \in Names /\ issued \in Nat
  BY DEF TypeOK, TokenTypes
<1>2. CASE Request
  <2>1. CASE UNCHANGED tokens
    BY <1>1, <2>1 DEF TokenTypes, tokens
  <2>2. CASE token' = None /\ serverURL' = "" /\ issued' = issued
    BY <1>1, <2>2, NoToken DEF TokenTypes
  <2>3. CASE issued' = issued + 1 /\ token' \in Tokens /\ serverURL' \in Names
    BY <1>1, <2>3 DEF TokenTypes
  <2> QED
    BY <1>2, <2>1, <2>2, <2>3, RequestTokens
<1>3. CASE Restart
  BY <1>1, <1>3, NoToken DEF Restart, TokenTypes
<1>4. CASE UNCHANGED tokens
  BY <1>1, <1>4 DEF TokenTypes, tokens
<1> QED
  BY <1>2, <1>3, <1>4, WhoChanges

Keyrings ==
  [mem : Nat, disk : Nat, static : BOOLEAN, force : BOOLEAN, flag : BOOLEAN, made : Nat]

LEMMA SavedKey ==
  ASSUME KeyTypes
  PROVE  /\ Saved \in Keyrings
         /\ Saved.mem = key.made + 1 /\ Saved.disk = Saved.mem /\ Saved.made = Saved.mem
         /\ Saved.force = FALSE /\ Saved.flag = key.flag /\ Saved.static = key.static
<1>1. key \in Keyrings
  BY DEF KeyTypes, Keyrings
<1>2. key.made + 1 \in Nat
  BY <1>1 DEF Keyrings
<1> QED
  BY <1>1, <1>2, Zenon DEF Saved, Keyrings

LEMMA UnsavedKey ==
  ASSUME KeyTypes, NEW k, k = [key EXCEPT !.mem = key.made + 1, !.made = @ + 1]
  PROVE  /\ k \in Keyrings
         /\ k.mem = key.made + 1 /\ k.made = k.mem /\ k.static = key.static
         /\ k.disk = key.disk /\ k.force = key.force /\ k.flag = key.flag
<1>1. key \in Keyrings
  BY DEF KeyTypes, Keyrings
<1>2. key.made + 1 \in Nat
  BY <1>1 DEF Keyrings
<1> QED
  BY <1>1, <1>2, Zenon DEF Keyrings

LEMMA StaticKey ==
  ASSUME KeyTypes, NEW k, k = [key EXCEPT !.force = FALSE]
  PROVE  /\ k \in Keyrings
         /\ k.mem = key.mem /\ k.disk = key.disk /\ k.made = key.made
         /\ k.static = key.static /\ k.force = FALSE /\ k.flag = key.flag
<1>1. key \in Keyrings
  BY DEF KeyTypes, Keyrings
<1> QED
  BY <1>1, Zenon DEF Keyrings

(* What Load may leave after a restart *)
LEMMA LoadedKey ==
  ASSUME KeyTypes, NEW m \in Nat, NEW k, k = [key EXCEPT !.mem = m, !.force = key.flag]
  PROVE  /\ k \in Keyrings
         /\ k.mem = m /\ k.disk = key.disk /\ k.made = key.made
         /\ k.static = key.static /\ k.force = key.flag /\ k.flag = key.flag
<1>1. key \in Keyrings
  BY DEF KeyTypes, Keyrings
<1>2. key.flag \in BOOLEAN
  BY <1>1 DEF Keyrings
<1> QED
  BY <1>1, <1>2, Zenon DEF Keyrings

(* The ways out of Bootstrap *)
LEMMA BootstrapKey ==
  ASSUME Bootstrap
  PROVE  /\ owner' = owner /\ changes' = changes
         /\ \/ ~NeedsBootstrap /\ key' = key /\ excused' = excused
            \/ key.static /\ key' = [key EXCEPT !.force = FALSE] /\ excused' = excused
            \/ NeedsBootstrap /\ ~key.static /\ key' = Saved /\ excused' = excused
            \/ key' = key /\ excused' = excused /\ worker' = "cancel"
            \/ /\ NeedsBootstrap /\ ~key.static /\ worker' = "cancel"
               /\ key' = [key EXCEPT !.mem = key.made + 1, !.made = @ + 1]
               /\ excused' = excused + 1
BY DEF Bootstrap, Bootstrapped

(* What Request does to the accounts *)
LEMMA RequestKey ==
  ASSUME Request
  PROVE  /\ key' = key /\ excused' = excused
         /\ \/ owner' = owner /\ changes' = changes
            \/ /\ key.mem # 0 /\ owner' = key.mem
               /\ changes' = IF owner \in {0, key.mem} THEN changes ELSE changes + 1
BY DEF Request, CanSign

LEMMA KeyNext ==
  ASSUME TypeOK, [Next]_vars
  PROVE  KeyTypes'
<1> USE DEF KeyTypes, Keyrings
<1>0. KeyTypes
  BY DEF TypeOK
<1>1. CASE Bootstrap
  <2>1. owner' = owner /\ changes' \in Nat /\ excused' \in Nat
    BY <1>0, <1>1, BootstrapKey
  <2>2. CASE key' = Saved
    BY <1>0, <2>1, <2>2, SavedKey
  <2>3. CASE key' = [key EXCEPT !.mem = key.made + 1, !.made = @ + 1]
    BY <1>0, <2>1, <2>3, UnsavedKey
  <2>4. CASE key' = [key EXCEPT !.force = FALSE]
    BY <1>0, <2>1, <2>4, StaticKey
  <2>5. CASE key' = key
    BY <1>0, <2>1, <2>5
  <2> QED
    BY <1>1, <2>2, <2>3, <2>4, <2>5, BootstrapKey
<1>2. CASE Request
  BY <1>0, <1>2, RequestKey
<1>3. CASE Restart
  <2>1. PICK m \in {key.disk, 0} :
          /\ key' = [key EXCEPT !.mem = m, !.force = key.flag]
          /\ excused' = IF key.flag \/ m # key.disk THEN excused + 1 ELSE excused
    BY <1>3 DEF Restart, Loaded
  <2>2. owner' = owner /\ changes' = changes
    BY <1>3 DEF Restart
  <2>3. m \in Nat /\ m <= key.made
    BY <1>0
  <2>4. key' \in Keyrings /\ key'.mem = m /\ key'.disk = key.disk /\ key'.made = key.made
    BY <1>0, <2>1, <2>3, LoadedKey
  <2> QED
    BY <1>0, <2>1, <2>2, <2>3, <2>4
<1> QED
  BY <1>0, <1>1, <1>2, <1>3, WhoChanges DEF keys

Proxies ==
  [running : BOOLEAN, port : Nat, backend : Names, jwt : Tokens, ctx : BOOLEAN]

(* What Reconfigure starts *)
LEMMA NewProxy ==
  ASSUME NEW n \in Nat, NEW url \in Names, NEW jwt \in Tokens, NEW p,
         p = [running |-> TRUE, port |-> n, backend |-> url, jwt |-> jwt, ctx |-> TRUE]
  PROVE  p \in Proxies /\ p.running = TRUE /\ p.backend = url /\ p.jwt = jwt
BY Zenon DEF Proxies

LEMMA ProxyNext ==
  ASSUME TypeOK, [Next]_vars
  PROVE  ProxyTypes'
<1>0. proxy \in Proxies /\ token \in Tokens /\ serverURL \in Names /\ proxy.port + 1 \in Nat
  BY DEF TypeOK, ProxyTypes, TokenTypes, Proxies
<1>1. CASE ProxyCancel
  BY <1>0, <1>1 DEF ProxyCancel, ProxyTypes, Proxies
<1>2. CASE ProxyShutdown
  BY <1>0, <1>2 DEF ProxyShutdown, ProxyTypes, Proxies
<1>3. CASE Reconfigure
  <2>1. CASE proxy' = [running |-> TRUE, port |-> proxy.port + 1, backend |-> serverURL,
                       jwt |-> token, ctx |-> TRUE]
    <3>1. proxy' \in Proxies
      BY <1>0, <2>1, NewProxy, Zenon
    <3> QED
      BY <3>1 DEF ProxyTypes, Proxies
  <2>2. CASE proxy' = proxy
    BY <1>0, <2>2 DEF ProxyTypes, Proxies
  <2> QED
    BY <1>3, <2>1, <2>2 DEF Reconfigure
<1>4. CASE Restart
  BY <1>0, <1>4, NoToken DEF Restart, ProxyTypes, Proxies
<1> QED
  BY <1>0, <1>1, <1>2, <1>3, <1>4, WhoChanges DEF ProxyTypes, Proxies

Channels == [open : BOOLEAN, box : Seq(Messages)]

(* What Broadcast puts into an empty channel *)
LEMMA NewMessage ==
  ASSUME TypeOK, NEW m, m = [token |-> token, url |-> GetServerUrl, at |-> sent + 1]
  PROVE  m \in Messages /\ m.at = sent + 1
<1>1. token \in Tokens /\ GetServerUrl \in Nat /\ sent + 1 \in Nat
  BY DEF TypeOK, TokenTypes, ProxyTypes, ChannelTypes, GetServerUrl
<1> QED
  BY <1>1, Zenon DEF Messages

LEMMA ChannelNext ==
  ASSUME TypeOK, [Next]_vars
  PROVE  ChannelTypes'
<1>0. channel \in Channels /\ Len(channel.box) <= 1 /\ sent \in Nat
  BY DEF TypeOK, ChannelTypes, Channels
<1>1. sent' \in Nat
  <2>1. sent' = sent \/ sent' = sent + 1 \/ sent' = 0
    BY WhoChanges, Zenon
    DEF Broadcast, GetBroadcastMessageChan, Drain, WaitBroadcast, Restart
  <2> QED
    BY <1>0, <2>1
<1>2. ASSUME NEW box \in Seq(Messages), Len(box) <= 1, NEW o \in BOOLEAN,
             channel' = [open |-> o, box |-> box]
      PROVE  ChannelTypes'
  <2>1. channel' \in Channels /\ channel'.box = box
    BY <1>2, Zenon DEF Channels
  <2> QED
    BY <1>1, <1>2, <2>1 DEF ChannelTypes, Channels
<1>3. channel = [open |-> channel.open, box |-> channel.box] /\ channel.open \in BOOLEAN
  BY <1>0 DEF Channels
<1>4. <<>> \in Seq(Messages) /\ Len(<<>>) <= 1
  BY EmptySeq
<1>5. CASE Broadcast /\ channel.open /\ channel.box = <<>>
  <2> DEFINE m == [token |-> token, url |-> GetServerUrl, at |-> sent + 1]
  <2>1. m \in Messages
    BY NewMessage
  <2>2. channel' = [channel EXCEPT !.box = <<m>>]
    BY <1>5 DEF Broadcast
  <2> HIDE DEF m
  <2>3. <<m>> \in Seq(Messages) /\ Len(<<m>>) <= 1
    BY <2>1
  <2>4. channel' = [open |-> channel.open, box |-> <<m>>]
    BY <1>0, <2>2, Zenon DEF Channels
  <2> QED
    BY <1>2, <1>3, <2>3, <2>4
<1>6. CASE channel' = [channel EXCEPT !.open = FALSE]
  BY <1>0, <1>1, <1>6 DEF ChannelTypes, Channels
<1>7. CASE channel' = [channel EXCEPT !.box = <<>>]
  <2>1. channel' = [open |-> channel.open, box |-> <<>>]
    BY <1>0, <1>7, Zenon DEF Channels
  <2> QED
    BY <1>2, <1>3, <1>4, <2>1
<1>8. CASE \E o \in BOOLEAN : channel' = [open |-> o, box |-> <<>>]
  BY <1>2, <1>4, <1>8
<1>9. CASE channel' = channel
  BY <1>0, <1>1, <1>9 DEF ChannelTypes, Channels
<1> QED
  BY <1>5, <1>6, <1>7, <1>8, <1>9, WhoChanges
  DEF Broadcast, GetBroadcastMessageChan, Drain, Drained, WaitBroadcast, Restart

(* What Authorize takes out of the channel *)
LEMMA TakenMessage ==
  ASSUME TypeOK, channel.box # <<>>
  PROVE  /\ Head(channel.box) = channel.box[1] /\ channel.box[1] \in Messages
         /\ Head(channel.box).token \in Tokens
         /\ Head(channel.box).url \in Nat /\ Head(channel.box).at \in Nat
<1>1. channel.box \in Seq(Messages)
  BY DEF TypeOK, ChannelTypes
<1>2. Head(channel.box) = channel.box[1] /\ channel.box[1] \in Messages
  BY <1>1
<1> QED
  BY <1>2 DEF Messages

LEMMA AgentNext ==
  ASSUME TypeOK, [Next]_vars
  PROVE  AgentTypes'
<1>0. AgentTypes /\ sent \in Nat
  BY DEF TypeOK, ChannelTypes
<1> USE DEF AgentTypes
<1>r. ASSUME Return
      PROVE  AgentTypes'
  BY <1>0, <1>r DEF Return
<1>1. CASE Send \/ Forward
  <2>1. CASE \E to \in {"forward", "authorize"} : AgentStep(to)
    BY <1>0, <2>1 DEF AgentStep
  <2> QED
    BY <1>1, <1>r, <2>1 DEF Send, Forward, Refused
<1>2. CASE GetBroadcastMessageChan \/ Drain \/ Ask \/ GetAnswer
  BY <1>0, <1>2 DEF GetBroadcastMessageChan, Drain, Ask, GetAnswer, AgentStep
<1>3. CASE WaitBroadcast
  <2>1. CASE ~Return
    BY <1>0, <1>3, <2>1, TakenMessage DEF WaitBroadcast
  <2> QED
    BY <1>r, <2>1
<1>4. CASE Do
  BY <1>0, <1>4 DEF Do
<1>5. CASE ClearAuthorization
  BY <1>0, <1>5, NoToken DEF ClearAuthorization
<1>6. CASE Restart
  BY <1>0, <1>6, NoToken DEF Restart
<1> QED
  BY <1>0, <1>1, <1>2, <1>3, <1>4, <1>5, <1>6, WhoChanges DEF Agent

LEMMA TypeNext ==
  ASSUME TypeOK, [Next]_vars
  PROVE  TypeOK'
<1>1. SocketTypes'
  <2> USE DEF TypeOK, SocketTypes
  <2>1. CASE CloseWsConnections
    BY <2>1 DEF CloseWsConnections
  <2>2. CASE Restart
    BY <2>2 DEF Restart
  <2>3. ASSUME NEW a \in Apps, Handler(a) \/ WsConnect(a) \/ WsStall(a) \/ WsClosed(a)
        PROVE  SocketTypes'
    BY <2>3 DEF Handler, WsDial, WsUpgrade, WsEnd, WsConnect, WsStall, WsClosed, SocketStep
  <2> QED
    BY <2>1, <2>2, <2>3, WhoChanges
<1> QED
  BY <1>1, ManagerNext, TokenNext, KeyNext, ProxyNext, ChannelNext, AgentNext DEF TypeOK

-----------------------------------------------------------------------------
(* Safety *)

LEMMA FreshNext ==
  ASSUME TypeOK, FreshAnswer, BoxIsFresh, [Next]_vars
  PROVE  FreshAnswer' /\ BoxIsFresh'
<1> USE DEF FreshAnswer, BoxIsFresh, TypeOK, AgentTypes, ChannelTypes
<1>1. CASE Broadcast
  BY <1>1 DEF Broadcast, client
<1>2. CASE Send \/ Forward
  BY <1>2 DEF Send, Forward, Refused, AgentStep, Return
<1>3. CASE GetBroadcastMessageChan
  BY <1>3 DEF GetBroadcastMessageChan
<1>4. CASE Drain
  BY <1>4 DEF Drain, Drained, AgentStep
<1>5. CASE Ask \/ GetAnswer
  BY <1>5 DEF Ask, GetAnswer, AgentStep
<1>6. CASE WaitBroadcast
  <2>1. channel.box # <<>> => Head(channel.box) = channel.box[1] /\ channel.box[1] \in Messages
    OBVIOUS
  <2> QED
    BY <1>6, <2>1 DEF WaitBroadcast, Return, Messages
<1>7. CASE Do \/ ClearAuthorization
  BY <1>7 DEF Do, ClearAuthorization
<1>8. CASE Restart
  BY <1>8 DEF Restart
<1> QED
  BY <1>1, <1>2, <1>3, <1>4, <1>5, <1>6, <1>7, <1>8, WhoChanges DEF Agent

LEMMA ProxyFollowsNext ==
  ASSUME TypeOK, ProxyFollows, [Next]_vars
  PROVE  ProxyFollows'
<1>0. /\ proxy \in Proxies /\ token \in Tokens /\ serverURL \in Names /\ proxy.port + 1 \in Nat
      /\ serverURL = token.from /\ proxy.backend = proxy.jwt.from
  BY DEF TypeOK, ProxyTypes, TokenTypes, Proxies, ProxyFollows
<1>1. CASE TakeRequest \/ Bootstrap
  BY <1>1 DEF TakeRequest, Bootstrap, tokens, ProxyFollows
<1>2. CASE Request
  <2>1. serverURL' = token'.from
    BY <1>0, <1>2, RequestTokens, NoToken DEF tokens
  <2> QED
    BY <1>2, <2>1 DEF Request, Done, ProxyFollows
<1>3. CASE ProxyCancel
  BY <1>0, <1>3 DEF ProxyCancel, tokens, ProxyFollows, Proxies
<1>4. CASE HelperHangs \/ WsRunning \/ CloseWsConnections
  BY <1>4 DEF HelperHangs, WsRunning, CloseWsConnections, tokens, ProxyFollows
<1>5. CASE ProxyShutdown
  BY <1>0, <1>5 DEF ProxyShutdown, tokens, ProxyFollows, Proxies
<1>6. CASE Reconfigure
  <2>1. token' = token /\ serverURL' = serverURL /\ worker' = "broadcast"
    BY <1>6 DEF Reconfigure, tokens
  <2>2. CASE UNCHANGED proxy
    BY <1>0, <1>6, <2>1, <2>2 DEF Reconfigure, ProxyFollows
  <2>3. CASE token # None /\ ~UNCHANGED proxy
    <3>1. proxy'.backend = serverURL /\ proxy'.jwt = token
      <4>1. proxy' = [running |-> TRUE, port |-> proxy.port + 1, backend |-> serverURL,
                      jwt |-> token, ctx |-> TRUE]
        BY <1>6, <2>3 DEF Reconfigure
      <4> QED
        BY <1>0, <4>1, NewProxy, Zenon
    <3> QED
      BY <1>0, <2>1, <2>3, <3>1 DEF ProxyFollows
  <2> QED
    BY <1>6, <2>2, <2>3 DEF Reconfigure
<1>7. CASE Broadcast
  BY <1>7 DEF Broadcast, tokens, ProxyFollows
<1>8. CASE Restart
  BY <1>0, <1>8, NoToken DEF Restart, ProxyFollows, Proxies
<1> QED
  BY <1>1, <1>2, <1>3, <1>4, <1>5, <1>6, <1>7, <1>8, WhoChanges
  DEF Worker, tokens, ProxyFollows

LEMMA AccountNext ==
  ASSUME TypeOK, KeyAccount, [Next]_vars
  PROVE  KeyAccount'
<1> USE DEF KeyAccount, Pending, OtherKey
<1>0. /\ KeyTypes /\ key.mem \in Nat /\ key.disk \in Nat /\ key.made \in Nat
      /\ key.mem <= key.made /\ key.disk <= key.made /\ owner \in 0..key.made
      /\ changes \in Nat /\ excused \in Nat
      /\ key.static \in BOOLEAN /\ key.force \in BOOLEAN /\ key.flag \in BOOLEAN
  BY DEF TypeOK, KeyTypes
<1>1. CASE Bootstrap
  <2>0. owner' = owner /\ changes' = changes
    BY <1>1, BootstrapKey
  <2>1. CASE ~NeedsBootstrap /\ key' = key /\ excused' = excused
    BY <1>0, <2>0, <2>1 DEF NeedsBootstrap
  <2>2. CASE key.static /\ key' = [key EXCEPT !.force = FALSE] /\ excused' = excused
    BY <1>0, <2>0, <2>2, StaticKey
  <2>3. CASE NeedsBootstrap /\ ~key.static /\ key' = Saved /\ excused' = excused
    <3>1. /\ key'.mem = key.made + 1 /\ key'.disk = key'.mem
          /\ key'.force = FALSE /\ key'.static = key.static
      BY <1>0, <2>3, SavedKey
    <3>2. owner # key'.mem /\ key'.mem # 0
      BY <1>0, <3>1
    <3> QED
      BY <1>0, <2>0, <2>3, <3>1, <3>2 DEF NeedsBootstrap
  <2>4. CASE key' = key /\ excused' = excused /\ worker' = "cancel"
    BY <1>0, <2>0, <2>4
  <2>5. CASE /\ NeedsBootstrap /\ ~key.static /\ worker' = "cancel"
             /\ key' = [key EXCEPT !.mem = key.made + 1, !.made = @ + 1]
             /\ excused' = excused + 1
    BY <1>0, <2>0, <2>5, UnsavedKey DEF NeedsBootstrap
  <2> QED
    BY <1>1, <2>1, <2>2, <2>3, <2>4, <2>5, BootstrapKey
<1>2. CASE Request
  <2>1. worker = "request" /\ ~key.force
    BY <1>2 DEF Request
  <2> QED
    BY <1>0, <1>2, <2>1, RequestKey
<1>3. CASE Restart
  <2>1. PICK m \in {key.disk, 0} :
          /\ key' = [key EXCEPT !.mem = m, !.force = key.flag]
          /\ excused' = IF key.flag \/ m # key.disk THEN excused + 1 ELSE excused
    BY <1>3 DEF Restart, Loaded
  <2>2. owner' = owner /\ changes' = changes /\ worker' = "idle"
    BY <1>3 DEF Restart
  <2>3. /\ key'.mem = m /\ key'.disk = key.disk /\ key'.static = key.static
        /\ key'.force = key.flag /\ key'.flag = key.flag
    <3>1. m \in Nat
      BY <1>0
    <3> QED
      BY <1>0, <2>1, <3>1, LoadedKey
  <2> QED
    BY <1>0, <2>1, <2>2, <2>3
<1>4. CASE UNCHANGED keys /\ ~Request /\ ~Bootstrap
  <2>1. worker' = "request" => worker = "request"
    BY <1>4, WhoChanges
    DEF Worker, TakeRequest, HelperHangs, ProxyCancel, WsRunning,
        CloseWsConnections, ProxyShutdown, Reconfigure, Broadcast, Restart
  <2> QED
    BY <1>4, <2>1 DEF keys
<1> QED
  BY <1>1, <1>2, <1>3, <1>4, WhoChanges

-----------------------------------------------------------------------------

LEMMA InitInv == Init => AuthInv
<1> SUFFICES ASSUME Init
             PROVE  AuthInv
  OBVIOUS
<1>1. ManagerTypes /\ TokenTypes
  <2>1. inChan = <<>> /\ inChan \in Seq({"agent", "dbus"})
    BY EmptySeq DEF Init
  <2> QED
    BY <2>1, NoToken DEF Init, ManagerTypes, TokenTypes
<1>2. KeyTypes /\ KeyAccount
  <2>1. PICK k \in {0, 1}, f \in BOOLEAN, st \in BOOLEAN :
          /\ key = [mem |-> k, disk |-> k, static |-> st, force |-> f, flag |-> f, made |-> k]
          /\ excused = IF f THEN 1 ELSE 0
    BY DEF Init
  <2>2. /\ key \in Keyrings /\ key.mem = k /\ key.disk = k /\ key.made = k
        /\ key.force = key.flag
    BY <2>1 DEF Keyrings
  <2>3. owner = 0 /\ changes = 0 /\ worker = "idle" /\ excused \in Nat
    BY <2>1 DEF Init
  <2> QED
    BY <2>2, <2>3 DEF KeyTypes, Keyrings, KeyAccount, Pending, OtherKey
<1>3. ProxyTypes /\ AgentTypes
  BY NoToken DEF Init, ProxyTypes, AgentTypes
<1>4. ChannelTypes
  <2>1. channel.box = <<>>
    BY DEF Init
  <2>2. <<>> \in Seq(Messages) /\ Len(<<>>) <= 1
    BY EmptySeq
  <2>3. channel.box \in Seq(Messages) /\ Len(channel.box) <= 1
    BY <2>1, <2>2
  <2> QED
    BY <2>3 DEF Init, ChannelTypes
<1>5. FreshAnswer /\ BoxIsFresh
  BY DEF Init, FreshAnswer, BoxIsFresh
<1>6. ProxyFollows
  BY NoToken DEF Init, ProxyFollows
<1>7. SocketTypes
  BY DEF Init, SocketTypes
<1> QED
  BY <1>1, <1>2, <1>3, <1>4, <1>5, <1>6, <1>7 DEF AuthInv, TypeOK

(* AuthInv is inductive.  FreshAnswer needs to know what may be in the     *)
(* channel while Authorize waits, ProxyAgrees what the proxy has between   *)
(* the steps of a broadcast, and OneIdentity which changes are still to    *)
(* come: a restart after a failed Save finds the old key on the disk.      *)
THEOREM InductiveInvariant == Spec => []AuthInv
<1>1. AuthInv /\ [Next]_vars => AuthInv'
  BY TypeNext, FreshNext, ProxyFollowsNext, AccountNext DEF AuthInv
<1> QED
  BY <1>1, InitInv, PTL DEF Spec

(* The types of manager, key, proxy, broadcast channel and agent, for any  *)
(* list of servers, the empty one included: the worker asks only servers   *)
(* that are configured, and has at most one request waiting.               *)
THEOREM TypeCorrect == Spec => []TypeOK
<1>1. AuthInv => TypeOK
  BY DEF AuthInv
<1> QED
  BY <1>1, InductiveInvariant, PTL

(* Authorize never repeats a request with a token that was broadcast       *)
(* before it began, however many programs ask for tokens meanwhile.        *)
THEOREM AnswersAreFresh == Spec => []FreshAnswer
<1>1. AuthInv => FreshAnswer
  BY DEF AuthInv
<1> QED
  BY <1>1, InductiveInvariant, PTL

(* Between two fetches a running proxy forwards for the manager's token to *)
(* the server that issued it.                                              *)
THEOREM ProxyIsInStep == Spec => []ProxyAgrees
<1>1. AuthInv => ProxyAgrees
  BY DEF AuthInv, ProxyFollows, ProxyAgrees
<1> QED
  BY <1>1, InductiveInvariant, PTL

(* However often the process restarts, each failed Save, each failed Load  *)
(* and each start with --forcebootstrap changes the key the server knows   *)
(* the device by at most once, nothing else does, and a static key stays.  *)
THEOREM IdentityIsKept == Spec => []OneIdentity
<1>1. AuthInv => OneIdentity
  <2> SUFFICES ASSUME AuthInv
               PROVE  OneIdentity
    OBVIOUS
  <2>1. Pending \in Nat /\ changes \in Nat /\ excused \in Nat
    BY DEF AuthInv, TypeOK, KeyTypes, Pending, OtherKey
  <2> QED
    BY <2>1 DEF AuthInv, KeyAccount, OneIdentity
<1> QED
  BY <1>1, InductiveInvariant, PTL

=============================================================================
