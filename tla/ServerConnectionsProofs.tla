---------------------- MODULE ServerConnectionsProofs ----------------------
(***************************************************************************)
(* Proofs about modules Handshake and ServerConnections, for any number of *)
(* connections, any users and addresses and any limits: the two ends of a  *)
(* handshake agree, every pending connection holds one token, and the      *)
(* cache of traffic counters is exact.                                     *)
(***************************************************************************)
EXTENDS ServerConnections, FiniteSetTheorems, TLAPS

-----------------------------------------------------------------------------
(* The handshake.                                                          *)

LEMMA ShortSequences ==
  /\ \A m : Head(<<m>>) = m /\ Tail(<<m>>) = <<>>
  /\ \A m, n : Head(<<m, n>>) = m /\ Tail(<<m, n>>) = <<n>>
  /\ \A m : <<>> \o <<m>> = <<m>>
  /\ \A m, n : <<>> \o <<m, n>> = <<m, n>>
OBVIOUS

LEMMA Messages ==
  /\ \A auth \in BOOLEAN : Preface(auth) \in Message
  /\ Challenge \in Message
  /\ \A cred \in Credential : Response(cred) \in Message
  /\ \A ok \in BOOLEAN, key \in Credential : Result(ok, key) \in Message
  /\ \A m \in Message : m.type = "result" => m.ok \in BOOLEAN
<1>1. \A m : m \in Message <=>
        \/ \E auth \in BOOLEAN : m = Preface(auth)
        \/ m = Challenge
        \/ \E cred \in Credential : m = Response(cred)
        \/ \E ok \in BOOLEAN, key \in Credential : m = Result(ok, key)
  BY DEF Message
<1>2. ASSUME NEW m \in Message, m.type = "result"
      PROVE  m.ok \in BOOLEAN
  <2>1. PICK ok \in BOOLEAN, key \in Credential : m = Result(ok, key)
    BY <1>1, <1>2 DEF Preface, Challenge, Response
  <2> QED BY <2>1 DEF Result
<1> QED BY <1>1, <1>2

LEMMA ShortMessages ==
  /\ <<>> \in Seq(Message)
  /\ \A m \in Message : <<m>> \in Seq(Message)
  /\ \A m, n \in Message : <<m, n>> \in Seq(Message)
  /\ \A q \in Seq(Message) : q # <<>> => /\ Tail(q) \in Seq(Message) /\ Head(q) \in Message
                                         /\ Len(q) \in Nat /\ Head(q) = q[1]
                                         /\ 1 \in 1 .. Len(q)
                                         /\ \A i \in 1 .. Len(Tail(q)) :
                                              Tail(q)[i] = q[i + 1] /\ i + 1 \in 1 .. Len(q)
  /\ Len(<<>>) = 0
  /\ \A m : Len(<<m>>) = 1 /\ <<m>>[1] = m /\ <<m>> # <<>>
  /\ \A m, n : <<m, n>> # <<>>
OBVIOUS

\* What a step on connection c must preserve.
LEMMA ExchangeByConn ==
  ASSUME ExchangeInv, NEW c \in Conn, HandshakeTypeOK',
         UNCHANGED <<required, credentials>>,
         \A d \in Conn \ {c} :
           /\ client'[d] = client[d] /\ server'[d] = server[d] /\ principal'[d] = principal[d]
           /\ toServer'[d] = toServer[d] /\ toClient'[d] = toClient[d]
           /\ closedEnds'[d] = closedEnds[d],
         ServerKnows(c)', ClientKnows(c)',
         client'[c] \in {"session", "closed"} =>
           server'[c] = "session" /\ required = (credentials[c] # {})
  PROVE  ExchangeInv'
<1>1. ASSUME NEW d \in Conn
      PROVE  /\ ServerKnows(d)' /\ ClientKnows(d)'
             /\ \A x, y \in credentials'[d] : x = y
             /\ server'[d] = "session" =>
                  IF required' THEN principal'[d] = credentials'[d] /\ principal'[d] # {}
                               ELSE principal'[d] = {}
             /\ client'[d] \in {"session", "closed"} =>
                  server'[d] = "session" /\ required' = (credentials'[d] # {})
  <2>1. CASE d = c
    <3>1. ServerKnows(d)'
      BY <2>1 DEF ServerKnows
    <3>2. ClientKnows(d)'
      BY <2>1 DEF ClientKnows
    <3> QED BY <2>1, <3>1, <3>2 DEF ExchangeInv, ServerKnows
  <2>2. CASE d # c
    <3>1. ServerKnows(d)'
      <4>1. ServerKnows(d)
        BY DEF ExchangeInv
      <4>2. /\ server'[d] = server[d] /\ principal'[d] = principal[d]
            /\ toServer'[d] = toServer[d]
            /\ required' = required /\ credentials' = credentials
        BY <2>2
      <4>3. server'[d] \in {"idle", "preface"} =>
              principal'[d] = {} /\ toServer'[d] \in {<<>>, <<Preface(FALSE)>>}
        BY <4>1, <4>2 DEF ServerKnows
      <4>4. server'[d] = "response" =>
              /\ required' /\ principal'[d] = {}
              /\ \A i \in 1 .. Len(toServer'[d]) :
                   \E cred \in credentials'[d] : toServer'[d][i] = Response(cred)
        BY <4>1, <4>2 DEF ServerKnows
      <4>5. server'[d] = "session" =>
              /\ required' => principal'[d] = credentials'[d] /\ principal'[d] # {}
              /\ ~required' => principal'[d] = {}
        BY <4>1, <4>2 DEF ServerKnows
      <4> QED BY <4>3, <4>4, <4>5 DEF ServerKnows
    <3>2. ClientKnows(d)'
      <4>1. ClientKnows(d)
        BY DEF ExchangeInv
      <4> QED BY ZenonT(30), <2>2, <4>1 DEF ClientKnows
    <3> QED BY <2>2, <3>1, <3>2 DEF ExchangeInv, Agreement
  <2> QED BY <2>1, <2>2
<1> QED BY <1>1 DEF ExchangeInv, Agreement

\* What closing an end and sending a message change.
LEMMA CloseClientFacts ==
  ASSUME HandshakeTypeOK, NEW c \in Conn, CloseClient(c)
  PROVE  /\ toClient' \in [Conn -> Seq(Message)]
         /\ closedEnds' \in [Conn -> SUBSET {"client", "server"}]
         /\ toClient'[c] = <<>> /\ closedEnds'[c] = closedEnds[c] \cup {"client"}
         /\ \A d \in Conn \ {c} : toClient'[d] = toClient[d] /\ closedEnds'[d] = closedEnds[d]
<1>1. PICK ends : ends = closedEnds[c] \cup {"client"}
  OBVIOUS
<1>2. ends \in SUBSET {"client", "server"} /\ <<>> \in Seq(Message)
  BY <1>1, ShortMessages DEF HandshakeTypeOK
<1>3. closedEnds' = [closedEnds EXCEPT ![c] = ends] /\ toClient' = [toClient EXCEPT ![c] = <<>>]
  BY <1>1 DEF CloseClient
<1> QED BY <1>1, <1>2, <1>3 DEF HandshakeTypeOK

LEMMA CloseServerFacts ==
  ASSUME HandshakeTypeOK, NEW c \in Conn, CloseServer(c)
  PROVE  /\ toServer' \in [Conn -> Seq(Message)]
         /\ closedEnds' \in [Conn -> SUBSET {"client", "server"}]
         /\ toServer'[c] = <<>> /\ closedEnds'[c] = closedEnds[c] \cup {"server"}
         /\ \A d \in Conn \ {c} : toServer'[d] = toServer[d] /\ closedEnds'[d] = closedEnds[d]
<1>1. PICK ends : ends = closedEnds[c] \cup {"server"}
  OBVIOUS
<1>2. ends \in SUBSET {"client", "server"} /\ <<>> \in Seq(Message)
  BY <1>1, ShortMessages DEF HandshakeTypeOK
<1>3. closedEnds' = [closedEnds EXCEPT ![c] = ends] /\ toServer' = [toServer EXCEPT ![c] = <<>>]
  BY <1>1 DEF CloseServer
<1> QED BY <1>1, <1>2, <1>3 DEF HandshakeTypeOK

LEMMA DialKeeps ==
  ASSUME ExchangeInv, NEW c \in Conn, Dial(c)
  PROVE  ExchangeInv'
<1>1. /\ toServer'[c] \in {<<>>, <<Preface(FALSE)>>}
      /\ \A d \in Conn \ {c} : toServer'[d] = toServer[d]
      /\ toServer' \in [Conn -> Seq(Message)]
  <2>1. client[c] = "idle" /\ toServer[c] = <<>> /\ toServer \in [Conn -> Seq(Message)]
    BY DEF ExchangeInv, HandshakeTypeOK, ClientKnows, Dial
  <2>2. <<Preface(FALSE)>> \in Seq(Message)
    BY Messages, ShortMessages
  <2>3. toServer[c] \o <<Preface(FALSE)>> = <<Preface(FALSE)>>
    BY <2>1, ShortSequences
  <2>4. \/ toServer' = toServer
        \/ toServer' = [toServer EXCEPT ![c] = toServer[c] \o <<Preface(FALSE)>>]
    BY DEF Dial, Sent
  <2> QED BY <2>1, <2>2, <2>3, <2>4
<1>2. HandshakeTypeOK'
  BY <1>1 DEF ExchangeInv, HandshakeTypeOK, Dial
<1>3. ServerKnows(c)' /\ ClientKnows(c)' /\ client'[c] = "preface"
  BY <1>1 DEF ExchangeInv, HandshakeTypeOK, Dial, ServerKnows, ClientKnows
<1> QED BY <1>1, <1>2, <1>3, ExchangeByConn DEF Dial, ExchangeInv, HandshakeTypeOK

\* The client takes a message and waits for the next one, or for nothing.
LEMMA ClientReadsPrefaceKeeps ==
  ASSUME ExchangeInv, NEW c \in Conn, ClientReadsPreface(c)
  PROVE  ExchangeInv'
<1>1. /\ client[c] = "preface" /\ toClient[c] # <<>> /\ toClient[c] \in Seq(Message)
      /\ "client" \notin closedEnds[c] /\ credentials[c] \subseteq Credential
      /\ ClientKnows(c) /\ ServerKnows(c) /\ HandshakeTypeOK
  BY DEF ExchangeInv, HandshakeTypeOK, ClientKnows, ClientReadsPreface, ClientTakes
<1>2. \/ /\ toClient[c] = <<Preface(TRUE), Challenge>> /\ required
         /\ server[c] \in {"response", "failed"}
         /\ server[c] = "response" => toServer[c] = <<>>
      \/ toClient[c] = <<Preface(FALSE)>> /\ ~required /\ server[c] = "session"
  <2>1. server[c] \in {"response", "session", "failed"}
    BY <1>1 DEF HandshakeTypeOK, ClientKnows
  <2>2. CASE server[c] = "response"
    <3>1. required
      BY <1>1, <2>2 DEF ServerKnows
    <3>2. toClient[c] = <<Preface(TRUE), Challenge>> /\ toServer[c] = <<>>
      BY <1>1, <2>2 DEF ClientKnows
    <3> QED BY <2>2, <3>1, <3>2
  <2>3. CASE server[c] = "session"
    BY <1>1, <2>3 DEF ClientKnows
  <2>4. CASE server[c] = "failed"
    BY <1>1, <2>4 DEF ClientKnows
  <2> QED BY <2>1, <2>2, <2>3, <2>4
<1>3. /\ required => Head(toClient[c]) = Preface(TRUE) /\ Tail(toClient[c]) = <<Challenge>>
      /\ ~required => Head(toClient[c]) = Preface(FALSE) /\ Tail(toClient[c]) = <<>>
  BY <1>2, ShortSequences
<1> DEFINE next == AfterPreface(c, Head(toClient[c]).auth)
<1>4. /\ required => next = IF credentials[c] = {} THEN "failed" ELSE "challenge"
      /\ ~required => next = IF credentials[c] = {} THEN "session" ELSE "failed"
  <2>1. CASE required
    <3>1. Head(toClient[c]).auth = TRUE
      BY <1>3, <2>1 DEF Preface
    <3>2. AfterPreface(c, TRUE) = IF credentials[c] = {} THEN "failed" ELSE "challenge"
      BY DEF AfterPreface
    <3> QED BY <2>1, <3>1, <3>2
  <2>2. CASE ~required
    <3>1. Head(toClient[c]).auth = FALSE
      BY <1>3, <2>2 DEF Preface
    <3>2. AfterPreface(c, FALSE) = IF credentials[c] = {} THEN "session" ELSE "failed"
      BY DEF AfterPreface
    <3> QED BY <2>2, <3>1, <3>2
  <2> QED BY <2>1, <2>2
<1>5. \/ next = "failed"
      \/ next = "challenge" /\ required /\ credentials[c] # {}
      \/ next = "session" /\ ~required /\ credentials[c] = {}
  BY <1>4
<1>6. /\ client' = [client EXCEPT ![c] = next]
      /\ UNCHANGED <<required, credentials, server, principal, toServer>>
      /\ next = "failed" => /\ closedEnds' = [closedEnds EXCEPT ![c] = @ \cup {"client"}]
                            /\ toClient' = [toClient EXCEPT ![c] = <<>>]
      /\ next # "failed" => /\ closedEnds' = closedEnds
                            /\ toClient' = [toClient EXCEPT ![c] = Tail(@)]
  BY DEF ClientReadsPreface, ClientTakes, CloseClient
<1> HIDE DEF next
<1>7. /\ Tail(toClient[c]) \in Seq(Message) /\ <<>> \in Seq(Message)
  BY <1>1, ShortMessages
<1>8. HandshakeTypeOK'
  <2>1. next \in {"failed", "challenge", "session"}
    BY <1>5
  <2>2. client' \in [Conn -> {"idle", "preface", "challenge", "result", "session",
                              "failed", "closed"}]
    BY <1>1, <1>6, <2>1 DEF HandshakeTypeOK
  <2>3. toClient' \in [Conn -> Seq(Message)] /\ closedEnds' \in [Conn -> SUBSET {"client", "server"}]
    <3>1. CASE next = "failed"
      BY <1>1, <1>6, <3>1, CloseClientFacts DEF CloseClient
    <3>2. CASE next # "failed"
      BY ZenonT(30), <1>1, <1>6, <1>7, <3>2 DEF HandshakeTypeOK
    <3> QED BY <3>1, <3>2
  <2> QED BY <1>1, <1>6, <2>2, <2>3 DEF HandshakeTypeOK
<1>9. ServerKnows(c)'
  BY <1>1, <1>6 DEF ServerKnows
<1>10. ClientKnows(c)'
  <2>1. client'[c] = next
    BY <1>6, <1>1 DEF HandshakeTypeOK
  <2>2. CASE next = "failed"
    <3>1. "client" \in closedEnds'[c]
      BY <1>1, <1>6, <2>2 DEF HandshakeTypeOK
    <3> QED BY <2>1, <2>2, <3>1 DEF ClientKnows
  <2>3. CASE next = "challenge"
    <3>1. /\ toClient'[c] = <<Challenge>> /\ closedEnds'[c] = closedEnds[c]
          /\ server'[c] = server[c] /\ toServer'[c] = toServer[c] /\ required'
      BY <1>1, <1>3, <1>5, <1>6, <2>3 DEF HandshakeTypeOK
    <3> QED BY <1>1, <1>2, <1>5, <2>1, <2>3, <3>1 DEF ClientKnows
  <2>4. CASE next = "session"
    <3>1. closedEnds'[c] = closedEnds[c]
      BY <1>6, <2>4
    <3> QED BY <1>1, <2>1, <2>4, <3>1 DEF ClientKnows
  <2> QED BY <1>5, <2>2, <2>3, <2>4
<1>11. client'[c] \in {"session", "closed"} =>
         server'[c] = "session" /\ required = (credentials[c] # {})
  BY <1>1, <1>2, <1>5, <1>6 DEF HandshakeTypeOK
<1> QED BY <1>6, <1>8, <1>9, <1>10, <1>11, ExchangeByConn DEF ExchangeInv, HandshakeTypeOK

LEMMA ClientAnswersKeeps ==
  ASSUME ExchangeInv, NEW c \in Conn, ClientAnswers(c)
  PROVE  ExchangeInv'
<1>1. /\ client[c] = "challenge" /\ required /\ server[c] \in {"response", "failed"}
      /\ toClient[c] = <<Challenge>> /\ toClient \in [Conn -> Seq(Message)]
      /\ server[c] = "response" => toServer[c] = <<>>
      /\ "client" \notin closedEnds[c] /\ credentials[c] \subseteq Credential
      /\ ServerKnows(c) /\ HandshakeTypeOK
  BY DEF ExchangeInv, HandshakeTypeOK, ClientKnows, ClientAnswers
<1>2. PICK cred \in credentials[c] : toServer' = Sent(toServer, "server", c, <<Response(cred)>>)
  BY DEF ClientAnswers
<1>3. /\ client' = [client EXCEPT ![c] = "result"]
      /\ toClient' = [toClient EXCEPT ![c] = <<>>]
      /\ UNCHANGED <<required, credentials, server, principal, closedEnds>>
  BY <1>1, ShortSequences DEF ClientAnswers, ClientTakes
<1>4. /\ toServer' \in [Conn -> Seq(Message)]
      /\ \A d \in Conn \ {c} : toServer'[d] = toServer[d]
      /\ server[c] = "response" => toServer'[c] \in {<<>>, <<Response(cred)>>}
  <2>1. Response(cred) \in Message /\ <<Response(cred)>> \in Seq(Message)
    BY <1>1, Messages, ShortMessages
  <2>2. toServer \in [Conn -> Seq(Message)] /\ toServer[c] \o <<Response(cred)>> \in Seq(Message)
    BY <1>1, <2>1 DEF HandshakeTypeOK
  <2>3. server[c] = "response" => toServer[c] \o <<Response(cred)>> = <<Response(cred)>>
    BY <1>1, ShortSequences
  <2>4. \/ toServer' = toServer
        \/ toServer' = [toServer EXCEPT ![c] = toServer[c] \o <<Response(cred)>>]
    BY <1>2 DEF Sent
  <2> QED BY <1>1, <2>2, <2>3, <2>4
<1>5. <<>> \in Seq(Message) /\ Len(<<>>) = 0
      /\ Len(<<Response(cred)>>) = 1 /\ <<Response(cred)>>[1] = Response(cred)
  BY ShortMessages
<1>6. HandshakeTypeOK'
  BY <1>1, <1>3, <1>4, <1>5 DEF HandshakeTypeOK
<1>7. client'[c] = "result" /\ toClient'[c] = <<>> /\ server'[c] = server[c]
      /\ closedEnds'[c] = closedEnds[c] /\ credentials'[c] = credentials[c] /\ principal'[c] = principal[c]
      /\ required'
  BY <1>1, <1>3 DEF HandshakeTypeOK
<1>8. ServerKnows(c)'
  <2>1. CASE server[c] = "response"
    <3>1. \A i \in 1 .. Len(toServer'[c]) : toServer'[c][i] = Response(cred)
      BY <1>4, <1>5, <2>1
    <3>2. principal[c] = {}
      BY <1>1, <2>1 DEF ServerKnows
    <3> QED BY <1>7, <2>1, <3>1, <3>2 DEF ServerKnows
  <2>2. CASE server[c] = "failed"
    BY <1>7, <2>2 DEF ServerKnows
  <2> QED BY <1>1, <2>1, <2>2
<1>9. ClientKnows(c)'
  BY <1>1, <1>2, <1>5, <1>7 DEF ClientKnows
<1>10. client'[c] \notin {"session", "closed"}
  BY <1>7
<1> QED BY <1>3, <1>4, <1>6, <1>8, <1>9, <1>10, ExchangeByConn DEF ExchangeInv, HandshakeTypeOK

LEMMA ClientReadsResultKeeps ==
  ASSUME ExchangeInv, NEW c \in Conn, ClientReadsResult(c)
  PROVE  ExchangeInv'
<1>1. /\ client[c] = "result" /\ required /\ credentials[c] # {}
      /\ toClient[c] # <<>> /\ toClient[c] \in Seq(Message)
      /\ "client" \notin closedEnds[c] /\ ServerKnows(c) /\ HandshakeTypeOK
      /\ \A i \in 1 .. Len(toClient[c]) : toClient[c][i].ok => server[c] = "session"
  BY DEF ExchangeInv, HandshakeTypeOK, ClientKnows, ClientReadsResult, ClientTakes
<1>2. Head(toClient[c]).ok => server[c] = "session"
  BY <1>1, ShortMessages
<1>3. PICK next \in {"session", "failed"} :
        /\ next = "session" => server[c] = "session"
        /\ client' = [client EXCEPT ![c] = next]
        /\ next = "failed" => CloseClient(c)
        /\ next = "session" => /\ closedEnds' = closedEnds
                               /\ toClient' = [toClient EXCEPT ![c] = Tail(@)]
  BY <1>2 DEF ClientReadsResult, ClientTakes
<1>4. UNCHANGED <<required, credentials, server, principal, toServer>>
  BY DEF ClientReadsResult, ClientTakes
<1>5. /\ toClient' \in [Conn -> Seq(Message)]
      /\ closedEnds' \in [Conn -> SUBSET {"client", "server"}]
      /\ closedEnds'[c] = IF next = "failed" THEN closedEnds[c] \cup {"client"} ELSE closedEnds[c]
      /\ \A d \in Conn \ {c} : toClient'[d] = toClient[d] /\ closedEnds'[d] = closedEnds[d]
  <2>1. CASE next = "failed"
    BY <1>1, <1>3, <2>1, CloseClientFacts
  <2>2. CASE next = "session"
    <3>1. Tail(toClient[c]) \in Seq(Message)
      BY <1>1, ShortMessages
    <3> QED BY ZenonT(30), <1>1, <1>3, <2>2, <3>1 DEF HandshakeTypeOK
  <2> QED BY <2>1, <2>2
<1>6. HandshakeTypeOK'
  BY <1>1, <1>3, <1>4, <1>5 DEF HandshakeTypeOK
<1>7. client'[c] = next /\ server'[c] = server[c]
  BY <1>1, <1>3, <1>4 DEF HandshakeTypeOK
<1>8. ServerKnows(c)'
  BY <1>1, <1>4 DEF ServerKnows
<1>9. ClientKnows(c)'
  BY <1>1, <1>5, <1>7 DEF ClientKnows
<1> QED BY <1>1, <1>3, <1>4, <1>5, <1>6, <1>7, <1>8, <1>9, ExchangeByConn DEF ExchangeInv, HandshakeTypeOK

\* The client gives up, or ends its session.
LEMMA ClientEndsKeeps ==
  ASSUME ExchangeInv, NEW c \in Conn, NEW how \in {"failed", "closed"}, ClientEnds(c, how),
         how = "closed" => client[c] = "session"
  PROVE  ExchangeInv'
<1>1. HandshakeTypeOK /\ ServerKnows(c) /\ Agreement
  BY DEF ExchangeInv
<1>2. /\ client' = [client EXCEPT ![c] = how] /\ CloseClient(c)
      /\ UNCHANGED <<required, credentials, server, principal, toServer>>
  BY DEF ClientEnds
<1>3. /\ toClient' \in [Conn -> Seq(Message)]
      /\ closedEnds' \in [Conn -> SUBSET {"client", "server"}]
      /\ closedEnds'[c] = closedEnds[c] \cup {"client"}
      /\ \A d \in Conn \ {c} : toClient'[d] = toClient[d] /\ closedEnds'[d] = closedEnds[d]
  BY <1>1, <1>2, CloseClientFacts
<1>4. HandshakeTypeOK'
  BY <1>1, <1>2, <1>3 DEF HandshakeTypeOK
<1>5. client'[c] = how /\ server'[c] = server[c]
  BY <1>1, <1>2 DEF HandshakeTypeOK
<1>6. ServerKnows(c)'
  BY <1>1, <1>2 DEF ServerKnows
<1>7. ClientKnows(c)'
  BY <1>3, <1>5 DEF ClientKnows
<1>8. client'[c] \in {"session", "closed"} =>
        server'[c] = "session" /\ required = (credentials[c] # {})
  BY <1>1, <1>5 DEF Agreement
<1> QED BY <1>1, <1>2, <1>3, <1>4, <1>6, <1>7, <1>8, ExchangeByConn DEF HandshakeTypeOK

LEMMA ServerStartsKeeps ==
  ASSUME ExchangeInv, NEW c \in Conn, ServerStarts(c)
  PROVE  ExchangeInv'
<1>1. HandshakeTypeOK /\ ServerKnows(c) /\ ClientKnows(c) /\ Agreement /\ server[c] = "idle"
  BY DEF ExchangeInv, ServerStarts
<1>2. /\ server' = [server EXCEPT ![c] = "preface"]
      /\ UNCHANGED <<required, credentials, client, principal, toServer, toClient, closedEnds>>
  BY DEF ServerStarts
<1>3. HandshakeTypeOK' /\ server'[c] = "preface"
  BY <1>1, <1>2 DEF HandshakeTypeOK
<1>4. ServerKnows(c)'
  BY <1>1, <1>2, <1>3 DEF ServerKnows
<1>5. ClientKnows(c)'
  <2>1. client[c] \in {"idle", "preface", "failed", "closed"}
    BY <1>1 DEF ClientKnows, HandshakeTypeOK, Agreement
  <2> QED BY <1>1, <1>2, <1>3, <2>1 DEF ClientKnows
<1>6. client'[c] \in {"session", "closed"} =>
        server'[c] = "session" /\ required = (credentials[c] # {})
  BY <1>1, <1>2 DEF Agreement
<1> QED BY <1>1, <1>2, <1>3, <1>4, <1>5, <1>6, ExchangeByConn DEF HandshakeTypeOK

LEMMA ServerReadsPrefaceKeeps ==
  ASSUME ExchangeInv, NEW c \in Conn, ServerReadsPreface(c)
  PROVE  ExchangeInv'
<1> DEFINE answer == IF required THEN <<Preface(TRUE), Challenge>> ELSE <<Preface(FALSE)>>
           next   == IF required THEN "response" ELSE "session"
<1>1. /\ HandshakeTypeOK /\ ServerKnows(c) /\ ClientKnows(c) /\ Agreement
      /\ server[c] = "preface" /\ toServer[c] # <<>>
      /\ toServer[c] = <<Preface(FALSE)>> /\ principal[c] = {}
  BY DEF ExchangeInv, ServerReadsPreface, ServerKnows
<1>2. Tail(toServer[c]) = <<>> /\ <<>> \in Seq(Message) /\ Len(<<>>) = 0
  BY <1>1, ShortSequences, ShortMessages
<1>3. /\ server' = [server EXCEPT ![c] = next]
      /\ toServer' = [toServer EXCEPT ![c] = <<>>]
      /\ UNCHANGED <<required, credentials, client, principal, closedEnds>>
  BY <1>1, <1>2 DEF ServerReadsPreface
<1>4. client[c] \in {"preface", "failed", "closed"}
  BY <1>1 DEF ClientKnows, HandshakeTypeOK, Agreement
<1>5. answer \in Seq(Message)
  <2>1. <<Preface(TRUE), Challenge>> \in Seq(Message) /\ <<Preface(FALSE)>> \in Seq(Message)
    BY Messages, ShortMessages
  <2> QED BY <2>1
<1>6. next \in {"response", "session"} /\ (required => next = "response")
      /\ (~required => next = "session")
  OBVIOUS
<1>7. /\ toClient' \in [Conn -> Seq(Message)]
      /\ \A d \in Conn \ {c} : toClient'[d] = toClient[d]
      /\ client[c] = "preface" => toClient'[c] = answer
  <2> HIDE DEF answer
  <2>1. \/ toClient' = toClient /\ "client" \in closedEnds[c]
        \/ toClient' = [toClient EXCEPT ![c] = toClient[c] \o answer]
    <3>1. toClient' = Sent(toClient, "client", c, answer)
      BY DEF ServerReadsPreface, answer
    <3> QED BY <3>1 DEF Sent
  <2>2. client[c] = "preface" => toClient[c] = <<>> /\ "client" \notin closedEnds[c]
    BY <1>1 DEF ClientKnows
  <2>3. <<>> \o answer = answer
    BY <1>5
  <2>4. toClient \in [Conn -> Seq(Message)] /\ toClient[c] \o answer \in Seq(Message)
    BY <1>1, <1>5 DEF HandshakeTypeOK
  <2> QED BY <2>1, <2>2, <2>3, <2>4
<1> HIDE DEF next
<1>8. HandshakeTypeOK'
  <2> HIDE DEF answer
  <2> QED BY <1>1, <1>2, <1>3, <1>6, <1>7 DEF HandshakeTypeOK
<1>9. /\ server'[c] = next /\ client'[c] = client[c] /\ toServer'[c] = <<>>
      /\ required' = required /\ principal'[c] = {} /\ closedEnds'[c] = closedEnds[c]
      /\ credentials'[c] = credentials[c]
  BY <1>1, <1>3 DEF HandshakeTypeOK
<1>10. ServerKnows(c)'
  BY <1>2, <1>6, <1>9 DEF ServerKnows
<1>11. ClientKnows(c)'
  <2>1. CASE required /\ client[c] = "preface"
    BY <1>1, <1>6, <1>7, <1>9, <2>1 DEF ClientKnows
  <2>2. CASE ~required /\ client[c] = "preface"
    BY <1>1, <1>6, <1>7, <1>9, <2>2 DEF ClientKnows
  <2>3. CASE client[c] # "preface"
    BY <1>1, <1>4, <1>9, <2>3 DEF ClientKnows
  <2> QED BY <2>1, <2>2, <2>3
<1>12. client'[c] \notin {"session", "closed"}
  BY <1>1, <1>4, <1>9 DEF Agreement
<1> QED BY <1>1, <1>3, <1>7, <1>8, <1>10, <1>11, <1>12, ExchangeByConn DEF HandshakeTypeOK

LEMMA ServerAuthenticatesKeeps ==
  ASSUME ExchangeInv, NEW c \in Conn, ServerAuthenticates(c)
  PROVE  ExchangeInv'
<1>1. /\ HandshakeTypeOK /\ ServerKnows(c) /\ ClientKnows(c) /\ Agreement
      /\ server[c] = "response" /\ required /\ toServer[c] # <<>>
      /\ toServer[c] \in Seq(Message)
      /\ \A x, y \in credentials[c] : x = y
  BY DEF ExchangeInv, ServerAuthenticates, ServerKnows, HandshakeTypeOK
<1>2. PICK cred \in credentials[c] : Head(toServer[c]) = Response(cred)
  <2>1. Head(toServer[c]) = toServer[c][1] /\ 1 \in 1 .. Len(toServer[c])
    BY <1>1, ShortMessages
  <2> QED BY <1>1, <2>1 DEF ServerKnows
<1>3. Head(toServer[c]).from = cred /\ cred \in Credential /\ credentials[c] = {cred}
  BY <1>1, <1>2 DEF Response, HandshakeTypeOK
<1> DEFINE ok == Authenticated(cred)
           next == IF ok THEN "session" ELSE "failed"
           answer == <<Result(ok, cred)>>
<1>4. /\ ok \in BOOLEAN /\ (ok => cred \in Known)
      /\ next = "session" \/ next = "failed"
      /\ next = "session" <=> ok
  BY DEF Authenticated
<1>5. /\ answer \in Seq(Message) /\ <<>> \in Seq(Message) /\ Len(<<>>) = 0
      /\ Len(answer) = 1 /\ answer[1].type = "result"
      /\ answer[1].ok = ok
  <2>1. Result(ok, cred) \in Message
    BY <1>3, <1>4, Messages
  <2>2. Result(ok, cred).type = "result" /\ Result(ok, cred).ok = ok
    BY DEF Result
  <2> QED BY <2>1, <2>2, ShortMessages
<1>6. /\ toClient' = Sent(toClient, "client", c, answer)
      /\ server' = [server EXCEPT ![c] = next]
      /\ principal' = [principal EXCEPT ![c] = IF ok THEN {cred} ELSE {}]
      /\ IF ok THEN /\ toServer' = [toServer EXCEPT ![c] = Tail(@)]
                    /\ closedEnds' = closedEnds
               ELSE CloseServer(c)
      /\ UNCHANGED <<required, credentials, client>>
  BY <1>3 DEF ServerAuthenticates
<1> HIDE DEF ok, next, answer
<1>7. client[c] \in {"preface", "challenge", "result", "failed", "closed"}
  BY <1>1 DEF ClientKnows, HandshakeTypeOK, Agreement
<1>8. client[c] \notin {"preface", "challenge"}
  BY <1>1 DEF ClientKnows
<1>9. /\ toClient' \in [Conn -> Seq(Message)]
      /\ \A d \in Conn \ {c} : toClient'[d] = toClient[d]
      /\ client[c] = "result" => toClient'[c] = answer
  <2>1. \/ toClient' = toClient /\ "client" \in closedEnds[c]
        \/ toClient' = [toClient EXCEPT ![c] = toClient[c] \o answer]
    BY <1>6 DEF Sent
  <2>2. client[c] = "result" => toClient[c] = <<>> /\ "client" \notin closedEnds[c]
    BY <1>1 DEF ClientKnows
  <2>3. <<>> \o answer = answer
    BY <1>5
  <2>4. toClient \in [Conn -> Seq(Message)] /\ toClient[c] \o answer \in Seq(Message)
    BY <1>1, <1>5 DEF HandshakeTypeOK
  <2> QED BY <2>1, <2>2, <2>3, <2>4
<1>10. /\ toServer' \in [Conn -> Seq(Message)]
       /\ closedEnds' \in [Conn -> SUBSET {"client", "server"}]
       /\ "client" \in closedEnds'[c] <=> "client" \in closedEnds[c]
       /\ \A d \in Conn \ {c} : toServer'[d] = toServer[d] /\ closedEnds'[d] = closedEnds[d]
  <2>1. CASE ok
    <3>1. Tail(toServer[c]) \in Seq(Message)
      BY <1>1, ShortMessages
    <3> QED BY ZenonT(30), <1>1, <1>6, <2>1, <3>1 DEF HandshakeTypeOK
  <2>2. CASE ~ok
    BY <1>1, <1>6, <2>2, CloseServerFacts
  <2> QED BY <2>1, <2>2
<1>11. HandshakeTypeOK'
  <2>1. PICK who \in SUBSET Known : who = IF ok THEN {cred} ELSE {}
    BY <1>4
  <2>2. principal' \in [Conn -> SUBSET Known]
    BY <1>1, <1>6, <2>1 DEF HandshakeTypeOK
  <2>3. server' \in [Conn -> {"idle", "preface", "response", "session", "failed"}]
    BY <1>1, <1>4, <1>6 DEF HandshakeTypeOK
  <2> QED BY <1>1, <1>6, <1>9, <1>10, <2>2, <2>3 DEF HandshakeTypeOK
<1>12. /\ server'[c] = next /\ client'[c] = client[c]
       /\ required' /\ credentials'[c] = credentials[c]
       /\ principal'[c] = IF ok THEN {cred} ELSE {}
  BY <1>1, <1>6 DEF HandshakeTypeOK
<1>13. ServerKnows(c)'
  BY <1>3, <1>4, <1>12 DEF ServerKnows
<1>14. ClientKnows(c)'
  <2>1. CASE client[c] = "result"
    <3>1. credentials'[c] # {} /\ "client" \notin closedEnds'[c]
      BY <1>1, <1>10, <1>12, <2>1 DEF ClientKnows
    <3>2. \A i \in 1 .. Len(toClient'[c]) : toClient'[c][i] = answer[1]
      <4>1. toClient'[c] = answer /\ Len(answer) = 1
        BY <1>5, <1>9, <2>1
      <4>2. \A i \in 1 .. 1 : i = 1
        OBVIOUS
      <4> QED BY <4>1, <4>2
    <3>3. answer[1].ok => next = "session"
      BY <1>4, <1>5
    <3>4. next \in {"session", "failed"}
      BY <1>4
    <3> QED BY <1>5, <1>12, <2>1, <3>1, <3>2, <3>3, <3>4 DEF ClientKnows
  <2>2. CASE client[c] \in {"failed", "closed"}
    <3>1. "client" \in closedEnds'[c]
      BY <1>1, <1>10, <2>2 DEF ClientKnows
    <3> QED BY <1>12, <2>2, <3>1 DEF ClientKnows
  <2> QED BY <1>7, <1>8, <2>1, <2>2
<1>15. client'[c] \notin {"session", "closed"}
  BY <1>1, <1>12 DEF Agreement
<1> QED BY <1>1, <1>6, <1>9, <1>10, <1>11, <1>12, <1>13, <1>14, <1>15, ExchangeByConn
    DEF HandshakeTypeOK

\* The server's end is closed, before, during or after its handshake.
LEMMA CloseServerKeeps ==
  ASSUME ExchangeInv, NEW c \in Conn, CloseServer(c), UNCHANGED <<peerVars, toClient>>
  PROVE  ExchangeInv'
<1>1. HandshakeTypeOK /\ ServerKnows(c) /\ ClientKnows(c) /\ Agreement
  BY DEF ExchangeInv
<1>2. /\ toServer' \in [Conn -> Seq(Message)]
      /\ closedEnds' \in [Conn -> SUBSET {"client", "server"}]
      /\ toServer'[c] = <<>> /\ closedEnds'[c] = closedEnds[c] \cup {"server"}
      /\ \A d \in Conn \ {c} : toServer'[d] = toServer[d] /\ closedEnds'[d] = closedEnds[d]
  BY <1>1, CloseServerFacts
<1>3. UNCHANGED <<required, credentials, client, server, principal, toClient>>
  BY DEF peerVars
<1>4. HandshakeTypeOK'
  BY <1>1, <1>2, <1>3 DEF HandshakeTypeOK
<1>5. Len(<<>>) = 0
  BY ShortMessages
<1>6. ServerKnows(c)'
  <2>1. /\ server'[c] = server[c] /\ principal'[c] = principal[c]
        /\ credentials'[c] = credentials[c] /\ required' = required
        /\ toServer'[c] = <<>> /\ \A i \in 1 .. Len(toServer'[c]) : FALSE
    BY <1>2, <1>3, <1>5
  <2>2. CASE server[c] \in {"idle", "preface"}
    BY <1>1, <2>1, <2>2 DEF ServerKnows
  <2>3. CASE server[c] = "response"
    BY <1>1, <2>1, <2>3 DEF ServerKnows
  <2>4. CASE server[c] \notin {"idle", "preface", "response"}
    BY <1>1, <2>1, <2>4 DEF ServerKnows
  <2> QED BY <2>2, <2>3, <2>4
<1>7. ClientKnows(c)'
  BY <1>1, <1>2, <1>3 DEF ClientKnows
<1>8. client'[c] \in {"session", "closed"} =>
        server'[c] = "session" /\ required = (credentials[c] # {})
  BY <1>1, <1>3 DEF Agreement
<1> QED BY <1>1, <1>2, <1>3, <1>4, <1>6, <1>7, <1>8, ExchangeByConn DEF HandshakeTypeOK

LEMMA ServerEndsKeeps ==
  ASSUME ExchangeInv, NEW c \in Conn, ServerWaits(c), ServerEnds(c)
  PROVE  ExchangeInv'
<1>1. HandshakeTypeOK /\ ServerKnows(c) /\ ClientKnows(c) /\ Agreement
  BY DEF ExchangeInv
<1>2. /\ toServer' \in [Conn -> Seq(Message)]
      /\ closedEnds' \in [Conn -> SUBSET {"client", "server"}]
      /\ toServer'[c] = <<>> /\ closedEnds'[c] = closedEnds[c] \cup {"server"}
      /\ \A d \in Conn \ {c} : toServer'[d] = toServer[d] /\ closedEnds'[d] = closedEnds[d]
  BY <1>1, CloseServerFacts DEF ServerEnds
<1>3. /\ server' = [server EXCEPT ![c] = "failed"]
      /\ UNCHANGED <<required, credentials, client, principal, toClient>>
  BY DEF ServerEnds
<1>4. HandshakeTypeOK' /\ server'[c] = "failed"
  BY <1>1, <1>2, <1>3 DEF HandshakeTypeOK
<1>5. server[c] \in {"preface", "response"}
  BY DEF ServerWaits
<1>6. ServerKnows(c)'
  BY <1>4 DEF ServerKnows
<1>7. ClientKnows(c)'
  <2>1. required' = required /\ toClient' = toClient /\ client' = client
        /\ credentials' = credentials
    BY <1>3
  <2>2. server[c] = "response" => required
    BY <1>1 DEF ServerKnows
  <2> QED BY <1>1, <1>2, <1>4, <1>5, <2>1, <2>2 DEF ClientKnows
<1>8. client'[c] \notin {"session", "closed"}
  BY <1>1, <1>3, <1>5 DEF Agreement
<1> QED BY <1>1, <1>2, <1>3, <1>4, <1>6, <1>7, <1>8, ExchangeByConn DEF HandshakeTypeOK

LEMMA ExchangeStutter ==
  ASSUME ExchangeInv, UNCHANGED handshakeVars
  PROVE  ExchangeInv'
<1>1. /\ required' = required /\ credentials' = credentials /\ client' = client
      /\ server' = server /\ principal' = principal /\ toServer' = toServer
      /\ toClient' = toClient /\ closedEnds' = closedEnds
  BY DEF handshakeVars, peerVars
<1>2. HandshakeTypeOK' /\ Agreement'
  BY <1>1 DEF ExchangeInv, HandshakeTypeOK, Agreement
<1>3. ASSUME NEW c \in Conn
      PROVE  ServerKnows(c)' /\ ClientKnows(c)'
  <2>1. ServerKnows(c) /\ ClientKnows(c)
    BY DEF ExchangeInv
  <2> QED BY <1>1, <2>1 DEF ServerKnows, ClientKnows
<1> QED BY <1>1, <1>2, <1>3 DEF ExchangeInv

LEMMA ExchangeInit == Init => ExchangeInv
<1> SUFFICES ASSUME Init PROVE ExchangeInv
  OBVIOUS
<1>1. PICK p \in Peers : p.required = required /\ p.credentials = credentials
  BY DEF Init, HandshakeInit
<1>2. /\ required \in BOOLEAN /\ credentials \in [Conn -> SUBSET Credential]
      /\ \A c \in Conn : \A x, y \in credentials[c] : x = y
  BY <1>1, HandshakeAssumption
<1>3. <<>> \in Seq(Message)
  BY ShortMessages
<1>4. HandshakeTypeOK
  BY <1>2, <1>3 DEF Init, HandshakeInit, HandshakeTypeOK
<1>5. \A c \in Conn : ServerKnows(c) /\ ClientKnows(c)
  BY DEF Init, HandshakeInit, ServerKnows, ClientKnows
<1>6. Agreement
  BY DEF Init, HandshakeInit, Agreement
<1> QED BY <1>2, <1>4, <1>5, <1>6 DEF ExchangeInv

LEMMA ExchangeNext == ExchangeInv /\ [Next]_vars => ExchangeInv'
<1> SUFFICES ASSUME ExchangeInv, [Next]_vars PROVE ExchangeInv'
  OBVIOUS
<1>1. ASSUME NEW c \in Conn, ClientHandshake(c) \/ Dial(c) \/ ClientTimeout(c) \/ ClientCloses(c)
      PROVE  ExchangeInv'
  <2>1. CASE ClientReadFails(c) \/ ClientTimeout(c)
    BY <2>1, ClientEndsKeeps DEF ClientReadFails, ClientTimeout
  <2>2. CASE ClientCloses(c)
    BY <2>2, ClientEndsKeeps DEF ClientCloses
  <2> QED BY <1>1, <2>1, <2>2, ClientReadsPrefaceKeeps, ClientAnswersKeeps,
             ClientReadsResultKeeps, DialKeeps DEF ClientHandshake
<1>2. ASSUME NEW c \in Conn, ServerHandshake(c) \/ ServerTimeout(c) \/ ServerStarts(c)
      PROVE  ExchangeInv'
  <2>1. CASE ServerReadFails(c) \/ ServerTimeout(c)
    BY <2>1, ServerEndsKeeps DEF ServerReadFails, ServerTimeout
  <2> QED BY <1>2, <2>1, ServerReadsPrefaceKeeps, ServerAuthenticatesKeeps,
             ServerStartsKeeps DEF ServerHandshake
<1>3. ASSUME NEW c \in Conn, CloseServer(c) \/ UNCHANGED <<toServer, closedEnds>>,
             UNCHANGED <<peerVars, toClient>>
      PROVE  ExchangeInv'
  <2>1. CASE CloseServer(c)
    BY <1>3, <2>1, CloseServerKeeps
  <2>2. CASE UNCHANGED <<toServer, closedEnds>>
    BY <1>3, <2>2, ExchangeStutter DEF handshakeVars
  <2> QED BY <1>3, <2>1, <2>2
<1>4. ASSUME NEW c \in Conn,
             Accept(c) \/ StartAccept(c) \/ LeaveCloses(c) \/ KeepaliveFails(c) \/ CloseListed(c)
      PROVE  ExchangeInv'
  BY <1>3, <1>4 DEF Accept, StartAccept, LeaveCloses, KeepaliveFails, CloseListed
<1>5. ASSUME NEW c \in Conn, Check(c)
      PROVE  ExchangeInv'
  BY <1>2, <1>3, <1>5 DEF Check
<1>6. ASSUME NEW c \in Conn,
             \/ GiveUp(c) \/ FinishHandshake(c) \/ TrafficForConnection(c) \/ Admit(c)
             \/ StopServing(c) \/ Leave(c) \/ ConnectionClosed(c) \/ ListedClosed(c)
      PROVE  UNCHANGED handshakeVars
  BY <1>6 DEF GiveUp, FinishHandshake, TrafficForConnection, Admit, StopServing, Leave,
     ConnectionClosed, ListedClosed
<1>7. CASE PruneTraffic \/ AcceptFails \/ Cancel \/ ShutdownBegins \/ ShutdownReturns \/ UNCHANGED vars
  <2>1. UNCHANGED handshakeVars
    BY <1>7 DEF PruneTraffic, AcceptFails, Cancel, ShutdownBegins, ShutdownReturns, vars
  <2> QED BY <2>1, ExchangeStutter
<1>8. CASE \E c \in Conn : Client(c) \/ ClientChooses(c)
  BY <1>1, <1>8 DEF Client, ClientChooses
<1>9. CASE \E c \in Conn : Acceptor(c) \/ ShakeTimeout(c) \/ StreamRefused(c) \/ ConnectionClosed(c)
                          \/ ListedClosed(c)
  <2>1. PICK c \in Conn : Acceptor(c) \/ ShakeTimeout(c) \/ StreamRefused(c) \/ ConnectionClosed(c)
                          \/ ListedClosed(c)
    BY <1>9
  <2>2. CASE Shake(c) \/ ShakeTimeout(c)
    BY <1>2, <2>2 DEF Shake, ShakeTimeout
  <2>3. CASE Check(c) \/ LeaveCloses(c)
    BY <1>4, <1>5, <2>3
  <2>4. CASE \/ GiveUp(c) \/ FinishHandshake(c) \/ TrafficForConnection(c) \/ Admit(c)
             \/ StopServing(c) \/ Leave(c) \/ ConnectionClosed(c) \/ ListedClosed(c)
    BY <1>6, <2>4, ExchangeStutter
  <2> QED BY <2>1, <2>2, <2>3, <2>4 DEF Acceptor, ServeEnds, StreamRefused
<1> QED BY <1>4, <1>7, <1>8, <1>9 DEF Next, Shutdown

\* Whatever deadlines pass, the two ends of a handshake agree: whom the server
\* serves is whom the client is, a client with credentials is not downgraded,
\* and it takes no session for established before the server has
\* (DialSessionWithAuth, AcceptSession, AuthenticatePeerClient and -Server).
THEOREM EndsAgree == Spec => []Agreement
<1>1. ExchangeInv => Agreement
  BY DEF ExchangeInv
<1> QED BY <1>1, ExchangeInit, ExchangeNext, PTL DEF Spec

-----------------------------------------------------------------------------
(* Lists without repetition.                                               *)

Distinct(list) == \A i, j \in 1 .. Len(list) : list[i] = list[j] => i = j

LEMMA ElementsOf ==
  ASSUME NEW list, DOMAIN list = 1 .. Len(list)
  PROVE  \A x : x \in ToSet(list) <=> \E i \in 1 .. Len(list) : list[i] = x
BY DEF ToSet

LEMMA WithoutFacts ==
  ASSUME NEW S, NEW list \in Seq(S), Distinct(list), NEW a
  PROVE  /\ Without(list, a) \in Seq(S) /\ Distinct(Without(list, a))
         /\ ToSet(Without(list, a)) = ToSet(list) \ {a}
<1>1. CASE ~(\E i \in 1 .. Len(list) : list[i] = a)
  <2>1. Without(list, a) = list
    BY <1>1 DEF Without
  <2>2. a \notin ToSet(list)
    BY <1>1, ElementsOf
  <2> QED BY <2>1, <2>2
<1>2. CASE \E i \in 1 .. Len(list) : list[i] = a
  <2> DEFINE i == CHOOSE j \in 1 .. Len(list) : list[j] = a
             rest == SubSeq(list, 1, i - 1) \o SubSeq(list, i + 1, Len(list))
  <2>1. i \in 1 .. Len(list) /\ list[i] = a
    BY <1>2
  <2>2. Without(list, a) = rest
    BY <1>2 DEF Without
  <2> HIDE DEF i
  <2>3. /\ rest \in Seq(S) /\ Len(rest) = Len(list) - 1
        /\ \A j \in 1 .. Len(rest) : rest[j] = IF j < i THEN list[j] ELSE list[j + 1]
    <3> DEFINE left  == SubSeq(list, 1, i - 1)
               right == SubSeq(list, i + 1, Len(list))
    <3>1. /\ left \in Seq(S) /\ Len(left) = i - 1
          /\ \A j \in 1 .. i - 1 : left[j] = list[j]
      BY <2>1
    <3>2. /\ right \in Seq(S) /\ Len(right) = Len(list) - i
          /\ \A j \in 1 .. Len(list) - i : right[j] = list[i + j]
      BY <2>1
    <3>3. rest = left \o right /\ Len(list) \in Nat
      OBVIOUS
    <3> HIDE DEF left, right, rest
    <3>4. /\ rest \in Seq(S) /\ Len(rest) = Len(left) + Len(right)
          /\ \A j \in 1 .. Len(rest) :
               rest[j] = IF j <= Len(left) THEN left[j] ELSE right[j - Len(left)]
      BY <3>1, <3>2, <3>3
    <3>5. Len(rest) = Len(list) - 1
      BY <2>1, <3>1, <3>2, <3>3, <3>4
    <3>6. ASSUME NEW j \in 1 .. Len(rest)
          PROVE  rest[j] = IF j < i THEN list[j] ELSE list[j + 1]
      <4>1. CASE j < i
        <5>1. Len(left) = i - 1 /\ j <= i - 1 /\ j \in 1 .. i - 1
          BY <2>1, <3>1, <3>3, <3>5, <4>1
        <5> QED BY <3>1, <3>4, <4>1, <5>1
      <4>2. CASE ~(j < i)
        <5>1. j - (i - 1) \in 1 .. Len(list) - i /\ i + (j - (i - 1)) = j + 1
          BY <2>1, <3>3, <3>5, <4>2
        <5>2. rest[j] = right[j - (i - 1)]
          <6>1. Len(left) = i - 1 /\ ~(j <= i - 1)
            BY <2>1, <3>1, <4>2
          <6> QED BY <3>4, <6>1
        <5> QED BY <3>2, <4>2, <5>1, <5>2
      <4> QED BY <4>1, <4>2
    <3> QED BY <3>4, <3>5, <3>6
  <2> HIDE DEF rest
  <2>4. Distinct(rest)
    <3>1. ASSUME NEW j \in 1 .. Len(rest), NEW k \in 1 .. Len(rest), rest[j] = rest[k]
          PROVE  j = k
      BY SMTT(30), <2>1, <2>3, <3>1 DEF Distinct
    <3> QED BY <3>1 DEF Distinct
  <2>5. \A x : x \in ToSet(rest) <=> x \in ToSet(list) \ {a}
    <3>1. ASSUME NEW j \in 1 .. Len(rest)
          PROVE  rest[j] # a /\ \E k \in 1 .. Len(list) : list[k] = rest[j]
      BY <2>1, <2>3 DEF Distinct
    <3>2. ASSUME NEW k \in 1 .. Len(list), list[k] # a
          PROVE  \E j \in 1 .. Len(rest) : rest[j] = list[k]
      <4>1. CASE k < i
        <5>1. k \in 1 .. Len(rest) /\ rest[k] = list[k]
          BY <2>1, <2>3, <4>1
        <5> QED BY <5>1
      <4>2. CASE k > i
        <5>1. k - 1 \in 1 .. Len(rest) /\ rest[k - 1] = list[k]
          BY <2>1, <2>3, <4>2
        <5> QED BY <5>1
      <4>3. k # i
        BY <2>1, <3>2
      <4> QED BY <2>1, <4>1, <4>2, <4>3
    <3>3. DOMAIN rest = 1 .. Len(rest) /\ DOMAIN list = 1 .. Len(list)
      BY <2>3
    <3>4. \A x : x \in ToSet(rest) <=> \E j \in 1 .. Len(rest) : rest[j] = x
      BY <3>3, ElementsOf
    <3>5. \A x : x \in ToSet(list) <=> \E j \in 1 .. Len(list) : list[j] = x
      BY <3>3, ElementsOf
    <3> QED BY <3>1, <3>2, <3>4, <3>5
  <2>6. ToSet(rest) = ToSet(list) \ {a}
    BY <2>5
  <2> QED BY <2>2, <2>3, <2>4, <2>6
<1> QED BY <1>1, <1>2

LEMMA AppendFacts ==
  ASSUME NEW S, NEW list \in Seq(S), Distinct(list), NEW a \in S, a \notin ToSet(list)
  PROVE  /\ Append(list, a) \in Seq(S) /\ Distinct(Append(list, a))
         /\ ToSet(Append(list, a)) = ToSet(list) \cup {a}
<1> DEFINE more == Append(list, a)
<1>1. /\ more \in Seq(S) /\ Len(more) = Len(list) + 1 /\ Len(list) \in Nat
      /\ \A j \in 1 .. Len(list) : more[j] = list[j]
      /\ more[Len(list) + 1] = a
  OBVIOUS
<1> HIDE DEF more
<1>2. \A j \in 1 .. Len(list) : list[j] # a
  BY ElementsOf
<1>3. Distinct(more)
  BY <1>1, <1>2 DEF Distinct
<1>4. \A x : x \in ToSet(more) <=> x \in ToSet(list) \cup {a}
  <2>1. DOMAIN more = 1 .. Len(more) /\ DOMAIN list = 1 .. Len(list)
    BY <1>1
  <2>2. \A j \in 1 .. Len(more) : j \in 1 .. Len(list) \/ j = Len(list) + 1
    BY <1>1
  <2>3. 1 .. Len(list) \subseteq 1 .. Len(more) /\ Len(list) + 1 \in 1 .. Len(more)
    BY <1>1
  <2> QED BY <1>1, <2>1, <2>2, <2>3, ElementsOf
<1> QED BY <1>1, <1>3, <1>4 DEF more

\* The first n elements leave a list.
LEMMA DropFacts ==
  ASSUME NEW S, NEW list \in Seq(S), Distinct(list), NEW n \in 0 .. Len(list)
  PROVE  LET rest == SubSeq(list, n + 1, Len(list))
             gone == {list[i] : i \in 1 .. n}
         IN  /\ rest \in Seq(S) /\ Distinct(rest)
             /\ ToSet(rest) = ToSet(list) \ gone /\ gone \subseteq ToSet(list)
             /\ IsFiniteSet(gone) /\ Cardinality(gone) = n
             /\ n = Len(list) => rest = <<>>
<1> DEFINE rest == SubSeq(list, n + 1, Len(list))
           gone == {list[i] : i \in 1 .. n}
<1>1. /\ rest \in Seq(S) /\ Len(rest) = Len(list) - n
      /\ \A j \in 1 .. Len(rest) : rest[j] = list[j + n] /\ j + n \in 1 .. Len(list)
      /\ n = Len(list) => rest = <<>>
  OBVIOUS
<1>2. DOMAIN rest = 1 .. Len(rest) /\ DOMAIN list = 1 .. Len(list) /\ Len(list) \in Nat
  BY <1>1
<1> HIDE DEF rest
<1>3. Distinct(rest)
  <2>1. ASSUME NEW j \in 1 .. Len(rest), NEW k \in 1 .. Len(rest), rest[j] = rest[k]
        PROVE  j = k
    BY <1>1, <2>1 DEF Distinct
  <2> QED BY <2>1 DEF Distinct
<1>4. 1 .. n \subseteq 1 .. Len(list) /\ n \in Nat
  BY <1>2
<1>5. gone \subseteq ToSet(list)
  BY <1>2, <1>4, ElementsOf
<1>6. \A x : x \in ToSet(rest) <=> x \in ToSet(list) \ gone
  <2>1. ASSUME NEW j \in 1 .. Len(rest)
        PROVE  rest[j] \in ToSet(list) \ gone
    <3>1. rest[j] = list[j + n] /\ j + n \in 1 .. Len(list) /\ j + n \notin 1 .. n
      BY <1>1, <1>2
    <3>2. ASSUME NEW i \in 1 .. n
          PROVE  list[i] # rest[j]
      BY <1>4, <3>1 DEF Distinct
    <3> QED BY <1>2, <3>1, <3>2, ElementsOf
  <2>2. ASSUME NEW k \in 1 .. Len(list), list[k] \notin gone
        PROVE  \E j \in 1 .. Len(rest) : rest[j] = list[k]
    <3>1. k \notin 1 .. n
      BY <2>2
    <3>2. k - n \in 1 .. Len(rest) /\ rest[k - n] = list[k]
      BY <1>1, <1>2, <1>4, <3>1
    <3> QED BY <3>2
  <2> QED BY SMTT(30), <1>2, <2>1, <2>2, ElementsOf
<1>7. IsFiniteSet(gone) /\ Cardinality(gone) = n
  <2>1. IsFiniteSet(1 .. n) /\ Cardinality(1 .. n) = n
    BY <1>4, FS_Interval
  <2>2. PICK f : f = [i \in 1 .. n |-> list[i]]
    OBVIOUS
  <2>3. f \in Bijection(1 .. n, gone)
    BY <1>4, <2>2 DEF Bijection, Injection, Surjection, IsInjective, Distinct
  <2>4. ExistsBijection(1 .. n, gone)
    BY <2>3 DEF ExistsBijection
  <2> QED BY <2>1, <2>4, FS_Bijection
<1> QED BY <1>1, <1>3, <1>5, <1>6, <1>7 DEF rest

-----------------------------------------------------------------------------
(* The cache of traffic counters.                                          *)

\* The conjuncts of Counted but the last, for a table of counters with its
\* list, the counters h that connections hold and the values act.
CountedIn(table, list, h, act, conns, from) ==
  /\ \A o \in Object : act[o] = Cardinality({c \in Conn : o \in h[c]})
  /\ \A c \in Conn : \A o \in h[c] :
       c \in conns /\ from[c] \in DOMAIN table /\ table[from[c]] = o
  /\ \A a, b \in DOMAIN table : table[a] = table[b] => a = b
  /\ ToSet(list) = {a \in DOMAIN table : act[table[a]] = 0}
  /\ Distinct(list)

TableOK(table, list) ==
  /\ DOMAIN table \subseteq Address /\ IsFiniteSet(DOMAIN table)
  /\ table \in [DOMAIN table -> Object]
  /\ list \in Seq(Address)

LEMMA HoldersFinite ==
  ASSUME NEW h, NEW o
  PROVE  /\ IsFiniteSet({c \in Conn : o \in h[c]})
         /\ Cardinality({c \in Conn : o \in h[c]}) \in Nat
         /\ Cardinality({c \in Conn : o \in h[c]}) = 0 <=> \A c \in Conn : o \notin h[c]
<1>1. {c \in Conn : o \in h[c]} \in SUBSET Conn /\ IsFiniteSet(Conn)
  BY ConnectionsAssumption
<1>2. IsFiniteSet({c \in Conn : o \in h[c]})
  BY <1>1, FS_Subset
<1>3. Cardinality({c \in Conn : o \in h[c]}) = 0 <=> {c \in Conn : o \in h[c]} = {}
  BY <1>2, FS_EmptySet
<1> QED BY <1>2, <1>3, FS_CardinalityType

LEMMA RestCardinality ==
  ASSUME NEW S, IsFiniteSet(S), NEW T, T \subseteq S
  PROVE  /\ IsFiniteSet(S \ T) /\ Cardinality(S) \in Nat
         /\ Cardinality(S \ T) = Cardinality(S) - Cardinality(T)
<1>1. IsFiniteSet(S \ T) /\ IsFiniteSet(T)
  BY FS_Subset
<1>2. S = (S \ T) \cup T
  OBVIOUS
<1>3. (S \ T) \cap T = {}
  OBVIOUS
<1>4. Cardinality((S \ T) \cup T) = Cardinality(S \ T) + Cardinality(T)
                                     - Cardinality((S \ T) \cap T)
  BY <1>1, FS_Union
<1>5. Cardinality((S \ T) \cap T) = 0
  BY <1>3, FS_EmptySet
<1>6. Cardinality(S) = Cardinality((S \ T) \cup T)
  BY <1>2
<1>7. Cardinality(S) \in Nat /\ Cardinality(S \ T) \in Nat /\ Cardinality(T) \in Nat
  BY <1>1, FS_CardinalityType
<1> QED BY <1>1, <1>4, <1>5, <1>6, <1>7

\* What dropping from the inactive list keeps.
LEMMA DropCounted ==
  ASSUME NEW table, NEW list, NEW h \in [Conn -> SUBSET Object], NEW act, NEW conns, NEW from,
         TableOK(table, list), CountedIn(table, list, h, act, conns, from),
         NEW n \in 0 .. Len(list), Drop(table, list, n)
  PROVE  /\ TableOK(traffic', inactive')
         /\ CountedIn(traffic', inactive', h, act, conns, from)
         /\ Cardinality(DOMAIN traffic') = Cardinality(DOMAIN table) - n
         /\ Cardinality(DOMAIN table) \in Nat
         /\ n = Len(list) => inactive' = <<>>
<1>0. PICK t, l, gone : /\ t = traffic' /\ l = inactive'
                        /\ gone = {list[i] : i \in 1 .. n}
                        /\ t = [a \in DOMAIN table \ gone |-> table[a]]
                        /\ l = SubSeq(list, n + 1, Len(list))
  BY DEF Drop
<1>1. /\ l \in Seq(Address) /\ Distinct(l)
      /\ ToSet(l) = ToSet(list) \ gone /\ gone \subseteq ToSet(list)
      /\ IsFiniteSet(gone) /\ Cardinality(gone) = n
      /\ n = Len(list) => l = <<>>
  <2> DEFINE rest == SubSeq(list, n + 1, Len(list))
             out  == {list[i] : i \in 1 .. n}
  <2>1. /\ rest \in Seq(Address) /\ Distinct(rest)
        /\ ToSet(rest) = ToSet(list) \ out /\ out \subseteq ToSet(list)
        /\ IsFiniteSet(out) /\ Cardinality(out) = n
        /\ n = Len(list) => rest = <<>>
    BY DropFacts DEF TableOK, CountedIn
  <2>2. l = rest /\ gone = out
    BY <1>0
  <2> HIDE DEF rest, out
  <2> QED BY <2>1, <2>2
<1>2. DOMAIN t = DOMAIN table \ gone /\ \A a \in DOMAIN table \ gone : t[a] = table[a]
  BY <1>0
<1>3. gone \subseteq DOMAIN table /\ \A a \in gone : act[table[a]] = 0
  BY <1>1 DEF CountedIn
<1>4. IsFiniteSet(DOMAIN t) /\ Cardinality(DOMAIN t) = Cardinality(DOMAIN table) - n
      /\ Cardinality(DOMAIN table) \in Nat
  <2>1. IsFiniteSet(DOMAIN table)
    BY DEF TableOK
  <2>2. PICK D : D = DOMAIN table
    OBVIOUS
  <2>3. /\ IsFiniteSet(D \ gone) /\ Cardinality(D) \in Nat
        /\ Cardinality(D \ gone) = Cardinality(D) - Cardinality(gone)
    BY <1>3, <2>1, <2>2, RestCardinality
  <2>4. DOMAIN t = D \ gone
    BY <1>2, <2>2
  <2> QED BY <1>1, <2>2, <2>3, <2>4
<1>5. ASSUME NEW c \in Conn, NEW o \in h[c]
      PROVE  c \in conns /\ from[c] \in DOMAIN t /\ t[from[c]] = o
  <2>1. c \in conns /\ from[c] \in DOMAIN table /\ table[from[c]] = o
    BY DEF CountedIn
  <2>2. o \in Object /\ act[o] # 0
    <3>1. o \in Object /\ act[o] = Cardinality({d \in Conn : o \in h[d]})
      BY DEF CountedIn
    <3>2. Cardinality({d \in Conn : o \in h[d]}) # 0
      BY HoldersFinite
    <3> QED BY <3>1, <3>2
  <2>3. from[c] \notin gone
    BY <1>3, <2>1, <2>2
  <2>4. from[c] \in DOMAIN t
    BY <1>2, <2>1, <2>3
  <2>5. t[from[c]] = table[from[c]]
    BY <1>2, <2>1, <2>3
  <2> QED BY <2>1, <2>4, <2>5
<1>6. ToSet(l) = {a \in DOMAIN t : act[t[a]] = 0}
  BY <1>1, <1>2 DEF CountedIn
<1>7. TableOK(t, l)
  <2>1. \A a \in DOMAIN t : t[a] \in Object
    BY <1>2 DEF TableOK
  <2>2. t \in [DOMAIN t -> Object]
    BY <1>0, <2>1
  <2> QED BY <1>1, <1>2, <1>4, <2>2 DEF TableOK
<1>8. \A a, b \in DOMAIN t : t[a] = t[b] => a = b
  BY <1>2 DEF CountedIn
<1>9. \A o \in Object : act[o] = Cardinality({c \in Conn : o \in h[c]})
  BY DEF CountedIn
<1>10. CountedIn(t, l, h, act, conns, from)
  BY <1>1, <1>5, <1>6, <1>8, <1>9 DEF CountedIn
<1> QED BY <1>0, <1>1, <1>4, <1>7, <1>10

\* Trimming moreover leaves no inactive address beyond the limit.
LEMMA TrimCounted ==
  ASSUME NEW table, NEW list, NEW h \in [Conn -> SUBSET Object], NEW act, NEW conns, NEW from,
         TableOK(table, list), CountedIn(table, list, h, act, conns, from), Trim(table, list)
  PROVE  /\ TableOK(traffic', inactive') /\ CountedIn(traffic', inactive', h, act, conns, from)
         /\ Cardinality(DOMAIN traffic') > TrafficLimit => inactive' = <<>>
<1>1. Len(list) \in Nat /\ Cardinality(DOMAIN table) \in Nat /\ TrafficLimit \in Nat
  BY FS_CardinalityType, ConnectionsAssumption DEF TableOK
<1>2. PICK n \in 0 .. Len(list) :
        /\ n = Excess(table, list)
        /\ Cardinality(DOMAIN table) - n > TrafficLimit => n = Len(list)
  <2> DEFINE excess == Cardinality(DOMAIN table) - TrafficLimit
             n == Excess(table, list)
  <2>1. n = IF excess <= 0 THEN 0 ELSE IF excess < Len(list) THEN excess ELSE Len(list)
    BY DEF Excess
  <2>2. n \in 0 .. Len(list)
    BY <1>1, <2>1
  <2>3. Cardinality(DOMAIN table) - n > TrafficLimit => n = Len(list)
    BY <1>1, <2>1
  <2> QED BY <2>2, <2>3
<1>3. Drop(table, list, n)
  BY <1>2 DEF Trim
<1>4. /\ TableOK(traffic', inactive') /\ CountedIn(traffic', inactive', h, act, conns, from)
      /\ Cardinality(DOMAIN traffic') = Cardinality(DOMAIN table) - n
      /\ n = Len(list) => inactive' = <<>>
  BY <1>2, <1>3, DropCounted
<1> QED BY <1>2, <1>4

\* The cache before the shutdown.
CacheOK ==
  /\ TableOK(traffic, inactive)
  /\ CountedIn(traffic, inactive, held, active, connections, address)
  /\ Cardinality(DOMAIN traffic) > TrafficLimit => inactive = <<>>

LEMMA SmallUnion ==
  ASSUME NEW S, IsFiniteSet(S), NEW T, IsFiniteSet(T), NEW U, IsFiniteSet(U),
         Cardinality(S) + Cardinality(T) < Cardinality(U)
  PROVE  \E x \in U : x \notin S /\ x \notin T
<1>1. /\ IsFiniteSet(S \cup T) /\ IsFiniteSet(S \cap T)
      /\ Cardinality(S \cup T) = Cardinality(S) + Cardinality(T) - Cardinality(S \cap T)
  <2>1. S \cap T \in SUBSET S
    OBVIOUS
  <2> QED BY <2>1, FS_Union, FS_Subset
<1>2. /\ Cardinality(S) \in Nat /\ Cardinality(T) \in Nat /\ Cardinality(U) \in Nat
      /\ Cardinality(S \cap T) \in Nat /\ Cardinality(S \cup T) \in Nat
  BY <1>1, FS_CardinalityType
<1>3. CASE U \subseteq S \cup T
  <2>1. Cardinality(U) <= Cardinality(S \cup T)
    BY <1>1, <1>3, FS_Subset
  <2> QED BY <1>1, <1>2, <2>1
<1> QED BY <1>3

\* One object more than addresses without a connection and connections fit.
LEMMA NewObjectFacts ==
  ASSUME CacheOK, held \in [Conn -> SUBSET Object], address \in [Conn -> Address]
  PROVE  /\ NewObject \in Object
         /\ \A a \in DOMAIN traffic : traffic[a] # NewObject
         /\ \A c \in Conn : NewObject \notin held[c]
<1> DEFINE C == {c \in Conn : held[c] # {}}
           H == UNION {held[c] : c \in Conn}
           R == {traffic[a] : a \in DOMAIN traffic}
           N == Cardinality(Conn)
<1>1. IsFiniteSet(Conn) /\ N \in Nat /\ TrafficLimit \in Nat
  BY ConnectionsAssumption, FS_CardinalityType
<1>2. IsFiniteSet(Object) /\ Cardinality(Object) = TrafficLimit + N + 1
  <2>1. TrafficLimit + N + 1 \in Int /\ 1 \in Int
    BY <1>1
  <2>2. /\ IsFiniteSet(1 .. TrafficLimit + N + 1)
        /\ Cardinality(1 .. TrafficLimit + N + 1) =
             IF 1 > TrafficLimit + N + 1 THEN 0 ELSE (TrafficLimit + N + 1) - 1 + 1
    BY <2>1, FS_Interval
  <2> QED BY <1>1, <2>2 DEF Object
<1>3. IsFiniteSet(H) /\ Cardinality(H) <= N /\ Cardinality(H) \in Nat
  <2>1. IsFiniteSet(C) /\ Cardinality(C) <= N /\ Cardinality(C) \in Nat
    <3>1. C \in SUBSET Conn
      OBVIOUS
    <3> QED BY <1>1, <3>1, FS_Subset, FS_CardinalityType
  <2>2. \A c \in Conn : \A o \in held[c] : o = traffic[address[c]]
    BY DEF CacheOK, CountedIn
  <2>3. PICK f : f = [c \in C |-> traffic[address[c]]]
    OBVIOUS
  <2>4. f \in Surjection(C, H)
    <3>1. ASSUME NEW c \in C
          PROVE  f[c] \in H
      BY <2>2, <2>3
    <3>2. ASSUME NEW o \in H
          PROVE  \E c \in C : f[c] = o
      BY <2>2, <2>3
    <3> QED BY <2>3, <3>1, <3>2 DEF Surjection
  <2>5. IsFiniteSet(H) /\ Cardinality(H) <= Cardinality(C)
    BY <2>1, <2>4, FS_Surjection
  <2> QED BY <1>1, <2>1, <2>5, FS_CardinalityType
<1>4. IsFiniteSet(R) /\ Cardinality(R) <= Cardinality(DOMAIN traffic) /\ Cardinality(R) \in Nat
      /\ Cardinality(DOMAIN traffic) \in Nat
  <2>1. IsFiniteSet(DOMAIN traffic)
    BY DEF CacheOK, TableOK
  <2>2. traffic \in Surjection(DOMAIN traffic, R)
    BY DEF CacheOK, TableOK, Surjection
  <2>3. IsFiniteSet(R) /\ Cardinality(R) <= Cardinality(DOMAIN traffic)
    BY <2>1, <2>2, FS_Surjection
  <2> QED BY <2>1, <2>3, FS_CardinalityType
<1>5. CASE Cardinality(DOMAIN traffic) > TrafficLimit
  <2>1. inactive = <<>>
    BY <1>5 DEF CacheOK
  <2>2. ToSet(inactive) = {}
    BY <2>1 DEF ToSet
  <2>3. ASSUME NEW a \in DOMAIN traffic
        PROVE  traffic[a] \in H
    <3>1. active[traffic[a]] # 0 /\ traffic[a] \in Object
      BY <2>2 DEF CacheOK, CountedIn, TableOK
    <3>2. Cardinality({c \in Conn : traffic[a] \in held[c]}) # 0
      BY <3>1 DEF CacheOK, CountedIn
    <3>3. \E c \in Conn : traffic[a] \in held[c]
      BY <3>2, HoldersFinite
    <3> QED BY <3>3
  <2>4. IsFiniteSet({}) /\ Cardinality({}) = 0
    BY FS_EmptySet
  <2>5. \E o \in Object : o \notin H /\ o \notin {}
    <3> HIDE DEF H
    <3>1. Cardinality(H) + Cardinality({}) < Cardinality(Object)
      BY <1>1, <1>2, <1>3, <2>4
    <3> QED BY <1>2, <1>3, <2>4, <3>1, SmallUnion
  <2>6. \E o \in Object : o \notin H /\ o \notin R
    BY <2>3, <2>5
  <2> QED BY <2>6 DEF NewObject, Range
<1>6. CASE ~(Cardinality(DOMAIN traffic) > TrafficLimit)
  <2>1. \E o \in Object : o \notin H /\ o \notin R
    <3> HIDE DEF H, R
    <3>1. Cardinality(H) + Cardinality(R) < Cardinality(Object)
      BY <1>1, <1>2, <1>3, <1>4, <1>6
    <3> QED BY <1>2, <1>3, <1>4, <3>1, SmallUnion
  <2> QED BY <2>1 DEF NewObject, Range
<1> QED BY <1>5, <1>6

CacheTypes ==
  /\ held \in [Conn -> SUBSET Object] /\ active \in [Object -> Nat]
  /\ address \in [Conn -> Address]

LEMMA TakeTrafficKeeps ==
  ASSUME CacheOK, CacheTypes, NEW c \in Conn, TakeTraffic(c),
         UNCHANGED <<connections, address>>
  PROVE  CacheOK' /\ CacheTypes'
<1> DEFINE more == IF Counts(c) THEN 1 ELSE 0
<1>1. PICK a, o, count, table, rest, list :
        /\ a = address[c]
        /\ o = IF a \in DOMAIN traffic THEN traffic[a] ELSE NewObject
        /\ count = (IF a \in DOMAIN traffic THEN active[o] ELSE 0) + more
        /\ table = [b \in DOMAIN traffic \cup {a} |-> IF b = a THEN o ELSE traffic[b]]
        /\ rest = Without(inactive, a)
        /\ list = IF count > 0 THEN rest ELSE Append(rest, a)
        /\ held' = [held EXCEPT ![c] = IF Counts(c) THEN {o} ELSE @]
        /\ active' = [active EXCEPT ![o] = count]
        /\ Trim(table, list)
  BY DEF TakeTraffic
<1>2. /\ a \in Address /\ o \in Object
      /\ \A b \in DOMAIN traffic : b # a => traffic[b] # o
      /\ \A d \in Conn : o \in held[d] => a \in DOMAIN traffic
      /\ a \in DOMAIN traffic => traffic[a] = o
  <2>1. CASE a \in DOMAIN traffic
    BY <1>1, <2>1 DEF CacheOK, TableOK, CountedIn, CacheTypes
  <2>2. CASE a \notin DOMAIN traffic
    <3>1. o = NewObject
      BY <1>1, <2>2
    <3> QED BY <1>1, <2>2, <3>1, NewObjectFacts DEF CacheTypes
  <2> QED BY <2>1, <2>2
<1>3. count = active[o] + more /\ count \in Nat /\ active[o] \in Nat
  <2>1. ASSUME a \notin DOMAIN traffic
        PROVE  active[o] = 0
    <3>1. Cardinality({d \in Conn : o \in held[d]}) = 0
      BY <1>2, <2>1, HoldersFinite
    <3> QED BY <1>2, <3>1 DEF CacheOK, CountedIn
  <2>2. more \in Nat /\ active[o] \in Nat
    BY <1>2 DEF CacheTypes
  <2> HIDE DEF more
  <2> QED BY <1>1, <2>1, <2>2
<1>4. /\ Counts(c) => held[c] = {} /\ c \in connections /\ held'[c] = {o}
      /\ ~Counts(c) => held' = held
      /\ \A d \in Conn \ {c} : held'[d] = held[d]
      /\ held' \in [Conn -> SUBSET Object]
      /\ active' \in [Object -> Nat] /\ active'[o] = count
      /\ \A p \in Object \ {o} : active'[p] = active[p]
  BY <1>1, <1>2, <1>3 DEF Counts, CacheTypes
<1>5. CacheTypes'
  BY <1>4 DEF CacheTypes
<1>6. ASSUME NEW p \in Object
      PROVE  active'[p] = Cardinality({d \in Conn : p \in held'[d]})
  <2>1. active[p] = Cardinality({d \in Conn : p \in held[d]})
    BY DEF CacheOK, CountedIn
  <2>2. CASE ~Counts(c)
    <3>1. active'[p] = active[p]
      BY <1>3, <1>4, <2>2
    <3> QED BY <1>4, <2>1, <2>2, <3>1
  <2>3. CASE Counts(c) /\ p # o
    <3>1. {d \in Conn : p \in held'[d]} = {d \in Conn : p \in held[d]}
      BY <1>4, <2>3
    <3> QED BY <1>4, <2>1, <2>3, <3>1
  <2>4. CASE Counts(c) /\ p = o
    <3> DEFINE before == {d \in Conn : o \in held[d]}
    <3>1. {d \in Conn : o \in held'[d]} = before \cup {c} /\ c \notin before
      BY <1>4, <2>4
    <3>2. IsFiniteSet(before)
      BY HoldersFinite
    <3>3. active[o] = Cardinality(before)
      BY <2>1, <2>4
    <3> HIDE DEF before
    <3>4. Cardinality(before \cup {c}) = Cardinality(before) + 1
      BY <3>1, <3>2, FS_AddElement
    <3>5. active'[o] = active[o] + 1
      BY <1>3, <1>4, <2>4
    <3> QED BY <2>4, <3>1, <3>3, <3>4, <3>5
  <2> QED BY <2>2, <2>3, <2>4
<1>7. DOMAIN table = DOMAIN traffic \cup {a} /\ table[a] = o
      /\ \A b \in DOMAIN traffic : b # a => table[b] = traffic[b]
  BY <1>1
<1>8. ASSUME NEW d \in Conn, NEW p \in held'[d]
      PROVE  d \in connections /\ address[d] \in DOMAIN table /\ table[address[d]] = p
  <2>1. CASE Counts(c) /\ d = c
    BY <1>1, <1>4, <1>7, <2>1
  <2>2. CASE ~(Counts(c) /\ d = c)
    <3>1. p \in held[d]
      BY <1>4, <2>2
    <3>2. d \in connections /\ address[d] \in DOMAIN traffic /\ traffic[address[d]] = p
      BY <3>1 DEF CacheOK, CountedIn
    <3> QED BY <1>2, <1>7, <3>2
  <2> QED BY <2>1, <2>2
<1>9. \A b, e \in DOMAIN table : table[b] = table[e] => b = e
  BY <1>2, <1>7 DEF CacheOK, CountedIn
<1>10. /\ rest \in Seq(Address) /\ Distinct(rest)
       /\ ToSet(rest) = ToSet(inactive) \ {a}
  BY <1>1, WithoutFacts DEF CacheOK, TableOK, CountedIn
<1>11. /\ list \in Seq(Address) /\ Distinct(list)
       /\ count > 0 => ToSet(list) = ToSet(inactive) \ {a}
       /\ count = 0 => ToSet(list) = (ToSet(inactive) \ {a}) \cup {a}
  <2>1. CASE count > 0
    BY <1>1, <1>10, <2>1
  <2>2. CASE ~(count > 0)
    <3>1. list = Append(rest, a) /\ a \notin ToSet(rest)
      BY <1>1, <1>10, <2>2
    <3> QED BY <1>2, <1>10, <2>2, <3>1, AppendFacts
  <2> QED BY <2>1, <2>2
<1>12. ToSet(list) = {b \in DOMAIN table : active'[table[b]] = 0}
  <2>1. ToSet(inactive) = {b \in DOMAIN traffic : active[traffic[b]] = 0}
    BY DEF CacheOK, CountedIn
  <2>2. ASSUME NEW b \in DOMAIN traffic, b # a
        PROVE  active'[table[b]] = active[traffic[b]]
    <3>1. traffic[b] \in Object /\ traffic[b] # o /\ table[b] = traffic[b]
      BY <1>2, <1>7, <2>2 DEF CacheOK, TableOK
    <3> QED BY <1>4, <3>1
  <2>3. active'[table[a]] = count
    BY <1>4, <1>7
  <2>4. count > 0 \/ count = 0
    BY <1>3
  <2> QED BY <1>7, <1>11, <2>1, <2>2, <2>3, <2>4
<1>13. TableOK(table, list)
  <2>1. IsFiniteSet(DOMAIN traffic \cup {a})
    BY FS_AddElement DEF CacheOK, TableOK
  <2>2. \A b \in DOMAIN table : table[b] \in Object
    BY <1>2, <1>7 DEF CacheOK, TableOK
  <2>3. table \in [DOMAIN table -> Object]
    BY <1>1, <2>2
  <2> QED BY <1>2, <1>7, <1>11, <2>1, <2>3 DEF CacheOK, TableOK
<1>14. CountedIn(table, list, held', active', connections, address)
  BY <1>6, <1>8, <1>9, <1>11, <1>12 DEF CountedIn
<1>15. /\ TableOK(traffic', inactive')
       /\ CountedIn(traffic', inactive', held', active', connections, address)
       /\ Cardinality(DOMAIN traffic') > TrafficLimit => inactive' = <<>>
  BY <1>1, <1>4, <1>13, <1>14, TrimCounted
<1>16. TableOK(traffic, inactive)'
  BY <1>15 DEF TableOK
<1>17. CountedIn(traffic, inactive, held, active, connections, address)'
  BY <1>15 DEF CountedIn
<1> QED BY <1>5, <1>15, <1>16, <1>17 DEF CacheOK

\* What a step keeps that leaves the table and its list alone.
LEMMA CacheTableKept ==
  ASSUME CacheOK, UNCHANGED <<traffic, inactive>>,
         CountedIn(traffic, inactive, held', active', connections', address')
  PROVE  CacheOK'
<1>1. TableOK(traffic, inactive)'
  BY DEF CacheOK, TableOK
<1>2. CountedIn(traffic, inactive, held, active, connections, address)'
  BY DEF CountedIn
<1> QED BY <1>1, <1>2 DEF CacheOK

LEMMA ConnectionClosedKeeps ==
  ASSUME CacheOK, CacheTypes, NEW c \in Conn, ConnectionClosed(c)
  PROVE  CacheOK' /\ CacheTypes'
<1>1. /\ connections' = connections \ {c} /\ address' = address
      /\ held' = [held EXCEPT ![c] = {}]
      /\ active' = [o \in DOMAIN active |->
                      IF o \in held[c] THEN active[o] - 1 ELSE active[o]]
      /\ IF \E o \in held[c] : active[o] = 1
         THEN IF address[c] \in DOMAIN traffic /\ traffic[address[c]] \in held[c]
              THEN Trim(traffic, Append(Without(inactive, address[c]), address[c]))
              ELSE Trim(traffic, inactive)
         ELSE UNCHANGED <<traffic, inactive>>
  BY DEF ConnectionClosed, stopVars
<1>2. CASE held[c] = {}
  <2>1. held' = held /\ active' = active /\ UNCHANGED <<traffic, inactive>>
    BY <1>1, <1>2 DEF CacheTypes
  <2>2. CountedIn(traffic, inactive, held', active', connections', address')
    BY <1>1, <1>2, <2>1 DEF CacheOK, CountedIn
  <2> QED BY <1>1, <2>1, <2>2, CacheTableKept DEF CacheTypes
<1>3. CASE held[c] # {}
  <2>1. PICK a, o : /\ a = address[c] /\ o \in Object /\ held[c] = {o} /\ a \in Address
                    /\ a \in DOMAIN traffic /\ traffic[a] = o
    <3>1. PICK o \in held[c] : TRUE
      BY <1>3
    <3>2. \A p \in held[c] : address[c] \in DOMAIN traffic /\ traffic[address[c]] = p
      BY DEF CacheOK, CountedIn
    <3>3. held[c] = {o}
      BY <3>1, <3>2
    <3>4. o \in Object /\ address[c] \in Address
      BY <3>1 DEF CacheTypes
    <3> QED BY <3>1, <3>2, <3>3, <3>4
  <2> DEFINE before == {d \in Conn : o \in held[d]}
  <2>2. IsFiniteSet(before) /\ Cardinality(before) \in Nat /\ c \in before
        /\ active[o] = Cardinality(before)
    <3>1. IsFiniteSet(before) /\ Cardinality(before) \in Nat
      BY HoldersFinite
    <3>2. \A p \in Object : active[p] = Cardinality({d \in Conn : p \in held[d]})
      BY DEF CacheOK, CountedIn
    <3>3. active[o] = Cardinality(before)
      BY <2>1, <3>2
    <3>4. c \in before
      BY <2>1
    <3> QED BY <3>1, <3>3, <3>4
  <2>3. /\ Cardinality(before) # 0 /\ Cardinality(before \ {c}) = active[o] - 1
    <3> HIDE DEF before
    <3>1. Cardinality(before) # 0
      BY <2>2, FS_EmptySet
    <3> QED BY <2>2, <3>1, FS_RemoveElement
  <2>4. /\ active[o] \in Nat /\ active[o] > 0 /\ active'[o] = active[o] - 1
        /\ \A p \in Object \ {o} : active'[p] = active[p]
        /\ active' \in [Object -> Nat]
    <3>1. active[o] \in Nat /\ active[o] > 0
      BY <2>2, <2>3
    <3> QED BY <1>1, <2>1, <3>1 DEF CacheTypes
  <2>5. /\ held' \in [Conn -> SUBSET Object] /\ held'[c] = {}
        /\ \A d \in Conn \ {c} : held'[d] = held[d]
    BY <1>1 DEF CacheTypes
  <2>6. CacheTypes'
    BY <1>1, <2>4, <2>5 DEF CacheTypes
  <2>7. ASSUME NEW p \in Object
        PROVE  active'[p] = Cardinality({d \in Conn : p \in held'[d]})
    <3>1. active[p] = Cardinality({d \in Conn : p \in held[d]})
      BY DEF CacheOK, CountedIn
    <3>2. CASE p = o
      <4>1. {d \in Conn : o \in held'[d]} = before \ {c}
        BY <2>1, <2>5
      <4> QED BY <2>3, <2>4, <3>2, <4>1
    <3>3. CASE p # o
      <4>1. {d \in Conn : p \in held'[d]} = {d \in Conn : p \in held[d]}
        BY <2>1, <2>5, <3>3
      <4> QED BY <2>4, <3>1, <3>3, <4>1
    <3> QED BY <3>2, <3>3
  <2>8. ASSUME NEW d \in Conn, NEW p \in held'[d]
        PROVE  d \in connections' /\ address'[d] \in DOMAIN traffic /\ traffic[address'[d]] = p
    <3>1. d # c /\ p \in held[d]
      BY <2>5
    <3>2. d \in connections /\ address[d] \in DOMAIN traffic /\ traffic[address[d]] = p
      BY <3>1 DEF CacheOK, CountedIn
    <3> QED BY <1>1, <3>1, <3>2
  <2>9. \A b, e \in DOMAIN traffic : traffic[b] = traffic[e] => b = e
    BY DEF CacheOK, CountedIn
  <2>10. \A b \in DOMAIN traffic : b # a => active'[traffic[b]] = active[traffic[b]]
    BY <2>1, <2>4, <2>9 DEF CacheOK, TableOK
  <2>11. ToSet(inactive) = {b \in DOMAIN traffic : active[traffic[b]] = 0} /\ Distinct(inactive)
    BY DEF CacheOK, CountedIn
  <2>12. CASE active[o] = 1
    <3> DEFINE rest == Without(inactive, a)
               list == Append(rest, a)
    <3>1. Trim(traffic, list)
      BY <1>1, <2>1, <2>12
    <3>2. rest \in Seq(Address) /\ Distinct(rest) /\ ToSet(rest) = ToSet(inactive) \ {a}
      BY <2>11, WithoutFacts DEF CacheOK, TableOK
    <3> HIDE DEF rest
    <3>3. list \in Seq(Address) /\ Distinct(list) /\ ToSet(list) = ToSet(rest) \cup {a}
      BY <2>1, <3>2, AppendFacts
    <3> HIDE DEF list
    <3>4. ToSet(list) = {b \in DOMAIN traffic : active'[traffic[b]] = 0}
      <4>1. active'[traffic[a]] = 0
        BY <2>1, <2>4, <2>12
      <4> QED BY <2>1, <2>10, <2>11, <3>2, <3>3, <4>1
    <3>5. TableOK(traffic, list)
      BY <3>3 DEF CacheOK, TableOK
    <3>6. CountedIn(traffic, list, held', active', connections', address')
      BY <2>7, <2>8, <2>9, <3>3, <3>4 DEF CountedIn
    <3>7. /\ TableOK(traffic', inactive')
          /\ CountedIn(traffic', inactive', held', active', connections', address')
          /\ Cardinality(DOMAIN traffic') > TrafficLimit => inactive' = <<>>
      BY <2>5, <3>1, <3>5, <3>6, TrimCounted
    <3>8. TableOK(traffic, inactive)'
      BY <3>7 DEF TableOK
    <3>9. CountedIn(traffic, inactive, held, active, connections, address)'
      BY <3>7 DEF CountedIn
    <3> QED BY <2>6, <3>7, <3>8, <3>9 DEF CacheOK
  <2>13. CASE active[o] # 1
    <3>1. UNCHANGED <<traffic, inactive>>
      BY <1>1, <2>1, <2>13
    <3>2. active'[traffic[a]] # 0 /\ active[traffic[a]] # 0
      BY <2>1, <2>4, <2>13
    <3>3. ToSet(inactive) = {b \in DOMAIN traffic : active'[traffic[b]] = 0}
      BY <2>10, <2>11, <3>2
    <3>4. CountedIn(traffic, inactive, held', active', connections', address')
      BY <2>7, <2>8, <2>9, <2>11, <3>3 DEF CountedIn
    <3> QED BY <2>6, <3>1, <3>4, CacheTableKept
  <2> QED BY <2>12, <2>13
<1> QED BY <1>2, <1>3

LEMMA PruneTrafficKeeps ==
  ASSUME CacheOK, CacheTypes, PruneTraffic
  PROVE  CacheOK' /\ CacheTypes'
<1>1. PICK n \in 1 .. Len(inactive) : Drop(traffic, inactive, n)
  BY DEF PruneTraffic
<1>2. inactive \in Seq(Address) /\ held \in [Conn -> SUBSET Object]
  BY DEF CacheOK, TableOK, CacheTypes
<1>3. n \in 0 .. Len(inactive) /\ n > 0 /\ Len(inactive) \in Nat
  BY <1>2
<1>4. /\ TableOK(traffic', inactive')
      /\ CountedIn(traffic', inactive', held, active, connections, address)
      /\ Cardinality(DOMAIN traffic') = Cardinality(DOMAIN traffic) - n
      /\ Cardinality(DOMAIN traffic) \in Nat
  BY <1>1, <1>2, <1>3, DropCounted DEF CacheOK
<1>5. inactive # <<>>
  BY <1>2, <1>3
<1>6. ~(Cardinality(DOMAIN traffic) > TrafficLimit)
  BY <1>5 DEF CacheOK
<1>7. ~(Cardinality(DOMAIN traffic') > TrafficLimit)
  BY <1>3, <1>4, <1>6, ConnectionsAssumption
<1>8. UNCHANGED <<held, active, connections, address>>
  BY DEF PruneTraffic, registryVars, stopVars
<1>9. TableOK(traffic, inactive)'
  BY <1>4 DEF TableOK
<1>10. CountedIn(traffic, inactive, held, active, connections, address)'
  BY <1>4, <1>8 DEF CountedIn
<1> QED BY <1>7, <1>8, <1>9, <1>10 DEF CacheOK, CacheTypes

\* The other steps leave the cache alone; they only register connections.
LEMMA CacheStutter ==
  ASSUME CacheOK, CacheTypes, UNCHANGED <<trafficVars, address>>,
         connections \subseteq connections'
  PROVE  CacheOK' /\ CacheTypes'
<1>1. UNCHANGED <<traffic, inactive, held, active, address>>
  BY DEF trafficVars
<1>2. CountedIn(traffic, inactive, held', active', connections', address')
  BY <1>1 DEF CacheOK, CountedIn
<1> QED BY <1>1, <1>2, CacheTableKept DEF CacheTypes

LEMMA CacheIsCounted ==
  /\ CacheOK => Counted
  /\ Counted /\ TypeOK => CacheOK /\ CacheTypes
<1>1. CacheOK => Counted
  BY DEF CacheOK, CountedIn, Counted, Distinct
<1>2. Counted /\ TypeOK => CacheOK /\ CacheTypes
  BY DEF CacheOK, CountedIn, Counted, Distinct, TypeOK, TableOK, CacheTypes
<1> QED BY <1>1, <1>2

-----------------------------------------------------------------------------
(* The steps, by what they leave alone.                                    *)

LEMMA NextCases ==
  ASSUME [Next]_vars
  PROVE  \/ \E c \in Conn : \/ Client(c) \/ ClientChooses(c) \/ Shake(c) \/ ShakeTimeout(c)
                            \/ KeepaliveFails(c) \/ CloseListed(c)
         \/ \E c \in Conn : \/ Accept(c) \/ StartAccept(c) \/ Check(c) \/ GiveUp(c)
                            \/ FinishHandshake(c)
         \/ \E c \in Conn : \/ TrafficForConnection(c) \/ Admit(c) \/ StopServing(c)
                            \/ LeaveCloses(c) \/ Leave(c) \/ ConnectionClosed(c)
                            \/ ListedClosed(c)
         \/ AcceptFails \/ Cancel \/ ShutdownBegins \/ ShutdownReturns \/ PruneTraffic
         \/ UNCHANGED vars
<1>1. ASSUME NEW c \in Conn, Acceptor(c) \/ StreamRefused(c)
      PROVE  \/ Shake(c) \/ Check(c) \/ GiveUp(c) \/ FinishHandshake(c)
             \/ TrafficForConnection(c) \/ Admit(c) \/ StopServing(c)
             \/ LeaveCloses(c) \/ Leave(c)
  BY <1>1 DEF Acceptor, ServeEnds, StreamRefused
<1> QED BY <1>1 DEF Next, Shutdown

\* Handshake messages, deadlines and the closing of connections.
LEMMA HandshakeOnly ==
  ASSUME \/ \E c \in Conn : \/ Client(c) \/ ClientChooses(c) \/ Shake(c) \/ ShakeTimeout(c)
                            \/ KeepaliveFails(c) \/ CloseListed(c)
         \/ UNCHANGED vars
  PROVE  UNCHANGED <<at, loop, pending, connections, sessions, trafficVars,
                     cancelled, doomed, address>>
BY DEF Client, ClientChooses, Shake, ShakeTimeout, KeepaliveFails, CloseListed, vars,
   registryVars, stopVars

\* Nothing happens in the server after its shutdown.
LEMMA AfterShutdown ==
  ASSUME TypeOK, [Next]_vars, loop = "done"
  PROVE  UNCHANGED <<at, loop, pending, connections, sessions, trafficVars, address>>
<1>1. /\ connections = {} /\ inactive = <<>>
      /\ \A c \in Conn : at[c] \in {"idle", "returned"}
  BY DEF TypeOK
<1>2. ASSUME NEW c \in Conn
      PROVE  /\ ~Accept(c) /\ ~StartAccept(c) /\ ~Check(c) /\ ~GiveUp(c) /\ ~FinishHandshake(c)
             /\ ~TrafficForConnection(c) /\ ~Admit(c) /\ ~StopServing(c)
             /\ ~LeaveCloses(c) /\ ~Leave(c) /\ ~ConnectionClosed(c)
  BY <1>1 DEF Accept, StartAccept, Check, GiveUp, FinishHandshake, TrafficForConnection,
     Admit, StopServing, LeaveCloses, Leave, ConnectionClosed
<1>3. ~AcceptFails /\ ~ShutdownBegins /\ ~ShutdownReturns
  BY DEF AcceptFails, ShutdownBegins, ShutdownReturns
<1>4. ~PruneTraffic
  <2>1. 1 .. Len(inactive) = {}
    BY <1>1
  <2> QED BY <2>1 DEF PruneTraffic
<1>5. CASE Cancel \/ \E c \in Conn : ListedClosed(c)
  BY <1>5 DEF Cancel, ListedClosed, registryVars, stopVars
<1> QED BY <1>2, <1>3, <1>4, <1>5, NextCases, HandshakeOnly

-----------------------------------------------------------------------------
(* The semaphore of pending handshakes.                                    *)

PendingAt == {"start", "checks", "handshake", "refused"}

LEMMA PendingFinite ==
  IsFiniteSet(Pending) /\ Cardinality(Pending) \in Nat
<1>1. Pending \in SUBSET Conn
  BY DEF Pending
<1> QED BY <1>1, FS_Subset, FS_CardinalityType, ConnectionsAssumption

LEMMA PendingMoves ==
  ASSUME TypeOK, PendingExact, NEW c \in Conn, NEW where, Move(c, where)
  PROVE  /\ at[c] \in PendingAt /\ where \in PendingAt /\ pending' = pending =>
              PendingExact' /\ pending' \in Nat
         /\ at[c] \notin PendingAt /\ where \notin PendingAt /\ pending' = pending =>
              PendingExact' /\ pending' \in Nat
         /\ at[c] \in PendingAt /\ where \notin PendingAt /\ pending' = pending - 1 =>
              PendingExact' /\ pending' \in Nat
         /\ /\ at[c] \notin PendingAt /\ where \in PendingAt /\ pending' = pending + 1
            /\ MaxPending > 0 => pending < MaxPending
            => PendingExact' /\ pending' \in Nat
<1>1. at'[c] = where /\ \A d \in Conn \ {c} : at'[d] = at[d]
  BY DEF TypeOK, Move
<1>2. PICK before, after :
        /\ before = {d \in Conn : at[d] \in PendingAt}
        /\ after = {d \in Conn : at'[d] \in PendingAt}
  OBVIOUS
<1>3. /\ IsFiniteSet(before) /\ Cardinality(before) \in Nat
      /\ MaxPending \in Nat /\ pending = Cardinality(before)
      /\ MaxPending > 0 => pending <= MaxPending
  <2>1. before = Pending
    BY <1>2 DEF Pending, PendingAt
  <2> QED BY <2>1, PendingFinite, ConnectionsAssumption DEF PendingExact
<1>4. /\ pending' = Cardinality(after) /\ (MaxPending > 0 => pending' <= MaxPending)
         => PendingExact'
  BY <1>2 DEF PendingExact, Pending, PendingAt
<1>5. ASSUME at[c] \in PendingAt <=> where \in PendingAt, pending' = pending
      PROVE  PendingExact' /\ pending' \in Nat
  <2>1. after = before
    BY <1>1, <1>2, <1>5
  <2> QED BY <1>3, <1>4, <1>5, <2>1
<1>6. ASSUME at[c] \in PendingAt, where \notin PendingAt, pending' = pending - 1
      PROVE  PendingExact' /\ pending' \in Nat
  <2>1. after = before \ {c} /\ c \in before
    BY <1>1, <1>2, <1>6
  <2>2. Cardinality(before \ {c}) = Cardinality(before) - 1
    BY <1>3, <2>1, FS_RemoveElement
  <2>3. Cardinality(before) # 0
    BY <1>3, <2>1, FS_EmptySet
  <2>4. pending' = Cardinality(after) /\ pending' \in Nat
    BY <1>3, <1>6, <2>1, <2>2, <2>3
  <2> QED BY <1>3, <1>4, <1>6, <2>4
<1>7. ASSUME at[c] \notin PendingAt, where \in PendingAt, pending' = pending + 1,
             MaxPending > 0 => pending < MaxPending
      PROVE  PendingExact' /\ pending' \in Nat
  <2>1. after = before \cup {c} /\ c \notin before
    BY <1>1, <1>2, <1>7
  <2>2. Cardinality(before \cup {c}) = Cardinality(before) + 1
    BY <1>3, <2>1, FS_AddElement
  <2>3. pending' = Cardinality(after)
    BY <1>3, <1>7, <2>1, <2>2
  <2> QED BY <1>3, <1>4, <1>7, <2>3
<1> QED BY <1>5, <1>6, <1>7

LEMMA PendingNext ==
  ASSUME TypeOK, PendingExact, [Next]_vars
  PROVE  PendingExact' /\ pending' \in Nat
<1>1. ASSUME UNCHANGED <<at, pending>>
      PROVE  PendingExact' /\ pending' \in Nat
  BY <1>1 DEF PendingExact, Pending, TypeOK
<1>2. ASSUME NEW c \in Conn, Accept(c)
      PROVE  PendingExact' /\ pending' \in Nat
  <2>1. CASE MaxPending > 0 /\ pending >= MaxPending
    BY <1>2, <2>1, PendingMoves DEF Accept, PendingAt
  <2>2. CASE ~(MaxPending > 0 /\ pending >= MaxPending)
    <3>1. Move(c, "start") /\ pending' = pending + 1 /\ at[c] = "idle"
      BY <1>2, <2>2 DEF Accept
    <3>2. MaxPending > 0 => pending < MaxPending
      BY <2>2, ConnectionsAssumption DEF TypeOK
    <3> QED BY <3>1, <3>2, PendingMoves DEF PendingAt
  <2> QED BY <2>1, <2>2
<1>3. ASSUME NEW c \in Conn, StartAccept(c)
      PROVE  PendingExact' /\ pending' \in Nat
  BY <1>3, PendingMoves DEF StartAccept, PendingAt
<1>4. ASSUME NEW c \in Conn, Check(c)
      PROVE  PendingExact' /\ pending' \in Nat
  BY <1>4, PendingMoves DEF Check, PendingAt
<1>5. ASSUME NEW c \in Conn, GiveUp(c) \/ FinishHandshake(c)
      PROVE  PendingExact' /\ pending' \in Nat
  BY <1>5, PendingMoves DEF GiveUp, FinishHandshake, PendingAt
<1>6. ASSUME NEW c \in Conn,
             \/ TrafficForConnection(c) \/ Admit(c) \/ StopServing(c)
             \/ LeaveCloses(c) \/ Leave(c)
      PROVE  PendingExact' /\ pending' \in Nat
  <2>1. pending' = pending /\ at[c] \notin PendingAt
        /\ \E where \in {"admit", "serving", "leaving", "closing", "returned"} : Move(c, where)
    BY <1>6 DEF TrafficForConnection, Admit, StopServing, LeaveCloses, Leave, Leaves, PendingAt
  <2> QED BY <2>1, PendingMoves DEF PendingAt
<1>7. ASSUME NEW c \in Conn, ConnectionClosed(c) \/ ListedClosed(c)
      PROVE  UNCHANGED <<at, pending>>
  BY <1>7 DEF ConnectionClosed, ListedClosed
<1>8. ASSUME AcceptFails \/ Cancel \/ ShutdownBegins \/ ShutdownReturns \/ PruneTraffic
      PROVE  UNCHANGED <<at, pending>>
  BY <1>8 DEF AcceptFails, Cancel, ShutdownBegins, ShutdownReturns, PruneTraffic
<1> QED BY <1>1, <1>2, <1>3, <1>4, <1>5, <1>6, <1>7, <1>8, NextCases, HandshakeOnly

-----------------------------------------------------------------------------
(* The registries, the cache and the whole invariant.                      *)

\* The conjuncts of TypeOK about the acceptors and the registries.
RegistryOK ==
  /\ at \in [Conn -> {"idle", "start", "checks", "refused", "handshake", "traffic",
                     "admit", "serving", "leaving", "closing", "returned"}]
  /\ loop \in {"accept", "start", "stopping", "closing", "done"}
  /\ cancelled \in BOOLEAN
  /\ connections \subseteq Conn /\ sessions \subseteq Conn /\ doomed \subseteq Conn
  /\ MaxSessions > 0 => Cardinality(sessions) <= MaxSessions

LEMMA AdmitKeepsLimit ==
  ASSUME RegistryOK, NEW c \in Conn, Admit(c)
  PROVE  /\ sessions' \subseteq Conn
         /\ MaxSessions > 0 => Cardinality(sessions') <= MaxSessions
<1>1. /\ IsFiniteSet(sessions) /\ Cardinality(sessions) \in Nat /\ MaxSessions \in Nat
  <2>1. IsFiniteSet(sessions)
    BY ConnectionsAssumption, FS_Subset DEF RegistryOK
  <2> QED BY <2>1, ConnectionsAssumption, FS_CardinalityType
<1>2. CASE sessions' = sessions
  BY <1>2 DEF RegistryOK
<1>3. CASE /\ ~(MaxSessions > 0 /\ Cardinality(sessions) >= MaxSessions)
           /\ sessions' = sessions \cup {c}
  <2>1. Cardinality(sessions \cup {c}) = IF c \in sessions THEN Cardinality(sessions)
                                         ELSE Cardinality(sessions) + 1
    BY <1>1, FS_AddElement
  <2> QED BY <1>1, <1>3, <2>1 DEF RegistryOK
<1> QED BY <1>2, <1>3 DEF Admit

LEMMA RegistryNext ==
  ASSUME TypeOK, [Next]_vars
  PROVE  RegistryOK'
<1>1. RegistryOK
  BY DEF TypeOK, RegistryOK
<1>2. CASE UNCHANGED <<at, loop, connections, sessions, cancelled, doomed>>
  BY <1>1, <1>2 DEF RegistryOK
<1>3. ASSUME NEW c \in Conn,
             Accept(c) \/ StartAccept(c) \/ Check(c) \/ GiveUp(c) \/ FinishHandshake(c)
      PROVE  RegistryOK'
  <2>1. /\ \E where \in {"returned", "start", "checks", "refused", "handshake", "traffic"} :
             Move(c, where)
        /\ loop' \in {loop, "start", "accept"}
        /\ connections' \in {connections, connections \cup {c}}
        /\ UNCHANGED <<sessions, cancelled, doomed>>
    BY <1>3 DEF Accept, StartAccept, Check, GiveUp, FinishHandshake, registryVars, stopVars
  <2>2. RegistryOK /\ \E where \in {"returned", "start", "checks", "refused", "handshake", "traffic"} :
                        at' = [at EXCEPT ![c] = where]
    BY <1>1, <2>1 DEF Move
  <2>3. /\ connections' \subseteq Conn
        /\ loop' \in {"accept", "start", "stopping", "closing", "done"}
    BY <1>1, <2>1 DEF RegistryOK
  <2> QED BY <2>1, <2>2, <2>3 DEF RegistryOK
<1>4. ASSUME NEW c \in Conn,
             \/ TrafficForConnection(c) \/ Admit(c) \/ StopServing(c)
             \/ LeaveCloses(c) \/ Leave(c)
      PROVE  RegistryOK'
  <2>1. /\ \E where \in {"admit", "serving", "leaving", "closing", "returned"} : Move(c, where)
        /\ UNCHANGED <<loop, connections, cancelled, doomed>>
    BY <1>4 DEF TrafficForConnection, Admit, StopServing, LeaveCloses, Leave, registryVars, stopVars
  <2>2. at' \in [Conn -> {"idle", "start", "checks", "refused", "handshake", "traffic",
                     "admit", "serving", "leaving", "closing", "returned"}]
    BY <1>1, <2>1 DEF RegistryOK, Move
  <2>3. /\ sessions' \subseteq Conn
        /\ MaxSessions > 0 => Cardinality(sessions') <= MaxSessions
    <3>1. CASE sessions' = sessions
      BY <1>1, <3>1 DEF RegistryOK
    <3>2. CASE sessions' = sessions \ {c}
      <4>1. IsFiniteSet(sessions) /\ MaxSessions \in Nat
        BY <1>1, ConnectionsAssumption, FS_Subset DEF RegistryOK
      <4>2. /\ Cardinality(sessions) \in Nat /\ Cardinality(sessions \ {c}) \in Nat
            /\ Cardinality(sessions \ {c}) <= Cardinality(sessions)
        <5>1. PICK rest : rest = sessions \ {c} /\ rest \in SUBSET sessions
          OBVIOUS
        <5>2. IsFiniteSet(rest) /\ Cardinality(rest) <= Cardinality(sessions)
          BY <4>1, <5>1, FS_Subset
        <5> QED BY <4>1, <5>1, <5>2, FS_CardinalityType
      <4> QED BY <1>1, <3>2, <4>1, <4>2 DEF RegistryOK
    <3>3. CASE Admit(c)
      BY <1>1, <3>3, AdmitKeepsLimit
    <3> QED BY <1>4, <3>1, <3>2, <3>3 DEF TrafficForConnection, StopServing, LeaveCloses,
               Leave, registryVars
  <2> QED BY <1>1, <2>1, <2>2, <2>3 DEF RegistryOK
<1>5. ASSUME NEW c \in Conn, ConnectionClosed(c) \/ ListedClosed(c)
      PROVE  RegistryOK'
  <2>1. /\ connections' \subseteq connections /\ doomed' \subseteq doomed
        /\ UNCHANGED <<at, loop, sessions, cancelled>>
    BY <1>5 DEF ConnectionClosed, ListedClosed, registryVars, stopVars
  <2> QED BY <1>1, <2>1 DEF RegistryOK
<1>6. ASSUME AcceptFails \/ Cancel \/ ShutdownBegins \/ PruneTraffic
      PROVE  RegistryOK'
  BY <1>1, <1>6 DEF RegistryOK, AcceptFails, Cancel, ShutdownBegins, PruneTraffic, Listed,
     registryVars, stopVars
<1>7. CASE ShutdownReturns
  <2>1. Cardinality({}) = 0 /\ MaxSessions \in Nat
    BY FS_EmptySet, ConnectionsAssumption
  <2> QED BY <1>1, <1>7, <2>1 DEF RegistryOK, ShutdownReturns, stopVars
<1> QED BY <1>2, <1>3, <1>4, <1>5, <1>6, <1>7, NextCases, HandshakeOnly

LEMMA CacheNext ==
  ASSUME CacheOK, CacheTypes, [Next]_vars, ~ShutdownReturns
  PROVE  CacheOK' /\ CacheTypes'
<1>1. CASE UNCHANGED <<trafficVars, address, connections>>
  BY <1>1, CacheStutter
<1>2. ASSUME NEW c \in Conn,
             Accept(c) \/ StartAccept(c) \/ Check(c) \/ GiveUp(c) \/ FinishHandshake(c)
      PROVE  UNCHANGED <<trafficVars, address>> /\ connections \subseteq connections'
  BY <1>2 DEF Accept, StartAccept, Check, GiveUp, FinishHandshake, registryVars, stopVars
<1>3. ASSUME NEW c \in Conn,
             Admit(c) \/ StopServing(c) \/ LeaveCloses(c) \/ Leave(c) \/ ListedClosed(c)
      PROVE  UNCHANGED <<trafficVars, address, connections>>
  BY <1>3 DEF Admit, StopServing, LeaveCloses, Leave, ListedClosed, registryVars, stopVars
<1>4. ASSUME NEW c \in Conn, TrafficForConnection(c)
      PROVE  CacheOK' /\ CacheTypes'
  BY <1>4, TakeTrafficKeeps DEF TrafficForConnection, registryVars, stopVars
<1>5. ASSUME AcceptFails \/ Cancel \/ ShutdownBegins
      PROVE  UNCHANGED <<trafficVars, address, connections>>
  BY <1>5 DEF AcceptFails, Cancel, ShutdownBegins, registryVars, stopVars
<1> QED BY <1>1, <1>2, <1>3, <1>4, <1>5, CacheStutter, ConnectionClosedKeeps, PruneTrafficKeeps,
           NextCases, HandshakeOnly

LEMMA ConnectionsInit == Init => ConnectionsInv
<1> SUFFICES ASSUME Init PROVE ConnectionsInv
  OBVIOUS
<1>1. /\ at = [c \in Conn |-> "idle"] /\ loop = "accept" /\ pending = 0
      /\ connections = {} /\ sessions = {} /\ doomed = {} /\ cancelled = FALSE
      /\ held = [c \in Conn |-> {}] /\ active = [o \in Object |-> 0]
      /\ traffic = <<>> /\ inactive = <<>>
      /\ address \in [Conn -> Address]
  BY ConnectionsAssumption DEF Init
<1>2. /\ ExchangeInv /\ HandshakeTypeOK
  BY ExchangeInit DEF ExchangeInv
<1>3. IsFiniteSet({}) /\ Cardinality({}) = 0 /\ {MaxPending, MaxSessions} \subseteq Nat
      /\ TrafficLimit \in Nat
  BY FS_EmptySet, ConnectionsAssumption
<1>4. DOMAIN traffic = {} /\ traffic \in [DOMAIN traffic -> Object] /\ inactive \in Seq(Address)
      /\ ToSet(inactive) = {} /\ Len(inactive) = 0
  <2>1. DOMAIN traffic = {} /\ inactive \in Seq(Address) /\ Len(inactive) = 0
    BY <1>1
  <2>2. traffic \in [DOMAIN traffic -> Object]
    BY <1>1
  <2>3. ToSet(inactive) = {}
    BY <1>1 DEF ToSet
  <2> QED BY <2>1, <2>2, <2>3
<1>5. TypeOK
  <2>1. RegistryOK
    <3>1. cancelled \in BOOLEAN
      BY <1>1
    <3>2. Cardinality(sessions) = 0 /\ MaxSessions \in Nat
      BY <1>1, <1>3
    <3>3. at \in [Conn -> {"idle", "start", "checks", "refused", "handshake", "traffic",
                          "admit", "serving", "leaving", "closing", "returned"}]
      BY <1>1
    <3> QED BY <1>1, <3>1, <3>2, <3>3 DEF RegistryOK
  <2>2. held \in [Conn -> SUBSET Object] /\ active \in [Object -> Nat]
    BY <1>1
  <2>3. DOMAIN traffic \subseteq Address /\ IsFiniteSet(DOMAIN traffic)
    BY <1>3, <1>4
  <2>4. pending \in Nat /\ loop # "done"
    BY <1>1
  <2> QED BY <1>1, <1>2, <1>4, <2>1, <2>2, <2>3, <2>4 DEF TypeOK, RegistryOK
<1>6. PendingExact
  <2>1. Pending = {}
    BY <1>1 DEF Pending
  <2> QED BY <1>1, <1>3, <2>1 DEF PendingExact
<1>7. Counted
  <2>1. ASSUME NEW o \in Object
        PROVE  active[o] = Cardinality({c \in Conn : o \in held[c]})
    <3>1. {c \in Conn : o \in held[c]} = {}
      BY <1>1
    <3> QED BY <1>1, <1>3, <3>1
  <2>2. \A c \in Conn : held[c] = {}
    BY <1>1
  <2>3. ToSet(inactive) = {a \in DOMAIN traffic : active[traffic[a]] = 0}
    BY <1>4
  <2>4. \A i, j \in 1 .. Len(inactive) : inactive[i] = inactive[j] => i = j
    BY <1>4
  <2> QED BY <1>1, <1>4, <2>1, <2>2, <2>3, <2>4 DEF Counted
<1> QED BY <1>2, <1>5, <1>6, <1>7 DEF ConnectionsInv, TrafficInv

LEMMA ConnectionsNext == ConnectionsInv /\ [Next]_vars => ConnectionsInv'
<1> SUFFICES ASSUME ConnectionsInv, [Next]_vars PROVE ConnectionsInv'
  OBVIOUS
<1>1. TypeOK /\ PendingExact /\ TrafficInv /\ ExchangeInv
  BY DEF ConnectionsInv
<1>2. ExchangeInv' /\ HandshakeTypeOK'
  BY <1>1, ExchangeNext DEF ExchangeInv
<1>3. PendingExact' /\ pending' \in Nat /\ RegistryOK'
  BY <1>1, PendingNext, RegistryNext
<1>4. CASE loop # "done" /\ ~ShutdownReturns
  <2>1. CacheOK' /\ CacheTypes'
    BY <1>1, <1>4, CacheIsCounted, CacheNext DEF TrafficInv
  <2>2. Counted'
    BY <2>1 DEF CacheOK, CountedIn, Counted, Distinct
  <2>3. /\ DOMAIN traffic' \subseteq Address /\ IsFiniteSet(DOMAIN traffic)'
        /\ traffic' \in [DOMAIN traffic' -> Object] /\ inactive' \in Seq(Address)
    BY <2>1 DEF CacheOK, TableOK
  <2>4. loop' # "done"
    <3>1. ASSUME NEW c \in Conn,
                 Accept(c) \/ StartAccept(c) \/ Check(c) \/ GiveUp(c) \/ FinishHandshake(c)
          PROVE  loop' # "done"
      BY <1>4, <3>1 DEF Accept, StartAccept, Check, GiveUp, FinishHandshake
    <3>2. ASSUME NEW c \in Conn,
                 \/ TrafficForConnection(c) \/ Admit(c) \/ StopServing(c) \/ LeaveCloses(c)
                 \/ Leave(c) \/ ConnectionClosed(c) \/ ListedClosed(c)
          PROVE  loop' # "done"
      BY <1>4, <3>2 DEF TrafficForConnection, Admit, StopServing, LeaveCloses, Leave,
         ConnectionClosed, ListedClosed
    <3>3. ASSUME AcceptFails \/ Cancel \/ ShutdownBegins \/ PruneTraffic
          PROVE  loop' # "done"
      BY <1>4, <3>3 DEF AcceptFails, Cancel, ShutdownBegins, PruneTraffic
    <3> QED BY <1>4, <3>1, <3>2, <3>3, NextCases, HandshakeOnly
  <2>5. TypeOK'
    BY <1>2, <1>3, <2>1, <2>3, <2>4 DEF TypeOK, RegistryOK, CacheTypes
  <2> QED BY <1>2, <1>3, <2>2, <2>5 DEF ConnectionsInv, TrafficInv
<1>5. CASE loop = "done"
  <2>1. UNCHANGED <<at, loop, pending, connections, sessions, trafficVars, address>>
    BY <1>1, <1>5, AfterShutdown
  <2>2. UNCHANGED <<held, active, traffic, inactive>>
    BY <2>1 DEF trafficVars
  <2>3. TypeOK'
    BY <1>1, <1>2, <1>3, <2>1, <2>2 DEF TypeOK, RegistryOK
  <2> QED BY <1>2, <1>3, <1>5, <2>1, <2>3 DEF ConnectionsInv, TrafficInv
<1>6. CASE ShutdownReturns
  <2>1. /\ loop' = "done" /\ connections' = {} /\ traffic' = <<>> /\ inactive' = <<>>
        /\ \A c \in Conn : at'[c] \in {"idle", "returned"}
        /\ UNCHANGED <<held, active, address>>
    BY <1>6 DEF ShutdownReturns, stopVars
  <2>2. /\ DOMAIN traffic' \subseteq Address /\ DOMAIN traffic' = {}
        /\ traffic' \in [DOMAIN traffic' -> Object] /\ inactive' \in Seq(Address)
    BY <2>1
  <2>3. IsFiniteSet(DOMAIN traffic)'
    BY <2>2, FS_EmptySet
  <2>4. TypeOK'
    BY <1>1, <1>2, <1>3, <2>1, <2>2, <2>3 DEF TypeOK, RegistryOK
  <2> QED BY <1>2, <1>3, <2>1, <2>4 DEF ConnectionsInv, TrafficInv
<1> QED BY <1>4, <1>5, <1>6

\* The inductive invariant of the server's connections holds throughout:
\* handshakes agree, the limits of sessions and pending handshakes are kept,
\* every pending connection holds exactly one token, and the cache of traffic
\* counters is exact until the shutdown drops it (runTCP,
\* acceptWithHandshakeDone, trafficForConnection, connectionClosed).
THEOREM ConnectionsInvariance == Spec => []ConnectionsInv
BY ConnectionsInit, ConnectionsNext, PTL DEF Spec

\* The semaphore of runTCP counts exactly the connections between Accept and
\* finishHandshake: no path of acceptWithHandshakeDone loses a token or returns
\* one twice, and MaxPendingConnections is never exceeded.
THEOREM TokensExact == Spec => []PendingExact
<1>1. ConnectionsInv => PendingExact
  BY DEF ConnectionsInv
<1> QED BY <1>1, ConnectionsInvariance, PTL

\* trafficForConnection and connectionClosed count each registered connection
\* once, in the counters of its address, and trimTrafficLocked and
\* pruneTrafficLocked never drop counters a connection still uses.
THEOREM TrafficExact == Spec => []TrafficInv
<1>1. ConnectionsInv => TrafficInv
  BY DEF ConnectionsInv
<1> QED BY <1>1, ConnectionsInvariance, PTL
=============================================================================
