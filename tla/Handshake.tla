----------------------------- MODULE Handshake -----------------------------
(***************************************************************************)
(* The two ends of the handshake on each physical connection: on the       *)
(* client DialSessionWithAuth and AuthenticatePeerClient, on the server    *)
(* AcceptSession and AuthenticatePeerServer (internal/tcpstream/session.go *)
(* and auth.go).  Both exchange prefaces; a server with configured peers   *)
(* asks for authentication in its preface and challenges the client.       *)
(*                                                                         *)
(* A credential stands for a user name with its password.  What a MAC      *)
(* proves is the credential it was computed with: nonces, prefaces and the *)
(* layout of the messages, which bind it to this exchange, are left out.   *)
(*                                                                         *)
(* Module ServerConnections runs the server's end in its acceptors.        *)
(***************************************************************************)
EXTENDS Integers, Sequences, FiniteSets

CONSTANTS
  Conn,        \* physical connections
  Credential,  \* user names with their passwords
  Known,       \* those in the server's peerAuth.users
  Peers        \* the configurations considered: whether the server has
               \* peerAuth, and what the client of each connection has

ASSUME HandshakeAssumption ==
  /\ Known \subseteq Credential
  /\ \A p \in Peers : /\ p.required \in BOOLEAN
                      /\ p.credentials \in [Conn -> SUBSET Credential]
                      /\ \A c \in Conn : \A x, y \in p.credentials[c] : x = y

VARIABLES
  required,    \* the server has peerAuth configured
  credentials, \* credentials[c]: what the client of c has configured, if any
  client,      \* DialSession on c: the message it waits for, or its outcome
  server,      \* AcceptSession on c: likewise
  principal,   \* principal[c]: whom AcceptSession returned, if anybody
  toServer,    \* messages written by the client and not read yet
  toClient,    \* messages written by the server and not read yet
  closedEnds   \* closedEnds[c]: the sides that closed the connection

peerVars == <<required, credentials, client, server, principal>>
handshakeVars == <<peerVars, toServer, toClient, closedEnds>>

Preface(auth)   == [type |-> "preface", auth |-> auth]
Challenge       == [type |-> "challenge"]
Response(cred)  == [type |-> "response", from |-> cred]
Result(ok, key) == [type |-> "result", ok |-> ok, proof |-> key]

HandshakeInit ==
  /\ \E p \in Peers : required = p.required /\ credentials = p.credentials
  /\ client = [c \in Conn |-> "idle"]
  /\ server = [c \in Conn |-> "idle"]
  /\ principal = [c \in Conn |-> {}]
  /\ toServer = [c \in Conn |-> <<>>]
  /\ toClient = [c \in Conn |-> <<>>]
  /\ closedEnds = [c \in Conn |-> {}]

\* Side s closes its end of c: nobody reads what was sent to it any more.
CloseClient(c) ==
  /\ closedEnds' = [closedEnds EXCEPT ![c] = @ \cup {"client"}]
  /\ toClient' = [toClient EXCEPT ![c] = <<>>]
CloseServer(c) ==
  /\ closedEnds' = [closedEnds EXCEPT ![c] = @ \cup {"server"}]
  /\ toServer' = [toServer EXCEPT ![c] = <<>>]

\* What is sent to an end that was closed is lost.
Sent(channel, side, c, messages) ==
  IF side \in closedEnds[c] THEN channel
  ELSE [channel EXCEPT ![c] = @ \o messages]

-----------------------------------------------------------------------------
(* The client.                                                             *)

ClientWaits(c) == client[c] \in {"preface", "challenge", "result"}

\* The connection is dialled and the client's preface written.
Dial(c) ==
  /\ client[c] = "idle"
  /\ client' = [client EXCEPT ![c] = "preface"]
  /\ toServer' = Sent(toServer, "server", c, <<Preface(FALSE)>>)
  /\ UNCHANGED <<required, credentials, server, principal, toClient, closedEnds>>

\* The client takes the message at the head and goes on, or closes.
ClientTakes(c, next) ==
  /\ toClient[c] # <<>>
  /\ client' = [client EXCEPT ![c] = next]
  /\ IF next = "failed" THEN CloseClient(c)
     ELSE /\ toClient' = [toClient EXCEPT ![c] = Tail(@)]
          /\ UNCHANGED closedEnds
  /\ UNCHANGED <<required, credentials, server, principal>>

\* Mutant of AfterPreface: a client with credentials accepts a server that
\* does not ask for them.
AfterPrefaceDowngraded(c, auth) ==
  IF ~auth THEN "session"
  ELSE IF credentials[c] # {} THEN "challenge" ELSE "failed"

\* ErrPeerAuthenticationRequired, ErrPeerAuthenticationDowngrade
AfterPreface(c, auth) ==
  IF auth = (credentials[c] = {}) THEN "failed"
  ELSE IF auth THEN "challenge" ELSE "session"

ClientReadsPreface(c) ==
  /\ client[c] = "preface"
  /\ ClientTakes(c, AfterPreface(c, Head(toClient[c]).auth))
  /\ UNCHANGED toServer

ClientAnswers(c) ==
  /\ client[c] = "challenge"
  /\ ClientTakes(c, "result")
  /\ \E cred \in credentials[c] :
       toServer' = Sent(toServer, "server", c, <<Response(cred)>>)

ClientReadsResult(c) ==
  /\ client[c] = "result"
  /\ ClientTakes(c, IF /\ Head(toClient[c]).ok
                       /\ Head(toClient[c]).proof \in credentials[c]
                    THEN "session" ELSE "failed")
  /\ UNCHANGED toServer

ClientEnds(c, how) ==
  /\ client' = [client EXCEPT ![c] = how]
  /\ CloseClient(c)
  /\ UNCHANGED <<required, credentials, server, principal, toServer>>

\* The server closed the connection under a client that waits for a message.
ClientReadFails(c) ==
  /\ ClientWaits(c) /\ toClient[c] = <<>> /\ "server" \in closedEnds[c]
  /\ ClientEnds(c, "failed")

\* The client's deadline passes, or the path fails under the handshake.
ClientTimeout(c) == ClientWaits(c) /\ ClientEnds(c, "failed")

\* An established session is closed, or its path is lost.
ClientCloses(c) == client[c] = "session" /\ ClientEnds(c, "closed")

-----------------------------------------------------------------------------
(* The server.  Its "session" means that it has sent its last message.  The *)
(* calls after that one (SetDeadline, smux.Server) only fail on a           *)
(* connection closed at this end or a configuration that is not valid; such *)
(* an end is a session that ends at once.                                   *)

ServerWaits(c) == server[c] \in {"preface", "response"}

\* AcceptSession starts to read.
ServerStarts(c) ==
  /\ server[c] = "idle"
  /\ server' = [server EXCEPT ![c] = "preface"]
  /\ UNCHANGED <<required, credentials, client, principal, toServer, toClient,
                 closedEnds>>

\* It reads the client's preface and answers with its own, and at once with
\* the challenge.
ServerReadsPreface(c) ==
  /\ server[c] = "preface" /\ toServer[c] # <<>>
  /\ toServer' = [toServer EXCEPT ![c] = Tail(@)]
  /\ toClient' = Sent(toClient, "client", c,
                      IF required THEN <<Preface(TRUE), Challenge>>
                                  ELSE <<Preface(FALSE)>>)
  /\ server' = [server EXCEPT ![c] = IF required THEN "response" ELSE "session"]
  /\ UNCHANGED <<required, credentials, client, principal, closedEnds>>

Authenticated(cred) == cred \in Known

\* The result goes to the client either way; a failure closes after it.
ServerAuthenticates(c) ==
  LET cred == Head(toServer[c]).from
      ok == Authenticated(cred)
  IN /\ server[c] = "response" /\ toServer[c] # <<>>
     /\ toClient' = Sent(toClient, "client", c, <<Result(ok, cred)>>)
     /\ server' = [server EXCEPT ![c] = IF ok THEN "session" ELSE "failed"]
     /\ principal' = [principal EXCEPT ![c] = IF ok THEN {cred} ELSE {}]
     /\ IF ok THEN /\ toServer' = [toServer EXCEPT ![c] = Tail(@)]
                   /\ UNCHANGED closedEnds
              ELSE CloseServer(c)
     /\ UNCHANGED <<required, credentials, client>>

ServerEnds(c) ==
  /\ server' = [server EXCEPT ![c] = "failed"]
  /\ CloseServer(c)
  /\ UNCHANGED <<required, credentials, client, principal, toClient>>

\* A read or a write fails because an end was closed.
ServerReadFails(c) ==
  /\ ServerWaits(c)
  /\ \/ "server" \in closedEnds[c]
     \/ "client" \in closedEnds[c] /\ toServer[c] = <<>>
  /\ ServerEnds(c)

\* Mutant of ServerTimeout: the deadline covers the preface only.
ServerTimeoutPreface(c) == server[c] = "preface" /\ ServerEnds(c)

\* The server's deadline passes, or the path fails under the handshake.
ServerTimeout(c) == ServerWaits(c) /\ ServerEnds(c)

ClientHandshake(c) ==
  \/ ClientReadsPreface(c) \/ ClientAnswers(c) \/ ClientReadsResult(c)
  \/ ClientReadFails(c)
ServerHandshake(c) ==
  \/ ServerReadsPreface(c) \/ ServerAuthenticates(c) \/ ServerReadFails(c)

-----------------------------------------------------------------------------
(* Properties.                                                             *)

Message ==
  {Preface(auth) : auth \in BOOLEAN} \cup {Challenge}
    \cup {Response(cred) : cred \in Credential}
    \cup {Result(ok, key) : ok \in BOOLEAN, key \in Credential}

HandshakeTypeOK ==
  /\ required \in BOOLEAN
  /\ credentials \in [Conn -> SUBSET Credential]
  /\ toServer \in [Conn -> Seq(Message)] /\ toClient \in [Conn -> Seq(Message)]
  /\ client \in [Conn -> {"idle", "preface", "challenge", "result", "session",
                          "failed", "closed"}]
  /\ server \in [Conn -> {"idle", "preface", "response", "session", "failed"}]
  /\ principal \in [Conn -> SUBSET Known]
  /\ closedEnds \in [Conn -> SUBSET {"client", "server"}]

\* The two ends agree, whichever deadlines pass: a server that asks for
\* authentication serves only a client whose credential it knows, under that
\* client's name; a client takes a session for established only when the
\* server got that far too; and credentials are used exactly when the server
\* asks for them (a client that has some refuses a server that does not).
Agreement ==
  \A c \in Conn :
    /\ server[c] = "session" =>
         IF required THEN principal[c] = credentials[c] /\ principal[c] # {}
                     ELSE principal[c] = {}
    /\ client[c] \in {"session", "closed"} =>
         /\ server[c] = "session"
         /\ required = (credentials[c] # {})

\* What the server's end of c knows, and the message it may find.
ServerKnows(c) ==
  /\ server[c] \in {"idle", "preface"} =>
       principal[c] = {} /\ toServer[c] \in {<<>>, <<Preface(FALSE)>>}
  /\ server[c] = "response" =>
       /\ required /\ principal[c] = {}
       /\ \A i \in 1 .. Len(toServer[c]) :
            \E cred \in credentials[c] : toServer[c][i] = Response(cred)
  /\ server[c] = "session" =>
       /\ required => principal[c] = credentials[c] /\ principal[c] # {}
       /\ ~required => principal[c] = {}

\* What the client's end of c waits for is what the server sends next: it never
\* finds the answer to something it has not said.
ClientKnows(c) ==
  /\ client[c] = "idle" =>
       toServer[c] = <<>> /\ toClient[c] = <<>> /\ server[c] \in {"idle", "preface", "failed"}
  /\ client[c] = "preface" =>
       /\ server[c] \in {"idle", "preface"} => toClient[c] = <<>>
       /\ server[c] = "response" =>
            toClient[c] = <<Preface(TRUE), Challenge>> /\ toServer[c] = <<>>
       /\ server[c] = "session" => toClient[c] = <<Preface(FALSE)>> /\ ~required
       /\ server[c] = "failed" =>
            toClient[c] = <<>> \/ (toClient[c] = <<Preface(TRUE), Challenge>> /\ required)
  /\ client[c] = "challenge" =>
       /\ required /\ server[c] \in {"response", "failed"}
       /\ toClient[c] = <<Challenge>>
       /\ server[c] = "response" => toServer[c] = <<>>
  /\ client[c] = "result" =>
       /\ required /\ credentials[c] # {}
       /\ server[c] \in {"response", "session", "failed"}
       /\ server[c] = "response" => toClient[c] = <<>>
       /\ \A i \in 1 .. Len(toClient[c]) :
            /\ toClient[c][i].type = "result"
            /\ toClient[c][i].ok => server[c] = "session"
  /\ client[c] \in {"failed", "closed"} <=> "client" \in closedEnds[c]

\* The inductive invariant behind Agreement.
ExchangeInv ==
  /\ HandshakeTypeOK /\ Agreement
  /\ \A c \in Conn : /\ \A x, y \in credentials[c] : x = y
                     /\ ServerKnows(c) /\ ClientKnows(c)
=============================================================================
