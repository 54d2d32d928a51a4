------------------------ MODULE MCServerConnections ------------------------
(* A small instance of ServerConnections for TLC.                           *)
EXTENDS ServerConnections

CONSTANTS c1, c2, a1, a2, stranger, right, wrong

Setup(auth, cred1, cred2, from1, from2) ==
  [required    |-> auth,
   credentials |-> (c1 :> cred1) @@ (c2 :> cred2),
   address     |-> (c1 :> from1) @@ (c2 :> from2)]

\* Two users at different addresses; two clients behind one address without
\* authentication; a client that has no credential, or a wrong one; one that
\* has one for a server that does not ask, or dials from a foreign address.
Setups ==
  {Setup(TRUE, {right}, {right}, a1, a2), Setup(FALSE, {}, {}, a1, a1),
   Setup(TRUE, {}, {wrong}, a1, a2), Setup(FALSE, {right}, {}, a1, stranger)}
=============================================================================
