--------------------------- MODULE RelayedStream ---------------------------
(***************************************************************************)
(* What Engarde promises of one TCP stream, without carriers, frames,      *)
(* histories and acknowledgements: two byte streams, each delivered to the *)
(* other endpoint in order, without loss and without repetition, for as    *)
(* long as the stream lives; an end that is reported as graceful only when *)
(* both streams have arrived with their ends; and no other end unless      *)
(* something that carried the stream failed.                               *)
(*                                                                         *)
(* The byte at an offset is determined by the offset, so counts stand for  *)
(* the bytes.  Module FlowPair implements this.                            *)
(***************************************************************************)
EXTENDS Integers

CONSTANT ChunkSize  \* the most bytes one read of an endpoint returns

Side == {"client", "server"}
Peer(s) == IF s = "client" THEN "server" ELSE "client"

VARIABLES
  taken,      \* taken[s]: bytes taken from the endpoint of side s
  ended,      \* the endpoint of s reached its end
  delivered,  \* delivered[s]: bytes of the peer written to the endpoint of s
  finished,   \* s has delivered the whole stream of its peer
  outcome,    \* "open"; "nil" (graceful) or "err"
  trouble     \* a carrier or an endpoint has failed

streamVars == <<taken, ended, delivered, finished, outcome, trouble>>

Init ==
  /\ taken = [s \in Side |-> 0] /\ delivered = [s \in Side |-> 0]
  /\ ended = [s \in Side |-> FALSE] /\ finished = [s \in Side |-> FALSE]
  /\ outcome = [s \in Side |-> "open"] /\ trouble = FALSE

AllFinished == \A s \in Side : finished[s]

\* How the stream may end at s.
MayEnd(s, how) ==
  /\ outcome[s] = "open"
  /\ how = "nil" => AllFinished
  /\ how = "err" => trouble \/ AllFinished

Take(s) ==
  /\ outcome[s] = "open" /\ ~ended[s]
  /\ \E n \in 1 .. ChunkSize : taken' = [taken EXCEPT ![s] = @ + n]
  /\ UNCHANGED <<ended, delivered, finished, outcome, trouble>>

\* The endpoint ends, which may be when the loss of the carriers is noticed.
End(s) ==
  /\ outcome[s] = "open" /\ ~ended[s]
  /\ ended' = [ended EXCEPT ![s] = TRUE]
  /\ \/ UNCHANGED outcome
     \/ MayEnd(s, "err") /\ outcome' = [outcome EXCEPT ![s] = "err"]
  /\ UNCHANGED <<taken, delivered, finished, trouble>>

\* The endpoint of s gets the next bytes of the peer, or learns of their end.
Deliver(s) ==
  /\ outcome[s] = "open"
  /\ \E n \in delivered[s] .. taken[Peer(s)] :
       /\ delivered' = [delivered EXCEPT ![s] = n]
       /\ \/ UNCHANGED finished
          \/ /\ ended[Peer(s)] /\ n = taken[Peer(s)]
             /\ finished' = [finished EXCEPT ![s] = TRUE]
  /\ UNCHANGED <<taken, ended, outcome, trouble>>

Finish(s) ==
  /\ \E how \in {"nil", "err"} :
       MayEnd(s, how) /\ outcome' = [outcome EXCEPT ![s] = how]
  /\ UNCHANGED <<taken, ended, delivered, finished, trouble>>

\* A carrier or an endpoint fails; an endpoint takes the stream along.
Fail ==
  /\ trouble' = TRUE
  /\ \/ UNCHANGED outcome
     \/ \E s \in Side : /\ outcome[s] = "open"
                        /\ outcome' = [outcome EXCEPT ![s] = "err"]
  /\ UNCHANGED <<taken, ended, delivered, finished>>

Next == Fail \/ \E s \in Side : Take(s) \/ End(s) \/ Deliver(s) \/ Finish(s)

Spec == Init /\ [][Next]_streamVars
=============================================================================
