-------------------------- MODULE HttpServer --------------------------
(***************************************************************************)
(* The POST side of the HTTP server, as src/main.c relies on it: what      *)
(* libmicrohttpd promises its handler.  A request is called once with its  *)
(* head, with the parts of its body in order, and, when the body is        *)
(* complete, again and again until there is a response; a response to the  *)
(* first call refuses the body.  HttpConnection implements this with       *)
(* connections that carry several requests.                                *)
(***************************************************************************)
EXTENDS PostHandler

CONSTANTS
  Requests,   \* the POST requests
  MaxBody     \* bound: units of one body

VARIABLES
  st,          \* how far libmicrohttpd is with each request
  given,       \* how much of its body the handler was given
  overlapped   \* history: have two requests met, or was one broken off?

vars == <<handler, st, given, overlapped>>

Units == {Unit(r, n) : r \in Requests, n \in 1 .. MaxBody} \cup {Behind, Hole}

TypeOK ==
  /\ post_data \in Seq(Units)
  /\ post_data_size \in Nat
  /\ fails \in 0 .. MaxFails
  /\ taken \in [Requests -> Seq(Units)]
  /\ st \in [Requests -> {"none", "headers", "body", "full", "reply", "closed"}]
  /\ given \in [Requests -> 0 .. MaxBody]
  /\ overlapped \in BOOLEAN

Init ==
  /\ post_data = <<>> /\ post_data_size = 0
  /\ fails = 0
  /\ taken = [r \in Requests |-> <<>>]
  /\ st = [r \in Requests |-> "none"]
  /\ given = [r \in Requests |-> 0]
  /\ overlapped = FALSE

Becomes(r, s) == st' = [st EXCEPT ![r] = s]
Active(r) == st[r] \in {"headers", "body", "full"}

Request(r) ==
  /\ st[r] = "none"
  /\ Becomes(r, "headers")
  /\ overlapped' = (overlapped \/ \E q \in Requests \ {r} : Active(q))
  /\ UNCHANGED <<handler, given>>

\* The client goes away.
Disconnect(r) ==
  /\ Active(r)
  /\ Becomes(r, "closed")
  /\ overlapped' = TRUE
  /\ UNCHANGED <<handler, given>>

\* What there is already answers the first call; otherwise the body follows,
\* if there is one.
FirstCall(r) ==
  /\ st[r] = "headers"
  /\ \/ Answer(r) /\ Becomes(r, "reply")
     \/ NoAnswer /\ (Becomes(r, "body") \/ Becomes(r, "full"))
  /\ UNCHANGED <<given, overlapped>>

Upload(r) ==
  /\ st[r] = "body"
  /\ \E m \in 1 .. MaxBody - given[r] :
       /\ Collect([i \in 1 .. m |-> Unit(r, given[r] + i)])
       /\ given' = [given EXCEPT ![r] = @ + m]
  /\ UNCHANGED <<st, overlapped>>

\* MHD_NO closes the connection.
UploadFails(r) ==
  /\ st[r] = "body"
  /\ CollectFails
  /\ Becomes(r, "closed")
  /\ overlapped' = TRUE
  /\ UNCHANGED given

\* The body has ended.
Complete(r) ==
  /\ st[r] = "body"
  /\ Becomes(r, "full")
  /\ UNCHANGED <<handler, given, overlapped>>

\* A final call that finds no data gives no response and comes again.
FinalCall(r) ==
  /\ st[r] = "full"
  /\ Answer(r) /\ Becomes(r, "reply")
  /\ UNCHANGED <<given, overlapped>>

Client(r) == Request(r) \/ Disconnect(r)
Server(r) == FirstCall(r) \/ Upload(r) \/ UploadFails(r) \/ Complete(r) \/ FinalCall(r)

Next == \E r \in Requests : Client(r) \/ Server(r)

Spec == Init /\ [][Next]_vars
=============================================================================
