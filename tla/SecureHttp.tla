------------------------------ MODULE SecureHttp ------------------------------
(***************************************************************************)
(* One JSON request of SecureHttpClient, a socket operation at a time.     *)
(* The timeout is the socket's: it bounds each operation, never their sum, *)
(* and nothing bounds how many of them there are.                          *)
(***************************************************************************)
EXTENDS Naturals

CONSTANTS
  Lookups,  \* who makes requests, one at a time
  Timeout,  \* connect_timeout_s + read_timeout_s, in ticks of half a second
  MaxBytes  \* max_response_bytes, in chunks of output

ASSUME HttpOK == Timeout \in Nat \ {0} /\ MaxBytes \in Nat

VARIABLE conn  \* per lookup: where its request is, how long it waits, and how much it has got

Idle == [at |-> "idle", wait |-> 0, got |-> 0]

HttpTypeOK ==
  conn \in [Lookups -> [at : {"idle", "opening", "reading"}, wait : 0 .. Timeout,
                        got : 0 .. MaxBytes]]

HttpInit == conn = [l \in Lookups |-> Idle]

\* What a request ends with: an object, or a NetworkUnverifiableError with its
\* status and whether it is transient.
Results == {"json", "404", "transient", "permanent"}

Codes == {"200", "3xx", "404", "4xx", "429", "5xx"}

\* _is_transient_http_status
Transient(code) == code \in {"429", "5xx"}

\* No redirect is followed.
OfStatus(code) ==
  CASE code = "404"    -> "404"
    [] Transient(code) -> "transient"
    [] OTHER           -> "permanent"

Close(l) == conn' = [conn EXCEPT ![l] = Idle]

Open(l) ==
  /\ conn[l].at = "idle"
  /\ conn' = [conn EXCEPT ![l].at = "opening"]

\* Of each address its connection, the TLS handshake, the status line, the headers
\* and any 1xx answer are operations of their own.  A name may resolve to many
\* addresses, and looking it up has no timeout.
OpeningGoesOn(l, result) ==
  /\ conn[l].at = "opening"
  /\ result = "none" /\ conn' = [conn EXCEPT ![l].wait = 0]

\* The request ends with result, or goes on ("none").  A 200 with a Content-Length
\* past the limit or a strange encoding ends at once.
StatusLine(l, code, result) ==
  /\ conn[l].at = "opening"
  /\ \/ /\ code = "200" /\ result = "none"
        /\ conn' = [conn EXCEPT ![l] = [Idle EXCEPT !.at = "reading"]]
     \/ code = "200" /\ result = "permanent" /\ Close(l)
     \/ code # "200" /\ result = OfStatus(code) /\ Close(l)

\* A part of a chunk, or one that inflates to nothing, adds nothing to the body; a
\* chunk of output past the limit ends it.
Chunk(l, result) ==
  /\ conn[l].at = "reading"
  /\ \/ result = "none" /\ conn' = [conn EXCEPT ![l].wait = 0]
     \/ /\ result = "none" /\ conn[l].got < MaxBytes
        /\ conn' = [conn EXCEPT ![l].got = @ + 1, ![l].wait = 0]
     \/ result = "permanent" /\ conn[l].got = MaxBytes /\ Close(l)

\* The body is a JSON object, or truncated, corrupt, too deep or something else.
BodyEnds(l, result) ==
  /\ conn[l].at = "reading"
  /\ result \in {"json", "permanent"} /\ Close(l)

\* _is_transient_transport_error: a timeout or a lost connection is transient.
SocketFails(l, result) ==
  /\ conn[l].at # "idle"
  /\ result \in {"transient", "permanent"} /\ Close(l)

\* A socket operation is over, one way or another, when its timeout is.
SocketsCanWait == \A l \in Lookups : conn[l].at = "idle" \/ conn[l].wait < Timeout

SocketsWait ==
  conn' = [l \in Lookups |-> IF conn[l].at = "idle" THEN conn[l]
                             ELSE [conn[l] EXCEPT !.wait = @ + 1]]
=============================================================================
