----------------------------- MODULE HttpFetch -----------------------------
(***************************************************************************)
(* FetchAmdAiaEkCert and DoRequest, the one HTTP request the library       *)
(* makes.  A body is a sequence of positions in what the server sends, 0   *)
(* for a byte that no server sent.  The connection can be lost on the way. *)
(***************************************************************************)
EXTENDS Naturals, Sequences, SequencesExt

CONSTANT BodySize   \* length of the certificate, in reads

ASSUME HttpAssumption == BodySize \in Nat \ {0}

VARIABLES
  stage,       \* of the request; "idle" outside a call
  reply,       \* what the server answers: a status and a length
  lost,        \* the connection is lost
  statusCode,
  body,
  available    \* what WinHttpQueryDataAvailable announced

httpVars == <<stage, reply, lost, statusCode, body, available>>

\* The calls before there is a response, in their order.
Before == <<"crack", "open", "connect", "request", "send", "receive">>

Diagnostic == <<0>>

NoReply == [status |-> 0, size |-> 0]
Certificate == [status |-> 200, size |-> BodySize]
NotFound == [status |-> 404, size |-> 1]

HttpInit ==
  /\ stage = "idle"
  /\ reply = NoReply
  /\ lost = FALSE
  /\ statusCode = 0
  /\ body = <<>>
  /\ available = 0

\* The server will answer r.
HttpGet(r) ==
  /\ stage = "idle"
  /\ stage' = "crack"
  /\ reply' = r
  /\ UNCHANGED <<lost, statusCode, body, available>>

\* One of these calls succeeds, and the next is made.
Prepare ==
  /\ \E i \in DOMAIN Before :
       /\ stage = Before[i]
       /\ stage' = IF i = Len(Before) THEN "status" ELSE Before[i + 1]
  /\ UNCHANGED <<reply, lost, statusCode, body, available>>

PrepareFails ==
  /\ stage \in ToSet(Before)
  /\ stage' = "done"
  /\ body' = Diagnostic
  /\ UNCHANGED <<reply, lost, statusCode, available>>

\* A failure to read the status leaves 0, and the body is read all the same.
QueryStatus ==
  /\ stage = "status"
  /\ statusCode' \in {0, reply.status}
  /\ stage' = "query"
  /\ UNCHANGED <<reply, lost, body, available>>

QueryDataAvailable ==
  /\ stage = "query"
  /\ ~lost
  /\ available' \in 1..(reply.size - Len(body))
  /\ stage' = "read"
  /\ UNCHANGED <<reply, lost, statusCode, body>>

\* Bytes n + 1 to n + k of what the server sends.
Chunk(n, k) == [i \in 1..k |-> n + i]

\* Mutant: as much is written as was announced.
WriteAnnounced ==
  /\ stage = "read"
  /\ \E k \in 0..available :
       body' = body \o Chunk(Len(body), k) \o [i \in 1..(available - k) |-> 0]
  /\ stage' = "query"
  /\ UNCHANGED <<reply, lost, statusCode, available>>

\* WinHttpReadData may return less than was announced.  Its failure is not
\* looked at; it leaves bytesRead 0.
ReadData ==
  /\ stage = "read"
  /\ \E k \in (IF lost THEN 0 ELSE 1)..available :
       body' = body \o Chunk(Len(body), k)
  /\ stage' = "query"
  /\ UNCHANGED <<reply, lost, statusCode, available>>

\* Nothing more is available, or the query fails: the response is returned.
BodyEnds ==
  /\ stage = "query"
  /\ lost \/ Len(body) = reply.size
  /\ stage' = "done"
  /\ UNCHANGED <<reply, lost, statusCode, body, available>>

\* Before there is a response this is one of the failures above.
ConnectionLost ==
  /\ stage \in {"status", "query", "read"}
  /\ ~lost
  /\ lost' = TRUE
  /\ UNCHANGED <<stage, reply, statusCode, body, available>>

HttpStep ==
  \/ Prepare \/ PrepareFails \/ QueryStatus \/ QueryDataAvailable \/ ReadData
  \/ BodyEnds \/ ConnectionLost

\* What FetchAmdAiaEkCert returns.
Fetched == IF statusCode = 200 THEN body ELSE <<>>

\* The caller takes the result; nothing else outlives the call.
HttpReturn ==
  /\ stage = "done"
  /\ stage' = "idle"
  /\ reply' = NoReply
  /\ lost' = FALSE
  /\ statusCode' = 0
  /\ body' = <<>>
  /\ available' = 0

\* Whatever is announced, read short or lost, the bytes returned as a
\* certificate are bytes of the certificate, from its start and without a gap,
\* and never those of an error page or a diagnostic.
FetchedIsServed ==
  /\ Fetched # <<>> => reply = Certificate
  /\ IsPrefix(Fetched, Chunk(0, BodySize))
=============================================================================
