--------------------------- MODULE HttpConnection ---------------------------
(***************************************************************************)
(* The connections of the HTTP server: libmicrohttpd's state machine        *)
(* (connection.c) with the handler of src/main.c.  A connection carries one *)
(* request after another; the bytes of the next may be in the read buffer   *)
(* while one is served (pipelining), bodies are counted or chunked.  One    *)
(* thread serves all connections: running is the connection whose           *)
(* MHD_connection_handle_idle() runs, and while it runs nothing else does.   *)
(*                                                                         *)
(* A client sends its plan, a sequence of well-formed GETs and POSTs, as     *)
(* tokens;                                                                  *)
(* any number of them comes with a read, and the connection may be lost at  *)
(* any time.  The read buffer is what of them was received and not used; it  *)
(* is taken to be large enough.  Part of a token counts as none of it.        *)
(***************************************************************************)
EXTENDS PostHandler

CONSTANTS
  Connections,
  Plans,       \* what a client may send: sequences of requests
  MaxRequests, \* of one connection
  MaxBody      \* units of one body

Nobody == 0

\* body counts the units of a counted body, chunks has the sizes of a chunked
\* one: a chunk of size 0 ends the body and is not one of them.
WellFormed == [method : {"GET", "POST"}, body : Nat, chunks : Seq(Nat \ {0}), expect : BOOLEAN, close : BOOLEAN]
ChunkedBody(q) == q.chunks # <<>>
Requests == Connections \X (1 .. MaxRequests)

Sums(sizes) == LET f[i \in 0 .. Len(sizes)] == IF i = 0 THEN 0 ELSE f[i - 1] + sizes[i] IN f
Total(sizes) == Sums(sizes)[Len(sizes)]
Size(q) == IF ChunkedBody(q) THEN Total(q.chunks) ELSE q.body

ASSUME PlansAssumption ==
  /\ Nobody \notin Connections /\ MaxRequests \in Nat /\ MaxBody \in Nat
  /\ \A p \in Plans : /\ p \in Seq(WellFormed) /\ Len(p) <= MaxRequests
                      /\ \A k \in DOMAIN p : Size(p[k]) <= MaxBody

----------------------------------------------------------------------------
(* External: the bytes a client sends.                                       *)

HeadToken(c, k, q) == [t |-> "head", of |-> <<c, k>>, n |-> 0, q |-> q]
Token(t, c, k, n) == [t |-> t, of |-> <<c, k>>, n |-> n]
Units(c, k, from, m) == [i \in 1 .. m |-> Token("data", c, k, from + i)]
Chunk(c, k, sizes, i) ==
  <<Token("size", c, k, sizes[i])>> \o Units(c, k, Sums(sizes)[i - 1], sizes[i]) \o <<Token("eol", c, k, 0)>>
Chunks(c, k, sizes) ==
  LET f[i \in 0 .. Len(sizes)] == IF i = 0 THEN <<>> ELSE f[i - 1] \o Chunk(c, k, sizes, i) IN f
Tokens(c, k, q) ==
  <<HeadToken(c, k, q)>> \o
  (IF ChunkedBody(q)
   THEN Chunks(c, k, q.chunks)[Len(q.chunks)] \o <<Token("size", c, k, 0), Token("footers", c, k, 0)>>
   ELSE Units(c, k, 0, q.body))

\* The first k requests of a plan, all of it, and where the k-th ends.
Requested(c, p) ==
  LET f[k \in 0 .. Len(p)] == IF k = 0 THEN <<>> ELSE f[k - 1] \o Tokens(c, k, p[k]) IN f
Prefixes == [c \in Connections |-> [p \in Plans |-> Requested(c, p)]]
Stream == [c \in Connections |-> [p \in Plans |-> Prefixes[c][p][Len(p)]]]
EndOf(c, p, k) == Len(Prefixes[c][p][k])

----------------------------------------------------------------------------
VARIABLES
  plan,       \* external: what each client sends
  received,   \* how many tokens of it were read
  used,       \* how many of those the read buffer no longer has
  state,      \* connection->state
  rq,         \* connection->rq: the head that was parsed
  remaining,  \* rq.remaining_upload_size
  chunk,      \* rq.current_chunk_size and _offset
  discard,    \* discard_request
  running,    \* the connection in MHD_connection_handle_idle()
  fate,       \* history: how a POST request ended
  given,      \* history: units of its body the handler was given
  overlapped  \* history: have two POSTs met, or was one broken off?

buffer == <<plan, received, used>>
request == <<rq, remaining, chunk, discard>>
history == <<fate, given, overlapped>>
vars == <<handler, buffer, state, request, running, history>>

NoHead == [of |-> <<Nobody, 0>>, q |-> [method |-> "none"]]
Unknown == 0 - 1   \* MHD_SIZE_UNKNOWN
NoChunk == [size |-> 0, offset |-> 0]

\* All clients have connected.
Init ==
  /\ post_data = <<>> /\ post_data_size = 0 /\ fails = 0 /\ taken = [r \in Requests |-> <<>>]
  /\ plan \in [Connections -> Plans]
  /\ received = [c \in Connections |-> 0] /\ used = received
  /\ state = [c \in Connections |-> "INIT"]
  /\ rq = [c \in Connections |-> NoHead]
  /\ remaining = [c \in Connections |-> 0] /\ chunk = [c \in Connections |-> NoChunk]
  /\ discard = [c \in Connections |-> FALSE]
  /\ running = Nobody
  /\ fate = [r \in Requests |-> "none"] /\ given = [r \in Requests |-> 0]
  /\ overlapped = FALSE

Set(f, x, v) == [f EXCEPT ![x] = v]
Becomes(c, s) == state' = Set(state, c, s)
Available(c) == received[c] - used[c]
Next1(c) == Stream[c][plan[c]][used[c] + 1]
Use(c, m) == used' = Set(used, c, used[c] + m) /\ UNCHANGED <<plan, received>>
Current(c) == rq[c].of
IsPost(c) == rq[c].q.method = "POST"
Chunked(c) == ChunkedBody(rq[c].q)

\* The request that libmicrohttpd is serving, and has not answered yet.
Serving(c) == state[c] \notin {"INIT", "SENDING", "CLOSED"}
Active(r) == Serving(r[1]) /\ Current(r[1]) = r /\ IsPost(r[1])

\* MHD_connection_close_() and the cleanup behind it.
Close(c) ==
  /\ Becomes(c, "CLOSED")
  /\ IF Serving(c) /\ IsPost(c)
     THEN fate' = Set(fate, Current(c), "closed") /\ overlapped' = TRUE
     ELSE UNCHANGED <<fate, overlapped>>
  /\ running' = Nobody
  /\ UNCHANGED <<buffer, request, given>>

\* Reading or writing fails, the client has closed or reset the connection.
Lost(c) == running = Nobody /\ state[c] # "CLOSED" /\ Close(c) /\ UNCHANGED handler

\* MHD_connection_handle_read(): reading goes on in those states only.
Reading == {"INIT", "BODY_RECEIVING", "FOOTERS_RECEIVING"}
Read(c) ==
  /\ running = Nobody /\ state[c] \in Reading
  /\ \E m \in 1 .. Len(Stream[c][plan[c]]) - received[c] : received' = Set(received, c, received[c] + m)
  /\ running' = c
  /\ UNCHANGED <<handler, plan, used, state, request, history>>

----------------------------------------------------------------------------
(* MHD_connection_handle_idle()                                              *)

\* Request line and headers; the size of the body is known, or that it is not.
GetHead(c) ==
  /\ running = c /\ state[c] = "INIT" /\ Available(c) > 0
  /\ LET head == Next1(c) IN
       /\ head.t = "head"
       /\ rq' = Set(rq, c, [of |-> head.of, q |-> head.q])
       /\ remaining' = Set(remaining, c, IF ChunkedBody(head.q) THEN Unknown ELSE head.q.body)
       /\ overlapped' = (overlapped \/ (head.q.method = "POST" /\ \E r \in Requests : Active(r)))
  /\ Use(c, 1) /\ Becomes(c, "HEADERS_PROCESSED")
  /\ UNCHANGED <<handler, chunk, discard, running, fate, given>>

\* answer_to_connection() with no data: a GET is answered by its first call, a
\* POST if there is data.
Answered(c) == \/ ~ IsPost(c) /\ UNCHANGED <<handler, fate>>
               \/ IsPost(c) /\ Answer(Current(c)) /\ fate' = Set(fate, Current(c), "reply")
NotAnswered(c) == IsPost(c) /\ NoAnswer /\ UNCHANGED fate

\* Variant of Refused: the body is still to come.
RefusedOnce(c) == remaining' = Set(remaining, c, 0) /\ UNCHANGED discard

\* MHD_queue_response(): a response to the first call refuses the body, and
\* whatever follows it.
Refused(c) == remaining' = Set(remaining, c, 0) /\ discard' = Set(discard, c, TRUE)

NeedsContinue(c) == rq[c].q.expect /\ remaining[c] # 0 /\ Available(c) = 0
FirstCall(c) ==
  /\ running = c /\ state[c] = "HEADERS_PROCESSED"
  /\ \/ /\ Answered(c) /\ Refused(c)
        /\ Becomes(c, "SENDING") /\ running' = Nobody
     \/ /\ NotAnswered(c) /\ UNCHANGED <<remaining, discard>>
        /\ IF NeedsContinue(c)
           THEN Becomes(c, "CONTINUE_SENDING") /\ running' = Nobody
           ELSE Becomes(c, IF remaining[c] = 0 THEN "FULL_REQ_RECEIVED" ELSE "BODY_RECEIVING") /\ UNCHANGED running
  /\ UNCHANGED <<buffer, rq, chunk, given, overlapped>>

\* "100 Continue" is written.
ContinueSent(c) ==
  /\ running = Nobody /\ state[c] = "CONTINUE_SENDING"
  /\ Becomes(c, "BODY_RECEIVING") /\ running' = c
  /\ UNCHANGED <<handler, buffer, request, history>>

----------------------------------------------------------------------------
(* process_request_body(), one turn of its loop at a time.  The handler takes *)
(* all it is given, so the loop goes on while there is something to take.      *)

InBody(c) == running = c /\ state[c] = "BODY_RECEIVING" /\ remaining[c] # 0 /\ Available(c) > 0
AtChunkEnd(c) == chunk[c].size # 0 /\ chunk[c].offset = chunk[c].size

\* The end of the line behind a chunk.
SkipLineEnd(c) ==
  /\ InBody(c) /\ Chunked(c) /\ AtChunkEnd(c) /\ Next1(c).t = "eol"
  /\ chunk' = Set(chunk, c, NoChunk) /\ Use(c, 1)
  /\ UNCHANGED <<handler, state, rq, remaining, discard, running, history>>

\* The line with the size of the next chunk; 0 ends the body.
ChunkSize(c) ==
  /\ InBody(c) /\ Chunked(c) /\ chunk[c].size = 0 /\ Next1(c).t = "size"
  /\ chunk' = Set(chunk, c, [size |-> Next1(c).n, offset |-> 0])
  /\ remaining' = IF Next1(c).n = 0 THEN Set(remaining, c, 0) ELSE remaining
  /\ Use(c, 1)
  /\ UNCHANGED <<handler, state, rq, discard, running, history>>

AtMost(m, n) == IF m <= n THEN m ELSE n

\* Variant of Portion: a chunk ends where the data that were read end.
PortionAll(c) == IF Chunked(c) THEN Available(c) ELSE AtMost(Available(c), remaining[c])

\* What there is of a counted body, or of a chunk.
Portion(c) == AtMost(Available(c), IF Chunked(c) THEN chunk[c].size - chunk[c].offset ELSE remaining[c])

\* A byte of the framing has no place in a body.
Byte(token) == IF token.t = "data" THEN Unit(token.of, token.n) ELSE Hole
Bytes(c, m) == [i \in 1 .. m |-> Byte(Stream[c][plan[c]][used[c] + i])]

\* A call with data: collected, or realloc fails and the connection is closed.
Collected(c, m) ==
  /\ Collect(Bytes(c, m)) /\ Use(c, m)
  /\ given' = Set(given, Current(c), given[Current(c)] + m)
  /\ IF Chunked(c) THEN chunk' = Set(chunk, c, [chunk[c] EXCEPT !.offset = @ + m]) /\ UNCHANGED remaining
     ELSE remaining' = Set(remaining, c, remaining[c] - m) /\ UNCHANGED chunk
  /\ UNCHANGED <<state, rq, discard, running, fate, overlapped>>

Upload(c) ==
  /\ InBody(c) /\ (Chunked(c) => chunk[c].size # 0 /\ ~ AtChunkEnd(c))
  /\ Collected(c, Portion(c)) \/ (CollectFails /\ Close(c))

----------------------------------------------------------------------------
BodyDone(c) ==
  /\ running = c /\ state[c] = "BODY_RECEIVING" /\ remaining[c] = 0
  /\ Becomes(c, IF Chunked(c) THEN "FOOTERS_RECEIVING" ELSE "FULL_REQ_RECEIVED")
  /\ UNCHANGED <<handler, buffer, request, running, history>>

Footers(c) ==
  /\ running = c /\ state[c] = "FOOTERS_RECEIVING" /\ Available(c) > 0 /\ Next1(c).t = "footers"
  /\ Use(c, 1) /\ Becomes(c, "FULL_REQ_RECEIVED")
  /\ UNCHANGED <<handler, request, running, history>>

\* The final call; without a response it is made again with every turn of the
\* daemon's loop.
FinalCall(c) ==
  /\ running \in {c, Nobody} /\ state[c] = "FULL_REQ_RECEIVED"
  /\ \/ Answered(c) /\ Becomes(c, "SENDING")
     \/ NotAnswered(c) /\ UNCHANGED state
  /\ running' = Nobody
  /\ UNCHANGED <<buffer, request, given, overlapped>>

\* More has to be read first.
Waits(c) ==
  /\ running = c /\ state[c] \in Reading /\ Available(c) = 0
  /\ state[c] = "BODY_RECEIVING" => remaining[c] # 0
  /\ running' = Nobody
  /\ UNCHANGED <<handler, buffer, state, request, history>>

\* Variant of Reused: what was read ahead waits for the next read.
ReusedLater(c) ==
  /\ Becomes(c, "INIT") /\ running' = Nobody
  /\ rq' = Set(rq, c, NoHead) /\ remaining' = Set(remaining, c, 0) /\ chunk' = Set(chunk, c, NoChunk)
  /\ UNCHANGED <<buffer, discard, history>>

\* connection_reset(): the request is forgotten, the read buffer kept, and
\* MHD_connection_handle_idle() goes on with it.
Reused(c) ==
  /\ Becomes(c, "INIT") /\ running' = c
  /\ rq' = Set(rq, c, NoHead) /\ remaining' = Set(remaining, c, 0) /\ chunk' = Set(chunk, c, NoChunk)
  /\ UNCHANGED <<buffer, discard, history>>

\* The response is written.
Sent(c) ==
  /\ running = Nobody /\ state[c] = "SENDING"
  /\ IF discard[c] \/ rq[c].q.close THEN Close(c) ELSE Reused(c)
  /\ UNCHANGED handler

Runs(c) ==
  \/ GetHead(c) \/ FirstCall(c) \/ SkipLineEnd(c) \/ ChunkSize(c) \/ Upload(c)
  \/ BodyDone(c) \/ Footers(c) \/ FinalCall(c) \/ Waits(c)

Next == \E c \in Connections : Read(c) \/ Runs(c) \/ ContinueSent(c) \/ Sent(c) \/ Lost(c)

\* What runs ends; nothing is owed by the clients, who may never read or write.
Spec == Init /\ [][Next]_vars /\ \A c \in Connections : WF_vars(Runs(c))

----------------------------------------------------------------------------
(* Properties                                                                *)

Body(r) == Units(r[1], r[2], 0, Size(plan[r[1]][r[2]]))
Sends(r) == r[2] \in DOMAIN plan[r[1]] /\ plan[r[1]][r[2]].method = "POST"

\* While requests do not meet and none is broken off, a POST is answered for
\* its own body, all of it, whether it came counted or in chunks and however it
\* was split into reads; behind it there may be what strdup() of a buffer that
\* is not terminated finds.
ExactIfSequential ==
  ~ overlapped =>
    \A r \in Requests : fate[r] = "reply" =>
      LET own == [i \in DOMAIN Body(r) |-> Byte(Body(r)[i])] IN taken[r] \in {own, own \o <<Behind>>}

\* A connection that starts on a request has its head in front, or nothing: no
\* unread body, chunk or footer is taken for a request.
FramesAreTrue ==
  \A c \in Connections : state[c] = "INIT" /\ Available(c) > 0 => Next1(c).t = "head"

\* The handler is called as it expects: HttpServer.
Stage == [INIT |-> "none", HEADERS_PROCESSED |-> "headers", CONTINUE_SENDING |-> "body", BODY_RECEIVING |-> "body",
          FOOTERS_RECEIVING |-> "body", FULL_REQ_RECEIVED |-> "full", SENDING |-> "none", CLOSED |-> "none"]
st == [r \in Requests |-> IF fate[r] # "none" THEN fate[r]
                          ELSE IF Active(r) THEN Stage[state[r[1]]] ELSE "none"]
Server == INSTANCE HttpServer
CallsAreLegal == Server!Spec

\* A POST with a body that was read to its end, and whose turn on its
\* connection has come, is answered, unless requests met or one was broken off
\* (FULL_REQ_RECEIVED and INIT of MHD_connection_handle_idle()).  Its client
\* need not do anything more, not even read the responses.
Whole(r) ==
  /\ Sends(r) /\ Size(plan[r[1]][r[2]]) > 0
  /\ received[r[1]] >= EndOf(r[1], plan[r[1]], r[2])
  /\ Active(r) \/ (state[r[1]] = "INIT" /\ used[r[1]] = EndOf(r[1], plan[r[1]], r[2] - 1))
AnsweredIfSequential == \A r \in Requests : Whole(r) ~> (fate[r] = "reply" \/ overlapped)
=============================================================================
