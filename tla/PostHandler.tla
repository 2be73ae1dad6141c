---------------------------- MODULE PostHandler ----------------------------
(***************************************************************************)
(* handle_post_request() of src/main.c: it tells the calls of              *)
(* libmicrohttpd apart by the size of the upload data alone, and collects  *)
(* bodies in a static buffer that all connections share.  The buffer is    *)
(* not terminated when it is parsed: the parser may run on into what lies  *)
(* behind it (Behind).                                                     *)
(*                                                                         *)
(* A body is a sequence of units; which fields of the drive's outputs a    *)
(* body sets is in EthercatLoop (WebWrite).                                *)
(***************************************************************************)
EXTENDS Integers, Sequences

CONSTANT MaxFails   \* bound: realloc calls that fail

ASSUME MaxFailsAssumption == MaxFails \in Nat

VARIABLES
  post_data,       \* the static buffer, <<>> when the pointer is NULL
  post_data_size,  \* its static size
  fails,           \* realloc calls that failed so far
  taken            \* history: what was parsed for the answer to a request

handler == <<post_data, post_data_size, fails, taken>>

\* What lies behind the buffer, and in it where nothing was copied.
Behind == [of |-> <<>>, n |-> 1]
Hole == [of |-> <<>>, n |-> 0]
Unit(r, n) == [of |-> r, n |-> n]

\* After a realloc that failed the size still counts what was lost with the buffer.
Grown == IF post_data = <<>> THEN [k \in 1 .. post_data_size |-> Hole] ELSE post_data

\* Variant of Collect: the data are put in front of what there is.
CollectInFront(data) ==
  /\ post_data' = data \o Grown
  /\ post_data_size' = post_data_size + Len(data)
  /\ UNCHANGED <<fails, taken>>

\* *upload_data_size # 0: the data are copied behind what there is.
Collect(data) ==
  /\ post_data' = Grown \o data
  /\ post_data_size' = post_data_size + Len(data)
  /\ UNCHANGED <<fails, taken>>

\* realloc fails: the pointer is overwritten, and the caller told MHD_NO.
CollectFails ==
  /\ fails < MaxFails
  /\ fails' = fails + 1
  /\ post_data' = <<>>
  /\ UNCHANGED <<post_data_size, taken>>

\* Variant of Answer: the size is not reset with the pointer.
AnswerKeepsSize(r) ==
  /\ post_data # <<>>
  /\ \E rest \in {<<>>, <<Behind>>} : taken' = [taken EXCEPT ![r] = post_data \o rest]
  /\ post_data' = <<>>
  /\ UNCHANGED <<post_data_size, fails>>

\* *upload_data_size = 0 and there is data: it is parsed, freed and answered.
Answer(r) ==
  /\ post_data # <<>>
  /\ \E rest \in {<<>>, <<Behind>>} : taken' = [taken EXCEPT ![r] = post_data \o rest]
  /\ post_data' = <<>>
  /\ post_data_size' = 0
  /\ UNCHANGED fails

\* There is none: MHD_YES, and no response.
NoAnswer == post_data = <<>> /\ UNCHANGED handler

\* A unit of a body is parsed once at most: whoever answers takes the buffer
\* with all that is in it.
Known(s) == {s[k] : k \in DOMAIN s} \ {Hole, Behind}
TakenOnce ==
  \A r \in DOMAIN taken :
    /\ Known(taken[r]) \cap Known(post_data) = {}
    /\ \A q \in DOMAIN taken \ {r} : Known(taken[r]) \cap Known(taken[q]) = {}

\* However connections mix, the units of one body stay in their order.
InOrder(s) ==
  \A i, j \in DOMAIN s : i < j /\ s[i].of = s[j].of /\ s[i].of \in DOMAIN taken => s[i].n < s[j].n
KeptInOrder == InOrder(post_data) /\ \A r \in DOMAIN taken : InOrder(taken[r])

\* handle_post_request(): no unit of a body is parsed twice, and those of one
\* body are parsed in their order, whoever is answered for them.
UnitsKept == TakenOnce /\ KeptInOrder
=============================================================================
