----------------------------- MODULE RequestFields -----------------------------
(***************************************************************************)
(* courier_manager.c: how a courier thread takes the text of a request,    *)
(* "COURIER#name#time", apart.  It calls strtok three times, with its own  *)
(* buffer and then with NULL.  strtok writes a zero over the # behind the  *)
(* field it returns and remembers the next field in a static variable,     *)
(* which all courier threads share: a thread that continues may do so in   *)
(* the buffer of another one.                                              *)
(*                                                                         *)
(* A field is named by its buffer, which has the name of its thread, and   *)
(* its place in the text.  A call of strtok is three steps: the static     *)
(* variable is loaded, the field is scanned and cut, the variable stored.  *)
(* The C library is external; every other step is one of the code.         *)
(***************************************************************************)
EXTENDS Integers, Sequences

CONSTANTS Parsers,    \* the courier threads
          MAX_TEXTS   \* bound: how many requests each of them receives

ASSUME FieldsAssumption == MAX_TEXTS \in Nat \ {0} /\ "none" \notin Parsers

Nowhere == <<"none", 0>>
BufferPlaces == {Nowhere} \union (Parsers \X (1 .. 3))

VARIABLES
  stage,       \* the statement a courier thread executes next, or the step of strtok
  call,        \* which of its calls of strtok that is
  pointer,     \* the place the call looks at, and later what it returns
  rest,        \* the place it leaves for the next call
  last,        \* strtok's static variable
  cut,         \* the fields of each buffer that end with a zero
  texts,       \* how many requests a thread has received
  blank,       \* the buffers that hold zeros only
  released,    \* the buffers that have been freed
  got,         \* what its calls have returned: buffer, number of the request, field
  couriers,    \* how many courier_t it has allocated
  overlapped,  \* another thread was inside its calls while the text was in the buffer
  broken       \* the thread that used NULL or a freed buffer

fieldsVars == <<stage, call, pointer, rest, last, cut, texts, blank, released, got,
                couriers, overlapped, broken>>

\* server_on has read a first request into each buffer.
FieldsInit ==
  /\ stage = [t \in Parsers |-> "check"]
  /\ call = [t \in Parsers |-> 1]
  /\ pointer = [t \in Parsers |-> Nowhere]
  /\ rest = [t \in Parsers |-> Nowhere]
  /\ last = Nowhere
  /\ cut = [t \in Parsers |-> {}]
  /\ texts = [t \in Parsers |-> 1]
  /\ blank = {}
  /\ released = {}
  /\ got = [t \in Parsers |-> <<>>]
  /\ couriers = [t \in Parsers |-> 0]
  /\ overlapped = {}
  /\ broken = "none"

To(t, here, there) ==
  /\ broken = "none"
  /\ stage[t] = here
  /\ stage' = [stage EXCEPT ![t] = there]

\* Faulty variant: seven characters are compared.
ValidateSeven(t) == t \notin blank

\* validate_request: the text begins with COURIER, and the # behind it is there.
Validate(t) == t \notin blank /\ 1 \notin cut[t]

Parsing(t) == stage[t] \in {"load", "scan", "save"}
Others(t) == {u \in Parsers \ {t} : Parsing(u)}

\* A request is in the buffer: a courier_t is allocated for it.
Begin(t) ==
  /\ To(t, "check", "load")
  /\ Validate(t)
  /\ call' = [call EXCEPT ![t] = 1]
  /\ couriers' = [couriers EXCEPT ![t] = @ + 1]
  /\ got' = [got EXCEPT ![t] = <<>>]
  /\ overlapped' = overlapped
       \union {u \in Parsers \ {t} : Parsing(u) \/ (stage[u] = "check" /\ Validate(u))}
       \union (IF Others(t) = {} THEN {} ELSE {t})
  /\ UNCHANGED <<pointer, rest, last, cut, texts, blank, released, broken>>

\* memset, and the call of read.
Clear(t) ==
  /\ To(t, "check", "read")
  /\ ~Validate(t)
  /\ blank' = blank \union {t}
  /\ UNCHANGED <<call, pointer, rest, last, cut, texts, released, got, couriers, overlapped, broken>>

\* read returns the next request.
Receive(t) ==
  /\ To(t, "read", "check")
  /\ texts[t] < MAX_TEXTS
  /\ texts' = [texts EXCEPT ![t] = @ + 1]
  /\ cut' = [cut EXCEPT ![t] = {}]
  /\ blank' = blank \ {t}
  /\ got' = [got EXCEPT ![t] = <<>>]
  /\ overlapped' = IF Others(t) = {} THEN overlapped \ {t} ELSE overlapped \union {t}
  /\ UNCHANGED <<call, pointer, rest, last, released, couriers, broken>>

\* read returns 0: free(pa_request).
End(t) ==
  /\ To(t, "read", "ended")
  /\ released' = released \union {t}
  /\ UNCHANGED <<call, pointer, rest, last, cut, texts, blank, got, couriers, overlapped, broken>>

-----------------------------------------------------------------------------
\* Faulty variant: later requests are cut out like their second field.
ArgumentOnce(t) == call[t] = 1 /\ texts[t] = 1

\* Whether the call passes the buffer, not NULL.
Argument(t) == call[t] = 1

\* s = last, unless there is an argument.
Load(t) ==
  /\ To(t, "load", "scan")
  /\ pointer' = [pointer EXCEPT ![t] = IF Argument(t) THEN <<t, 1>> ELSE last]
  /\ UNCHANGED <<call, rest, last, cut, texts, blank, released, got, couriers, overlapped, broken>>

\* The field ends with a # that is overwritten, or with the text.
Scan(t) ==
  LET buffer == pointer[t][1]
      field  == pointer[t][2]
      there  == pointer[t] # Nowhere /\ buffer \notin blank
      more   == there /\ field < 3 /\ field \notin cut[buffer]
  IN  /\ To(t, "scan", "save")
      /\ pointer[t] # Nowhere => buffer \notin released
      /\ pointer' = [pointer EXCEPT ![t] = IF there THEN @ ELSE Nowhere]
      /\ rest' = [rest EXCEPT ![t] = IF more THEN <<buffer, field + 1>> ELSE Nowhere]
      /\ cut' = IF more THEN [cut EXCEPT ![buffer] = @ \union {field}] ELSE cut
      /\ UNCHANGED <<call, last, texts, blank, released, got, couriers, overlapped, broken>>

\* What has been freed is used.
Break(t) ==
  /\ broken = "none"
  /\ stage[t] \in {"scan", "save"}
  /\ pointer[t][1] \in released
  /\ broken' = t
  /\ UNCHANGED <<stage, call, pointer, rest, last, cut, texts, blank, released, got, couriers, overlapped>>

\* strtok removes COURIER, then returns the name, then the time.
StrtokCalls == 3

\* last = s.  What strtok returns is copied (strncpy) or read (atoi), both of which
\* end the process for NULL.
Save(t) ==
  /\ To(t, "save", IF call[t] < StrtokCalls THEN "load" ELSE "check")
  /\ pointer[t][1] \notin released
  /\ last' = rest[t]
  /\ call' = [call EXCEPT ![t] = @ + 1]
  /\ IF pointer[t] = Nowhere
     THEN broken' = t /\ UNCHANGED got
     ELSE /\ got' = [got EXCEPT ![t] =
                       Append(@, <<pointer[t][1], texts[pointer[t][1]], pointer[t][2]>>)]
          /\ UNCHANGED broken
  /\ UNCHANGED <<pointer, rest, cut, texts, blank, released, couriers, overlapped>>

FieldsNext ==
  \E t \in Parsers :
    \/ Begin(t) \/ Clear(t) \/ Receive(t) \/ End(t)
    \/ Load(t) \/ Scan(t) \/ Save(t) \/ Break(t)

FieldsSpec == FieldsInit /\ [][FieldsNext]_fieldsVars

-----------------------------------------------------------------------------
\* What a call of strtok returns: a field of a request.
Fields == Parsers \X (1 .. MAX_TEXTS) \X (1 .. 3)

FieldsTypeOK ==
  /\ stage \in [Parsers -> {"check", "load", "scan", "save", "read", "ended"}]
  /\ call \in [Parsers -> 1 .. 4]
  /\ pointer \in [Parsers -> BufferPlaces] /\ rest \in [Parsers -> BufferPlaces] /\ last \in BufferPlaces
  /\ cut \in [Parsers -> SUBSET (1 .. 2)]
  /\ texts \in [Parsers -> 1 .. MAX_TEXTS]
  /\ blank \subseteq Parsers /\ released \subseteq Parsers /\ overlapped \subseteq Parsers
  /\ got \in [Parsers -> Seq(Fields)]
  /\ \A t \in Parsers : Len(got[t]) < call[t] \/ stage[t] = "check"
  /\ couriers \in [Parsers -> Nat]
  /\ broken \in Parsers \union {"none"}

\* A courier gets the name and the time of its own request, and its thread survives,
\* unless another thread was inside its three calls since the request was read:
\* whatever the others have left in the static variable, be it a place in a buffer
\* that has been freed or used for another request since.  (That no other thread is
\* inside its calls during one's own is not enough: one that has loaded a place in
\* the buffer may cut the next text there before its thread looks at it.)
FieldsOwn ==
  /\ \A t \in Parsers \ overlapped : \A n \in DOMAIN got[t] : got[t][n] = <<t, texts[t], n>>
  /\ broken # "none" => broken \in overlapped

\* However the calls interleave, the first one cuts its own text and no other does:
\* every request makes one courier, though its text stays in the buffer while the
\* courier travels and delivers, and validate_request looks at it again.
OneCourierPerRequest ==
  \A t \in Parsers :
    /\ couriers[t] <= texts[t]
    /\ t \in blank => couriers[t] = texts[t]
=============================================================================
