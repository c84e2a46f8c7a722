--------------------------- MODULE ConnectionsProofs ---------------------------
(***************************************************************************)
(* Requests of a connection are handled once and in order, by a thread     *)
(* that owns the buffer they are read into, for every number of clients    *)
(* and all sizes of texts, reads and writes, wherever reads end; and only  *)
(* a read that is not full loses a request or tears its text.              *)
(***************************************************************************)
EXTENDS Connections, TLAPS

\* Where the text of request n lies in its stream.
TextStart(n) == (n - 1) * WRITE_SIZE

\* What stands in a buffer lies before what will be read next, and no request that
\* was handled lies behind it.  Only a text that was torn is without its time.
StreamInv ==
  \A k \in Clients :
    /\ message[k] # 0 => /\ TextStart(message[k]) < consumed[k]
                         /\ k \notin strangers
                         /\ timed[k] \/ message[k] \in torn[k]
    /\ \A n \in handled[k] : /\ TextStart(n) < consumed[k]
                             /\ message[k] # 0 => n < message[k]

\* As long as all reads of a connection are full, they begin at multiples of their size.
PieceInv ==
  \A k \in Clients \ short :
    /\ \E pieces \in Nat : consumed[k] = pieces * MESSAGE_SIZE
    /\ k \notin strangers => skipped[k] = {}
    /\ torn[k] = {}

\* server_on creates the thread of a connection after it has accepted it.
LoopInv ==
  /\ \A t \in Clients : thread[t] # "none" => t \in accepted
  /\ \A t \in Clients : thread[t] # "none" => request \in Clients
  /\ \A t \in Serving : pa_request[t] \in Clients
  /\ main \in {"read", "dispatch"} => request \in accepted /\ thread[request] = "none"
  /\ main = "returned" => request \in Clients /\ thread[request] = "none"

\* As long as the variable that was handed over stands, thread t gets buffer t, and
\* only a thread that is gone has freed its buffer, or server_on at its end.
OwnerInv ==
  ~clobbered =>
    /\ \A t \in Clients : thread[t] = "created" => request = t
    /\ \A t \in Serving : pa_request[t] = t
    /\ \A b \in freed : thread[b] = "gone" \/ (main = "returned" /\ request = b)

\* Neither does anybody else touch what thread t has found in buffer t, so that it can only
\* be without its time when it was torn.
TornInv ==
  ~clobbered =>
    /\ \A t \in Clients : thread[t] = "handle" => message[t] # 0
    /\ main = "crashed" => \E k \in Clients \ strangers : torn[k] # {}

ConnInv == ConnTypeOK /\ StreamInv /\ PieceInv /\ LoopInv /\ OwnerInv /\ TornInv

-----------------------------------------------------------------------------
\* Texts lie one write after another.
LEMMA TextOrder ==
  ASSUME NEW m \in Nat, NEW n \in Nat
  PROVE  /\ TextStart(n) \in Int
         /\ TextStart(m) < TextStart(n) => m < n
         /\ TextStart(n + 1) = n * WRITE_SIZE
<1>1. WRITE_SIZE \in Nat /\ WRITE_SIZE > 0
  BY StreamAssumption
<1>2. \A a, b \in Int : a * WRITE_SIZE \in Int /\ (a <= b => a * WRITE_SIZE <= b * WRITE_SIZE)
  BY <1>1
<1>. QED  BY <1>1, <1>2 DEF TextStart

\* What TextAt says of a position: where the text it finds there starts, and that
\* it has been written if the position has.
LEMMA TextAtPosition ==
  ASSUME NEW p \in Nat
  PROVE  /\ TextAt(p) \in Nat
         /\ TextAt(p) # 0 => TextStart(TextAt(p)) = p
         /\ \A s \in Nat : p < s * WRITE_SIZE => TextAt(p) <= s
<1>1. WRITE_SIZE \in Nat /\ WRITE_SIZE > 0
  BY StreamAssumption
<1>2. /\ p \div WRITE_SIZE \in Nat /\ p % WRITE_SIZE \in Nat
      /\ p = WRITE_SIZE * (p \div WRITE_SIZE) + (p % WRITE_SIZE)
  BY <1>1
<1>3. ASSUME NEW s \in Nat, p < s * WRITE_SIZE PROVE p \div WRITE_SIZE < s
  BY <1>1, <1>2, <1>3
<1>. QED  BY <1>1, <1>2, <1>3 DEF TextAt, TextStart

\* Texts begin at multiples of the size of a read, and none lies between two of these.
LEMMA TextsBetweenPieces ==
  ASSUME NEW a \in Nat
  PROVE  Passed(a * MESSAGE_SIZE, MESSAGE_SIZE) = {}
<1>1. /\ WRITE_SIZE \in Nat \ {0} /\ MESSAGE_SIZE \in Nat \ {0}
      /\ WRITE_SIZE % MESSAGE_SIZE = 0
  BY StreamAssumption
<1>2. PICK c \in Nat : WRITE_SIZE = MESSAGE_SIZE * c
  <2>1. /\ WRITE_SIZE \div MESSAGE_SIZE \in Nat
        /\ WRITE_SIZE = MESSAGE_SIZE * (WRITE_SIZE \div MESSAGE_SIZE) + (WRITE_SIZE % MESSAGE_SIZE)
    BY <1>1
  <2>. QED  BY <1>1, <2>1
<1>3. SUFFICES ASSUME NEW q \in a * MESSAGE_SIZE + 1 .. a * MESSAGE_SIZE + MESSAGE_SIZE - 1,
                      TextAt(q) # 0
               PROVE  FALSE
  BY DEF Passed
<1>4. a * MESSAGE_SIZE \in Nat /\ q \in Nat
  BY <1>1
<1>5. q % WRITE_SIZE = 0
  BY <1>3 DEF TextAt
<1>6. PICK d \in Nat : q = WRITE_SIZE * d
  <2>1. q \div WRITE_SIZE \in Nat /\ q = WRITE_SIZE * (q \div WRITE_SIZE) + (q % WRITE_SIZE)
    BY <1>1, <1>4
  <2>2. q = WRITE_SIZE * (q \div WRITE_SIZE)
    BY <1>1, <1>5, <2>1
  <2>. QED  BY <2>1, <2>2
<1>7. PICK e \in Nat : e = c * d /\ q = MESSAGE_SIZE * e
  BY <1>1, <1>2, <1>6
<1>8. a < e /\ e < a + 1
  <2>1. a * MESSAGE_SIZE < MESSAGE_SIZE * e /\ MESSAGE_SIZE * e < (a + 1) * MESSAGE_SIZE
    BY <1>1, <1>4, <1>7
  <2>2. \A x, y \in Nat : x <= y => x * MESSAGE_SIZE <= y * MESSAGE_SIZE
    BY <1>1
  <2>. QED  BY <1>1, <2>1, <2>2
<1>. QED  BY <1>8

-----------------------------------------------------------------------------
\* The parts of the type invariant about the streams, and about everything else.
StreamTypes ==
  /\ strangers \subseteq Clients
  /\ sent \in [Clients -> Nat]
  /\ consumed \in [Clients -> Nat]
  /\ skipped \in [Clients -> SUBSET Nat]
  /\ torn \in [Clients -> SUBSET Nat]
  /\ handled \in [Clients -> SUBSET Nat]
  /\ message \in [Clients -> Nat]
  /\ timed \in [Clients -> BOOLEAN]
  /\ short \subseteq Clients
  /\ \A k \in Clients :
        /\ sent[k] <= MAX_REQUESTS[k]
        /\ consumed[k] <= sent[k] * WRITE_SIZE
        /\ skipped[k] \union torn[k] \union handled[k] \subseteq 1 .. sent[k]
        /\ message[k] <= sent[k]

LoopTypes ==
  /\ connected \subseteq Clients
  /\ closed \subseteq connected
  /\ accepted \subseteq connected
  /\ main \in {"accept", "read", "dispatch", "returned", "crashed"}
  /\ request \in Clients \union {None}
  /\ thread \in [Clients -> {"none", "created", "validate", "handle", "read", "gone"}]
  /\ pa_request \in [Clients -> Clients \union {None}]
  /\ freed \subseteq Clients
  /\ clobbered \in BOOLEAN

\* What a read is, of whichever thread.
PieceOf(b, n, m) ==
  /\ n \in 1 .. MESSAGE_SIZE /\ n <= Available(b)
  /\ m \in Nat /\ n <= m
  /\ PieceRead(b, n, m)
  /\ UNCHANGED <<strangers, sent, handled>>

LEMMA PieceCases ==
  ASSUME NEW b, ReadPiece(b) \/ FirstPiece(b), UNCHANGED <<strangers, sent, handled>>
  PROVE  \E n, m \in Nat : PieceOf(b, n, m)
<1>1. MESSAGE_SIZE \in Nat /\ FIELDS \in Nat
  BY StreamAssumption
<1>. QED  BY <1>1 DEF ReadPiece, FirstPiece, PieceOf

\* A read keeps the buffer and the stream of its connection in step.
LEMMA PieceKeepsStream ==
  ASSUME StreamTypes, StreamInv, NEW b \in Clients, NEW n \in Nat, NEW m \in Nat, PieceOf(b, n, m)
  PROVE  StreamTypes' /\ StreamInv'
<1> DEFINE p == consumed[b]
           text == TextAt(p)
           service == IF m >= SERVICE /\ b \notin strangers THEN text ELSE 0
<1>1. /\ n <= Available(b) /\ n <= m /\ n \in 1 .. MESSAGE_SIZE
      /\ consumed' = [consumed EXCEPT ![b] = @ + n]
      /\ message' = [message EXCEPT ![b] = service]
      /\ timed' = [timed EXCEPT ![b] = (p % WRITE_SIZE) + 1 < SERVICE /\ (p % WRITE_SIZE) + m >= FIELDS]
      /\ skipped' = [skipped EXCEPT ![b] = @ \union Passed(p, n) \union ({text} \ {0, service})]
      /\ torn' = [torn EXCEPT ![b] = IF n < TEXT THEN @ \union ({text} \ {0}) ELSE @]
      /\ short' = IF n < MESSAGE_SIZE THEN short \union {b} ELSE short
      /\ UNCHANGED <<strangers, sent, handled>>
  BY DEF PieceOf, PieceRead
<1>2. /\ WRITE_SIZE \in Nat \ {0} /\ MESSAGE_SIZE \in Nat
      /\ SERVICE \in Nat /\ FIELDS \in Nat /\ TEXT \in Nat
      /\ 2 <= SERVICE /\ FIELDS <= TEXT
      /\ p \in Nat /\ sent[b] \in Nat /\ sent[b] * WRITE_SIZE \in Nat
      /\ n \in Nat \ {0}
  BY <1>1, StreamAssumption DEF StreamTypes
<1>3. p + n <= sent[b] * WRITE_SIZE
  BY <1>1, <1>2 DEF Available
<1>4. text \in Nat /\ text <= sent[b] /\ (text # 0 => TextStart(text) = p)
  BY <1>2, <1>3, TextAtPosition
<1>5. Passed(p, n) \subseteq 1 .. sent[b]
  <2>1. ASSUME NEW q \in p + 1 .. p + n - 1, TextAt(q) # 0
        PROVE  TextAt(q) \in 1 .. sent[b]
    <3>1. q \in Nat /\ q < sent[b] * WRITE_SIZE
      BY <1>2, <1>3
    <3>2. TextAt(q) \in Nat /\ TextAt(q) <= sent[b]
      BY <1>2, <3>1, TextAtPosition
    <3>. QED  BY <1>2, <2>1, <3>2
  <2>. QED  BY <2>1 DEF Passed
<1>6. service \in {0, text} /\ service \in Nat /\ (b \in strangers => service = 0)
  BY <1>4
<1>7. /\ consumed'[b] = p + n /\ message'[b] = service
      /\ \A k \in Clients \ {b} : consumed'[k] = consumed[k] /\ message'[k] = message[k]
      /\ consumed' \in [Clients -> Nat] /\ message' \in [Clients -> Nat]
  BY <1>1, <1>2, <1>6 DEF StreamTypes
<1>8. {text} \ {0} \subseteq 1 .. sent[b]
  BY <1>2, <1>4
<1>9. /\ skipped'[b] \subseteq skipped[b] \union 1 .. sent[b]
      /\ \A k \in Clients \ {b} : skipped'[k] = skipped[k]
      /\ skipped' \in [Clients -> SUBSET Nat]
  <2>1. Passed(p, n) \union ({text} \ {0, service}) \subseteq 1 .. sent[b]
    BY <1>5, <1>8
  <2>2. 1 .. sent[b] \subseteq Nat
    BY <1>2
  <2>. QED  BY <1>1, <2>1, <2>2 DEF StreamTypes
<1>10. /\ torn'[b] \subseteq torn[b] \union 1 .. sent[b]
       /\ n < TEXT => {text} \ {0} \subseteq torn'[b]
       /\ \A k \in Clients \ {b} : torn'[k] = torn[k]
       /\ torn' \in [Clients -> SUBSET Nat]
  <2>1. 1 .. sent[b] \subseteq Nat
    BY <1>2
  <2>. QED  BY <1>1, <1>8, <2>1 DEF StreamTypes
<1>11. /\ timed' \in [Clients -> BOOLEAN]
       /\ \A k \in Clients \ {b} : timed'[k] = timed[k]
       /\ timed'[b] = ((p % WRITE_SIZE) + 1 < SERVICE /\ (p % WRITE_SIZE) + m >= FIELDS)
  BY <1>1 DEF StreamTypes
<1>12. ASSUME service # 0 PROVE timed'[b] \/ service \in torn'[b]
  <2>1. p % WRITE_SIZE = 0
    BY <1>6, <1>12 DEF TextAt
  <2>2. CASE m >= FIELDS
    BY <1>2, <1>11, <2>1, <2>2
  <2>3. CASE m < FIELDS
    BY <1>1, <1>2, <1>6, <1>10, <1>12, <2>3
  <2>. QED  BY <1>2, <2>2, <2>3
<1>13. StreamTypes'
  <2>1. ASSUME NEW k \in Clients
        PROVE  /\ sent'[k] <= MAX_REQUESTS[k]
               /\ consumed'[k] <= sent'[k] * WRITE_SIZE
               /\ skipped'[k] \union torn'[k] \union handled'[k] \subseteq 1 .. sent'[k]
               /\ message'[k] <= sent'[k]
    <3>1. CASE k # b
      BY <1>1, <1>7, <1>9, <1>10, <3>1 DEF StreamTypes
    <3>2. CASE k = b
      <4>1. skipped[b] \union torn[b] \union handled[b] \subseteq 1 .. sent[b]
        BY DEF StreamTypes
      <4>2. service <= sent[b]
        BY <1>2, <1>4, <1>6
      <4>3. sent[b] <= MAX_REQUESTS[b]
        BY DEF StreamTypes
      <4>. QED  BY <1>1, <1>3, <1>7, <1>9, <1>10, <3>2, <4>1, <4>2, <4>3
    <3>. QED  BY <3>1, <3>2
  <2>2. short' \subseteq Clients
    BY <1>1 DEF StreamTypes
  <2>. QED  BY <1>1, <1>7, <1>9, <1>10, <1>11, <2>1, <2>2 DEF StreamTypes
<1>14. ASSUME NEW k \in Clients
      PROVE  /\ message'[k] # 0 => /\ TextStart(message'[k]) < consumed'[k]
                                   /\ k \notin strangers
                                   /\ timed'[k] \/ message'[k] \in torn'[k]
             /\ \A h \in handled[k] : /\ TextStart(h) < consumed'[k]
                                      /\ message'[k] # 0 => h < message'[k]
  <2>1. CASE k # b
    BY <1>7, <1>10, <1>11, <2>1 DEF StreamInv
  <2>2. CASE k = b
    <3>1. service # 0 => TextStart(service) < p + n /\ b \notin strangers
      BY <1>2, <1>4, <1>6
    <3>2. ASSUME NEW h \in handled[b]
          PROVE  TextStart(h) < p + n /\ (service # 0 => h < service)
      <4>1. h \in Nat /\ TextStart(h) \in Int /\ TextStart(h) < p
        BY TextOrder DEF StreamInv, StreamTypes
      <4>2. ASSUME service # 0 PROVE h < service
        <5>1. TextStart(h) < TextStart(service)
          BY <1>4, <1>6, <4>1, <4>2
        <5>. QED  BY <1>6, <4>1, <5>1, TextOrder
      <4>3. TextStart(h) < p + n
        BY <1>2, <4>1
      <4>. QED  BY <4>2, <4>3
    <3>. QED  BY <1>7, <1>12, <2>2, <3>1, <3>2
  <2>. QED  BY <2>1, <2>2
<1>15. StreamInv'
  BY <1>1, <1>14 DEF StreamInv, TextStart
<1>. QED  BY <1>13, <1>15

\* A full read that begins at a multiple of its size passes no text, and does not tear
\* the one it begins with.
LEMMA PieceKeepsFull ==
  ASSUME StreamTypes, PieceInv, NEW b \in Clients, NEW n \in Nat, NEW m \in Nat, PieceOf(b, n, m)
  PROVE  PieceInv'
<1> DEFINE p == consumed[b]
           text == TextAt(p)
           service == IF m >= SERVICE /\ b \notin strangers THEN text ELSE 0
<1>1. /\ n <= m /\ n <= MESSAGE_SIZE
      /\ consumed' = [consumed EXCEPT ![b] = @ + n]
      /\ skipped' = [skipped EXCEPT ![b] = @ \union Passed(p, n) \union ({text} \ {0, service})]
      /\ torn' = [torn EXCEPT ![b] = IF n < TEXT THEN @ \union ({text} \ {0}) ELSE @]
      /\ short' = IF n < MESSAGE_SIZE THEN short \union {b} ELSE short
      /\ strangers' = strangers
  BY StreamAssumption DEF PieceOf, PieceRead
<1>2. SUFFICES ASSUME NEW k \in Clients \ short'
               PROVE  /\ \E pieces \in Nat : consumed'[k] = pieces * MESSAGE_SIZE
                      /\ k \notin strangers => skipped'[k] = {}
                      /\ torn'[k] = {}
  BY <1>1 DEF PieceInv
<1>3. k \notin short
  BY <1>1, <1>2
<1>4. CASE k # b
  BY <1>1, <1>3, <1>4 DEF PieceInv, StreamTypes
<1>5. CASE k = b
  <2>1. /\ MESSAGE_SIZE \in Nat /\ SERVICE \in Nat /\ TEXT \in Nat
        /\ SERVICE <= MESSAGE_SIZE /\ TEXT <= MESSAGE_SIZE
    BY StreamAssumption
  <2>2. n = MESSAGE_SIZE
    BY <1>1, <1>2, <1>5, <2>1
  <2>3. PICK a \in Nat : p = a * MESSAGE_SIZE
    BY <1>3, <1>5 DEF PieceInv
  <2>4. consumed'[b] = (a + 1) * MESSAGE_SIZE
    BY <1>1, <2>1, <2>2, <2>3 DEF StreamTypes
  <2>5. Passed(p, n) = {}
    BY <2>2, <2>3, TextsBetweenPieces
  <2>6. b \notin strangers => service = text
    BY <1>1, <2>1, <2>2
  <2>7. b \notin strangers => skipped'[b] = {}
    <3>1. b \notin strangers => skipped[b] = {}
      BY <1>3, <1>5 DEF PieceInv
    <3>2. skipped'[b] = skipped[b] \union Passed(p, n) \union ({text} \ {0, service})
      BY <1>1 DEF StreamTypes
    <3>. QED  BY <2>5, <2>6, <3>1, <3>2
  <2>8. torn'[b] = {}
    BY <1>1, <1>3, <1>5, <2>1, <2>2 DEF PieceInv, StreamTypes
  <2>9. a + 1 \in Nat
    OBVIOUS
  <2>. QED  BY <1>5, <2>4, <2>7, <2>8, <2>9
<1>. QED  BY <1>4, <1>5

\* Every other step, too: writes append to a stream, and a request that is handled
\* leaves the buffer.
LEMMA StreamNext ==
  ASSUME ConnInv, [Next]_vars
  PROVE  StreamTypes' /\ StreamInv' /\ PieceInv'
<1>1. StreamTypes /\ StreamInv /\ PieceInv
  BY DEF ConnInv, ConnTypeOK, StreamTypes
<1>2. ASSUME UNCHANGED <<strangers, sent, consumed, skipped, torn, short, handled, message, timed>>
      PROVE  StreamTypes' /\ StreamInv' /\ PieceInv'
  BY <1>1, <1>2 DEF StreamTypes, StreamInv, PieceInv, TextStart
<1>3. ASSUME NEW k \in Clients, Send(k), UNCHANGED strangers
      PROVE  StreamTypes' /\ StreamInv' /\ PieceInv'
  <2>1. /\ sent[k] \in Nat /\ MAX_REQUESTS[k] \in Nat /\ WRITE_SIZE \in Nat
        /\ sent[k] < MAX_REQUESTS[k]
    BY <1>1, <1>3, StreamAssumption DEF Send, StreamTypes
  <2>2. sent[k] * WRITE_SIZE <= (sent[k] + 1) * WRITE_SIZE
    BY <2>1
  <2>3. /\ sent' \in [Clients -> Nat] /\ sent'[k] = sent[k] + 1
        /\ \A j \in Clients \ {k} : sent'[j] = sent[j]
        /\ UNCHANGED <<strangers, consumed, skipped, torn, short, handled, message, timed>>
    BY <1>1, <1>3, <2>1 DEF Send, StreamTypes, threadVars, bufferVars
  <2>4. ASSUME NEW j \in Clients
        PROVE  /\ sent'[j] <= MAX_REQUESTS[j]
               /\ consumed[j] <= sent'[j] * WRITE_SIZE
               /\ skipped[j] \union torn[j] \union handled[j] \subseteq 1 .. sent'[j]
               /\ message[j] <= sent'[j]
    <3>1. CASE j # k
      BY <1>1, <2>3, <3>1 DEF StreamTypes
    <3>2. CASE j = k
      <4>1. sent[k] * WRITE_SIZE \in Nat /\ (sent[k] + 1) * WRITE_SIZE \in Nat /\ consumed[k] \in Nat
        BY <2>1, <1>1 DEF StreamTypes
      <4>2. consumed[k] <= (sent[k] + 1) * WRITE_SIZE
        BY <1>1, <2>2, <4>1 DEF StreamTypes
      <4>3. /\ skipped[k] \union torn[k] \union handled[k] \subseteq 1 .. sent[k] + 1
            /\ message[k] <= sent[k] + 1
        BY <1>1, <2>1 DEF StreamTypes
      <4>. QED  BY <2>1, <2>3, <3>2, <4>2, <4>3
    <3>. QED  BY <3>1, <3>2
  <2>5. StreamTypes'
    BY <1>1, <2>3, <2>4 DEF StreamTypes
  <2>. QED  BY <1>1, <2>3, <2>5 DEF StreamInv, PieceInv, TextStart
<1>4. CASE FirstRead /\ UNCHANGED strangers
  <2>1. request \in Clients /\ FirstPiece(request) /\ UNCHANGED <<strangers, sent, handled>>
    BY <1>4 DEF FirstRead, ConnInv, LoopInv, ConnTypeOK, threadVars
  <2>. QED  BY <1>1, <2>1, PieceCases, PieceKeepsStream, PieceKeepsFull
<1>5. ASSUME NEW t \in Clients, Read(t), UNCHANGED strangers
      PROVE  StreamTypes' /\ StreamInv' /\ PieceInv'
  <2>1. pa_request[t] \in Clients /\ ReadPiece(pa_request[t]) /\ UNCHANGED <<strangers, sent, handled>>
    BY <1>5 DEF Read, ThreadTo, Serving, ConnInv, LoopInv
  <2>. QED  BY <1>1, <2>1, PieceCases, PieceKeepsStream, PieceKeepsFull
<1>6. ASSUME NEW t \in Clients, Handle(t), UNCHANGED strangers
      PROVE  StreamTypes' /\ StreamInv' /\ PieceInv'
  <2>1. PICK b \in Clients : b = pa_request[t]
    BY <1>6 DEF Handle, ThreadTo, Serving, ConnInv, LoopInv
  <2>2. Found(b) \subseteq 1 .. sent[b] /\ \A n \in Found(b) : n # 0 /\ n = message[b]
    BY <1>1 DEF Found, StreamTypes
  <2>3. 1 .. sent[b] \subseteq Nat
    BY <1>1 DEF StreamTypes
  <2>4. /\ handled' \in [Clients -> SUBSET Nat] /\ message' \in [Clients -> Nat]
        /\ handled'[b] = handled[b] \union Found(b) /\ message'[b] = 0
        /\ \A k \in Clients \ {b} : handled'[k] = handled[k] /\ message'[k] = message[k]
    BY <1>1, <1>6, <2>1, <2>2, <2>3 DEF Handle, StreamTypes
  <2>5. /\ timed' \in [Clients -> BOOLEAN]
        /\ \A k \in Clients \ {b} : timed'[k] = timed[k]
        /\ UNCHANGED <<strangers, sent, consumed, skipped, torn, short>>
    BY <1>1, <1>6, <2>1 DEF Handle, StreamTypes, streamVars
  <2>6. \A k \in Clients : /\ handled'[k] \subseteq 1 .. sent[k]
                            /\ message'[k] <= sent[k]
    BY <1>1, <2>2, <2>4 DEF StreamTypes
  <2>7. StreamTypes'
    BY <1>1, <2>4, <2>5, <2>6 DEF StreamTypes
  <2>8. ASSUME NEW k \in Clients
        PROVE  /\ message'[k] # 0 => /\ TextStart(message'[k]) < consumed[k]
                                     /\ k \notin strangers
                                     /\ timed'[k] \/ message'[k] \in torn[k]
               /\ \A n \in handled'[k] : /\ TextStart(n) < consumed[k]
                                         /\ message'[k] # 0 => n < message'[k]
    <3>1. CASE k = b
      BY <1>1, <2>2, <2>4, <3>1 DEF StreamInv
    <3>2. CASE k # b
      BY <1>1, <2>4, <2>5, <3>2 DEF StreamInv
    <3>. QED  BY <3>1, <3>2
  <2>9. PieceInv'
    BY <1>1, <2>5 DEF PieceInv
  <2>. QED  BY <2>5, <2>7, <2>8, <2>9 DEF StreamInv, TextStart
<1>7. CASE \/ /\ UNCHANGED strangers
              /\ \/ \E k \in Clients : Connect(k) \/ Close(k) \/ Accept(k)
                 \/ FirstReadEnd \/ CreateCourier \/ NoService
                 \/ \E t \in Clients : Start(t) \/ Validate(t) \/ ReadEnd(t) \/ HandleNothing(t)
           \/ UNCHANGED vars
  BY <1>2, <1>7 DEF Connect, Close, Accept, FirstReadEnd, CreateCourier, NoService, Start,
     Validate, ReadEnd, HandleNothing, vars, streamVars, threadVars, bufferVars
<1>. QED  BY <1>3, <1>4, <1>5, <1>6, <1>7 DEF Next, ClientStep, MainStep, ThreadStep

\* server_on and the threads keep to the order accept, first read, creation, start.
LEMMA LoopNext ==
  ASSUME ConnInv, [Next]_vars
  PROVE  LoopTypes' /\ LoopInv'
<1>1. LoopTypes /\ LoopInv
  BY DEF ConnInv, ConnTypeOK, LoopTypes
<1>2. CASE \E k \in Clients : Connect(k) \/ Send(k) \/ Close(k)
  BY <1>1, <1>2 DEF Connect, Send, Close, mainVars, threadVars, LoopTypes, LoopInv, Serving
<1>3. ASSUME NEW k \in Clients, Accept(k) PROVE LoopTypes' /\ LoopInv'
  <2>1. /\ accepted' = accepted \union {k} /\ request' = k /\ main' = "read"
        /\ k \in connected \ accepted /\ clobbered' \in BOOLEAN
        /\ UNCHANGED <<connected, closed, thread, pa_request, freed>>
    BY <1>1, <1>3 DEF Accept, streamVars, threadVars, LoopTypes
  <2>2. thread[k] = "none"
    BY <1>1, <2>1 DEF LoopInv
  <2>. QED  BY <1>1, <2>1, <2>2 DEF LoopTypes, LoopInv, Serving
<1>4. CASE FirstRead \/ FirstReadEnd \/ NoService
  <2>1. /\ main' \in {"dispatch", "returned", "accept"}
        /\ main' # "accept" => main \in {"read", "dispatch"}
        /\ freed' \subseteq freed \union {request}
        /\ main' = "returned" => main = "read"
        /\ freed' # freed => main = "read"
        /\ UNCHANGED <<connected, closed, accepted, request, clobbered, thread, pa_request>>
    BY <1>1, <1>4 DEF FirstRead, FirstReadEnd, NoService, streamVars, threadVars, LoopTypes
  <2>2. main = "read" => request \in Clients
    BY <1>1 DEF LoopTypes, LoopInv
  <2>. QED  BY <1>1, <2>1, <2>2 DEF LoopTypes, LoopInv, Serving
<1>5. CASE CreateCourier
  <2>1. /\ main' = "accept"
        /\ request \in Clients /\ request \in accepted
        /\ thread' = [thread EXCEPT ![request] = "created"]
        /\ UNCHANGED <<connected, closed, accepted, request, clobbered, pa_request, freed>>
    BY <1>1, <1>5 DEF CreateCourier, streamVars, LoopTypes, LoopInv
  <2>2. \A t \in Serving' : t \in Serving
    BY <1>1, <2>1 DEF Serving, LoopTypes
  <2>. QED  BY <1>1, <2>1, <2>2 DEF LoopTypes, LoopInv
<1>6. ASSUME NEW t \in Clients, ThreadStep(t) PROVE LoopTypes' /\ LoopInv'
  <2>1. /\ thread[t] # "none" /\ main # "returned" /\ request \in Clients
        /\ \E there \in {"validate", "handle", "read", "gone"} :
              thread' = [thread EXCEPT ![t] = there]
        /\ \/ pa_request' = [pa_request EXCEPT ![t] = request]
           \/ t \in Serving /\ pa_request' = pa_request
        /\ main' \in {main, "crashed"}
        /\ freed' \in {freed, freed \union {pa_request[t]}}
        /\ freed' # freed => t \in Serving
        /\ UNCHANGED <<connected, closed, accepted, request, clobbered>>
    BY <1>1, <1>6 DEF ThreadStep, Start, Validate, Read, ReadEnd, Handle, HandleNothing, ThreadTo,
       streamVars, mainVars, Up, Serving, LoopInv, LoopTypes
  <2>2. t \in Serving => pa_request[t] \in Clients
    BY <1>1 DEF LoopInv
  <2>3. LoopTypes'
    BY <1>1, <2>1, <2>2 DEF LoopTypes
  <2>4. \A u \in Serving' : pa_request'[u] \in Clients
    BY <1>1, <2>1, <2>2 DEF LoopTypes, LoopInv, Serving
  <2>5. \A u \in Clients : /\ thread'[u] # "none" => thread[u] # "none"
                           /\ thread'[u] = "none" <=> thread[u] = "none"
    BY <1>1, <2>1 DEF LoopTypes
  <2>. QED  BY <1>1, <2>1, <2>3, <2>4, <2>5 DEF LoopInv
<1>7. CASE UNCHANGED vars
  BY <1>1, <1>7 DEF vars, streamVars, mainVars, threadVars, LoopTypes, LoopInv, Serving
<1>. QED  BY <1>2, <1>3, <1>4, <1>5, <1>6, <1>7 DEF Next, ClientStep, MainStep

\* As long as nothing was overwritten, threads and buffers stay paired.
LEMMA OwnerNext ==
  ASSUME ConnInv, [Next]_vars
  PROVE  OwnerInv'
<1>1. SUFFICES ASSUME ~clobbered' PROVE OwnerInv'
  BY DEF OwnerInv
<1>2. LoopTypes /\ LoopInv /\ OwnerInv
  BY DEF ConnInv, ConnTypeOK, LoopTypes
<1>3. CASE \E k \in Clients : Connect(k) \/ Send(k) \/ Close(k)
  BY <1>2, <1>3 DEF Connect, Send, Close, mainVars, threadVars, OwnerInv, Serving
<1>4. ASSUME NEW k \in Clients, Accept(k) PROVE OwnerInv'
  <2>1. /\ ~clobbered /\ \A t \in Clients : thread[t] # "created"
        /\ main = "accept" /\ UNCHANGED <<thread, pa_request, freed>>
    BY <1>1, <1>4 DEF Accept, threadVars
  <2>. QED  BY <1>2, <2>1 DEF OwnerInv, Serving
<1>5. CASE FirstRead \/ NoService
  BY <1>2, <1>5 DEF FirstRead, NoService, threadVars, OwnerInv, Serving
<1>6. CASE FirstReadEnd
  BY <1>2, <1>6 DEF FirstReadEnd, threadVars, OwnerInv, Serving
<1>7. CASE CreateCourier
  <2>1. /\ main = "dispatch" /\ request \in Clients /\ thread[request] = "none"
        /\ thread' = [thread EXCEPT ![request] = "created"]
        /\ main' = "accept"
        /\ UNCHANGED <<request, clobbered, pa_request, freed>>
    BY <1>2, <1>7 DEF CreateCourier, LoopTypes, LoopInv
  <2>2. /\ \A t \in Clients : thread[t] = "created" => t = request
        /\ \A b \in freed : b \in Clients /\ thread[b] = "gone"
    BY <1>1, <1>2, <2>1 DEF OwnerInv, LoopTypes
  <2>. QED  BY <1>2, <2>1, <2>2 DEF OwnerInv, Serving, LoopTypes
<1>8. ASSUME NEW t \in Clients, ThreadStep(t) PROVE OwnerInv'
  <2>1. ~clobbered /\ UNCHANGED <<clobbered, request>>
    BY <1>1, <1>8 DEF ThreadStep, Start, Validate, Read, ReadEnd, Handle, HandleNothing, mainVars
  <2>2. /\ main # "returned" /\ thread[t] \in {"created", "validate", "handle", "read"}
        /\ \E there \in {"validate", "handle", "read", "gone"} :
              thread' = [thread EXCEPT ![t] = there]
        /\ \/ thread[t] = "created" /\ pa_request' = [pa_request EXCEPT ![t] = request]
           \/ t \in Serving /\ pa_request' = pa_request
        /\ \/ freed' = freed
           \/ t \in Serving /\ freed' = freed \union {pa_request[t]} /\ thread'[t] = "gone"
    BY <1>2, <1>8 DEF ThreadStep, Start, Validate, Read, ReadEnd, Handle, HandleNothing, ThreadTo,
       Up, Serving, LoopTypes
  <2>3. pa_request'[t] = t
    BY <1>2, <2>1, <2>2 DEF OwnerInv, LoopTypes
  <2>4. \A u \in Clients \ {t} : thread'[u] = thread[u] /\ pa_request'[u] = pa_request[u]
    BY <1>2, <2>2 DEF LoopTypes
  <2>5. \A u \in Clients : thread'[u] = "created" => request' = u
    BY <1>2, <2>1, <2>2, <2>4 DEF OwnerInv, LoopTypes
  <2>6. \A u \in Serving' : pa_request'[u] = u
    BY <1>2, <2>1, <2>3, <2>4 DEF OwnerInv, Serving
  <2>7. \A b \in freed' : thread'[b] = "gone"
    <3>1. \A b \in freed : b \in Clients \ {t} /\ thread[b] = "gone"
      BY <1>2, <2>1, <2>2 DEF OwnerInv, LoopTypes
    <3>2. t \in Serving => pa_request[t] = t
      BY <1>2, <2>1 DEF OwnerInv
    <3>. QED  BY <2>2, <2>4, <3>1, <3>2
  <2>. QED  BY <2>5, <2>6, <2>7 DEF OwnerInv
<1>9. CASE UNCHANGED vars
  BY <1>2, <1>9 DEF vars, mainVars, threadVars, OwnerInv, Serving
<1>. QED  BY <1>3, <1>4, <1>5, <1>6, <1>7, <1>8, <1>9 DEF Next, ClientStep, MainStep

\* A thread handles what it has found valid, and dies of nothing but a torn text.
LEMMA TornNext ==
  ASSUME ConnInv, [Next]_vars
  PROVE  TornInv'
<1>1. SUFFICES ASSUME ~clobbered' PROVE TornInv'
  BY DEF TornInv
<1>2. LoopTypes /\ LoopInv /\ OwnerInv /\ TornInv /\ StreamTypes /\ StreamInv
  BY DEF ConnInv, ConnTypeOK, LoopTypes, StreamTypes
<1>3. CASE ClientStep
  BY <1>2, <1>3 DEF ClientStep, Connect, Send, Close, Up, mainVars, threadVars, bufferVars, TornInv
<1>4. CASE MainStep
  <2>1. main # "crashed" /\ main' # "crashed" /\ ~clobbered
    <3>1. CASE \E k \in Clients : Accept(k)
      BY <1>1, <3>1 DEF Accept
    <3>2. CASE FirstRead \/ FirstReadEnd \/ CreateCourier \/ NoService
      BY <1>1, <3>2 DEF FirstRead, FirstReadEnd, CreateCourier, NoService
    <3>. QED  BY <1>4, <3>1, <3>2 DEF MainStep
  <2>2. SUFFICES ASSUME NEW t \in Clients, thread'[t] = "handle" PROVE message'[t] # 0
    BY <2>1 DEF TornInv
  <2>3. thread[t] = "handle" /\ message[t] # 0
    <3>1. thread' = thread \/ thread' = [thread EXCEPT ![request] = "created"]
      BY <1>4 DEF MainStep, Accept, FirstRead, FirstReadEnd, CreateCourier, NoService, threadVars
    <3>2. thread[t] = "handle"
      BY <1>2, <2>2, <3>1 DEF LoopTypes
    <3>. QED  BY <1>2, <2>1, <3>2 DEF TornInv
  <2>4. CASE FirstRead
    <3>1. t # request
      BY <1>2, <2>3, <2>4 DEF FirstRead, LoopInv
    <3>2. PICK service : message' = [message EXCEPT ![request] = service]
      BY <2>4 DEF FirstRead, FirstPiece, PieceRead
    <3>. QED  BY <1>2, <2>3, <3>1, <3>2 DEF StreamTypes
  <2>5. CASE ~FirstRead
    BY <1>4, <2>3, <2>5 DEF MainStep, Accept, FirstReadEnd, CreateCourier, NoService, bufferVars
  <2>. QED  BY <2>4, <2>5
<1>5. ASSUME NEW t \in Clients, ThreadStep(t) PROVE TornInv'
  <2>1. ~clobbered /\ main # "crashed" /\ UNCHANGED strangers
    BY <1>1, <1>5 DEF ThreadStep, Start, Validate, Read, ReadEnd, Handle, HandleNothing, ThreadTo, Up,
       mainVars
  <2>2. \A u \in Serving : pa_request[u] = u
    BY <1>2, <2>1 DEF OwnerInv
  <2>3. ASSUME NEW u \in Clients, thread'[u] = "handle" PROVE message'[u] # 0
    <3>1. CASE u = t
      <4>1. Validate(t)
        BY <1>2, <1>5, <2>3, <3>1 DEF ThreadStep, Start, Read, ReadEnd, Handle, HandleNothing, ThreadTo,
           LoopTypes
      <4>2. message[pa_request[t]] # 0 /\ message' = message /\ t \in Serving
        BY <1>2, <2>3, <3>1, <4>1 DEF Validate, ThreadTo, LoopTypes, bufferVars, Serving
      <4>. QED  BY <2>2, <3>1, <4>2
    <3>2. CASE u # t
      <4>1. thread[u] = "handle" /\ message[u] # 0
        <5>1. \E there : thread' = [thread EXCEPT ![t] = there]
          BY <1>5 DEF ThreadStep, Start, Validate, Read, ReadEnd, Handle, HandleNothing, ThreadTo
        <5>2. thread[u] = "handle"
          BY <1>2, <2>3, <3>2, <5>1 DEF LoopTypes
        <5>. QED  BY <1>2, <2>1, <5>2 DEF TornInv
      <4>2. \/ message' = message
            \/ t \in Serving /\ \E service : message' = [message EXCEPT ![pa_request[t]] = service]
        BY <1>5 DEF ThreadStep, Start, Validate, Read, ReadPiece, PieceRead, ReadEnd, Handle,
           HandleNothing, ThreadTo, bufferVars, Serving
      <4>. QED  BY <1>2, <2>2, <3>2, <4>1, <4>2 DEF StreamTypes
    <3>. QED  BY <3>1, <3>2
  <2>4. ASSUME main' = "crashed" PROVE \E k \in Clients \ strangers' : torn'[k] # {}
    <3>1. HandleNothing(t)
      BY <1>5, <2>1, <2>4 DEF ThreadStep, Start, Validate, Read, ReadEnd, Handle, mainVars
    <3>2. thread[t] = "handle" /\ t \in Serving /\ ~timed[pa_request[t]] /\ torn' = torn
      BY <3>1 DEF HandleNothing, ThreadTo, Serving, streamVars
    <3>3. message[t] # 0 /\ ~timed[t]
      BY <1>2, <2>1, <2>2, <3>2 DEF TornInv
    <3>4. t \notin strangers /\ message[t] \in torn[t]
      BY <1>2, <3>3 DEF StreamInv
    <3>. QED  BY <2>1, <3>2, <3>4
  <2>. QED  BY <2>3, <2>4 DEF TornInv
<1>6. CASE UNCHANGED vars
  BY <1>2, <1>6 DEF vars, streamVars, mainVars, threadVars, bufferVars, TornInv
<1>. QED  BY <1>3, <1>4, <1>5, <1>6 DEF Next

-----------------------------------------------------------------------------
\* The invariant holds of every state of server_on, its clients and its threads.
THEOREM ConnInvariant == Spec => []ConnInv
<1>1. Init => ConnInv
  <2>1. ASSUME Init PROVE ConnTypeOK
    <3>1. 0 * WRITE_SIZE = 0 /\ \A k \in Clients : 0 <= MAX_REQUESTS[k]
      BY StreamAssumption
    <3>2. StreamTypes
      BY <2>1, <3>1 DEF Init, StreamTypes
    <3>3. LoopTypes
      BY <2>1 DEF Init, LoopTypes
    <3>. QED  BY <3>2, <3>3 DEF ConnTypeOK, StreamTypes, LoopTypes
  <2>2. ASSUME Init PROVE PieceInv
    <3>1. 0 \in Nat /\ 0 = 0 * MESSAGE_SIZE
      BY StreamAssumption
    <3>. QED  BY <2>2, <3>1 DEF Init, PieceInv
  <2>. QED  BY <2>1, <2>2 DEF Init, ConnInv, StreamInv, LoopInv, OwnerInv, TornInv, Serving
<1>2. ConnInv /\ [Next]_vars => ConnInv'
  BY StreamNext, LoopNext, OwnerNext, TornNext DEF ConnInv, ConnTypeOK, StreamTypes, LoopTypes
<1>. QED  BY <1>1, <1>2, PTL DEF Spec

\* Types: the server never reads behind what was written, and the requests it has
\* handled are ones that were written.
THEOREM ConnTypeCorrect == Spec => []ConnTypeOK
<1>1. ConnInv => ConnTypeOK
  BY DEF ConnInv
<1>. QED  BY <1>1, ConnInvariant, PTL

\* Unless server_on has overwritten the variable it handed over, a courier thread
\* uses a buffer of its own that nobody has freed.
THEOREM BuffersStayOwned == Spec => []BuffersOwned
<1>1. ASSUME ConnInv PROVE BuffersOwned
  <2>1. SUFFICES ASSUME ~clobbered, NEW t \in Serving
                 PROVE  /\ pa_request[t] \notin freed
                        /\ \A u \in Serving : pa_request[t] = pa_request[u] => t = u
    BY DEF BuffersOwned
  <2>2. \A u \in Serving : pa_request[u] = u
    BY <1>1, <2>1 DEF ConnInv, OwnerInv
  <2>3. t \notin freed
    BY <1>1, <2>1 DEF ConnInv, OwnerInv, LoopInv, Serving
  <2>. QED  BY <2>1, <2>2, <2>3
<1>. QED  BY <1>1, ConnInvariant, PTL

\* Requests are skipped or taken for less than they are only after a read that returned less
\* than the buffer holds, and a thread that owns its buffer dies only of a torn text.
THEOREM FullReadsKeep == Spec => []FullReadsKeepRequests
<1>1. ConnInv => FullReadsKeepRequests
  BY DEF ConnInv, PieceInv, TornInv, FullReadsKeepRequests
<1>. QED  BY <1>1, ConnInvariant, PTL

\* A courier thread handles the requests of its connection in the order in which
\* they were written, and none of them twice.
THEOREM RequestsHandledInOrder == Spec => HandledInOrder
<1>1. ConnInv /\ [Next]_vars =>
        [\A t \in Clients : Handle(t) /\ ~clobbered =>
           \A n \in handled[pa_request[t]] : n < message[pa_request[t]]]_vars
  <2>1. ASSUME ConnInv, NEW t \in Clients, Handle(t), ~clobbered
        PROVE  \A n \in handled[pa_request[t]] : n < message[pa_request[t]]
    <3>1. pa_request[t] = t /\ message[t] # 0
      BY <2>1 DEF Handle, ThreadTo, Serving, ConnInv, OwnerInv, TornInv
    <3>. QED  BY <2>1, <3>1 DEF ConnInv, StreamInv
  <2>. QED  BY <2>1
<1>. QED  BY <1>1, ConnInvariant, PTL DEF Spec, HandledInOrder
=============================================================================
