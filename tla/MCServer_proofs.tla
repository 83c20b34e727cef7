---------------------------- MODULE MCServer_proofs ----------------------------
(***************************************************************************)
(* The connection to the client: without timeouts every reply is the       *)
(* answer to the request the client has sent last, an object is read as it *)
(* was at one moment, and no request is carried out twice, however many    *)
(* packets are damaged and however often ctrl-C crosses a reply.           *)
(* One core that runs: its stops are named after the instruction it stopped *)
(* at, its calls of the host can be answered, and it is called idle when it *)
(* has been idle.                                                          *)
(* The tables: a thread is a core of the platform and belongs to one       *)
(* process, and the list the client was told is of threads that are alive. *)
(* The memory: every byte is under one breakpoint, which keeps what it     *)
(* hides, or as the client wrote it, or known to be lost track of.         *)
(* A document read part by part is one version of it, as a whole.          *)
(* Registers, text and escaped bytes come back as they were.               *)
(***************************************************************************)
EXTENDS MCServer, FiniteSetTheorems, SequenceTheorems, WellFoundedInduction, TLAPS

T == Line!Tokens

\* What a sequence is after its first element has gone.
LEMMA TailRight ==
  ASSUME NEW S, NEW s \in Seq(S), s # <<>>, NEW r, r = Tail(s)
  PROVE  /\ s[1] \in S /\ Head(s) = s[1] /\ r \in Seq(S) /\ Len(s) \in Nat \ {0} /\ Len(r) = Len(s) - 1
         /\ DOMAIN s = 1 .. Len(s) /\ DOMAIN r = 1 .. Len(s) - 1
         /\ \A i \in 1 .. Len(s) - 1 : r[i] = s[i + 1]
  OBVIOUS

\* And with one more at its end.
LEMMA AppendRight ==
  ASSUME NEW S, NEW s \in Seq(S), NEW e \in S, NEW r, r = Append(s, e)
  PROVE  /\ r \in Seq(S) /\ Len(s) \in Nat /\ Len(r) = Len(s) + 1
         /\ DOMAIN s = 1 .. Len(s) /\ DOMAIN r = 1 .. Len(s) + 1
         /\ r[Len(s) + 1] = e /\ \A i \in 1 .. Len(s) : r[i] = s[i]
  OBVIOUS

\* The tokens of the line.
LEMMA TokensRight ==
  /\ Line!Ack \in T /\ Line!Nak \in T /\ Line!Break \in T /\ Line!Eof \in T
  /\ Line!Ack.kind = "+" /\ Line!Nak.kind = "-" /\ Line!Break.kind = "break" /\ Line!Eof.kind = "eof"
  BY DEF T, Line!Ack, Line!Nak, Line!Break, Line!Eof, Line!Token, Line!Tokens, Line!Kinds, Line!Continue

\* And a packet.
LEMMA PacketRight ==
  ASSUME NEW i \in Int, NEW a \in Int, NEW v \in Int, NEW p, p = Line!Packet(i, a, v)
  PROVE  p \in T /\ p.kind = "packet" /\ p.id = i /\ p.ask = a /\ p.ver = v /\ p.ok
  BY DEF T, Line!Packet, Line!Tokens, Line!Kinds

-----------------------------------------------------------------------------
(* Streams *)

\* What is said of the requests on their way, after one token was read.
LEMMA RequestsRead ==
  ASSUME NEW s \in Seq(T), s # <<>>, NEW r, r = Tail(s), NEW i, NEW a
  PROVE  /\ Head(s) \in T /\ r \in Seq(T)
         /\ Line!OneRequest(s, i, a) => Line!OneRequest(r, i, a)
         /\ ~Line!HasPacket(s) => ~Line!HasPacket(r) /\ Head(s).kind # "packet"
         /\ Line!OneRequest(s, i, a) /\ Head(s).kind = "packet"
              => ~Line!HasPacket(r) /\ Head(s).id = i /\ Head(s).ask = a
         /\ Line!HasPacket(s) /\ Head(s).kind # "packet" => Line!HasPacket(r)
         /\ Line!AckBefore(s) /\ Head(s).kind # "+" => Line!AckBefore(r)
         /\ Line!AckBefore(s) => Head(s).kind # "packet"
         /\ Line!HasAck(s) /\ Head(s).kind # "+" => Line!HasAck(r)
         /\ ~Line!HasEof(s) => ~Line!HasEof(r) /\ Head(s).kind # "eof"
<1>1. /\ s[1] \in T /\ Head(s) = s[1] /\ r \in Seq(T) /\ Len(s) \in Nat \ {0} /\ Len(r) = Len(s) - 1
      /\ DOMAIN s = 1 .. Len(s) /\ DOMAIN r = 1 .. Len(s) - 1
      /\ \A k \in 1 .. Len(s) - 1 : r[k] = s[k + 1]
  BY TailRight
<1>2. \A k \in DOMAIN r : k + 1 \in DOMAIN s /\ r[k] = s[k + 1]
  BY <1>1
<1>3. \A k \in DOMAIN s : k # 1 => k - 1 \in DOMAIN r /\ s[k] = r[k - 1]
  BY <1>1
<1>4. Line!OneRequest(s, i, a) => Line!OneRequest(r, i, a)
  BY <1>1, <1>2 DEF Line!OneRequest
<1>5. ~Line!HasPacket(s) => ~Line!HasPacket(r) /\ Head(s).kind # "packet"
  BY <1>1, <1>2 DEF Line!HasPacket
<1>6. Line!OneRequest(s, i, a) /\ Head(s).kind = "packet" => ~Line!HasPacket(r) /\ Head(s).id = i /\ Head(s).ask = a
  BY <1>1, <1>2 DEF Line!HasPacket, Line!OneRequest
<1>7. Line!HasPacket(s) /\ Head(s).kind # "packet" => Line!HasPacket(r)
  BY <1>1, <1>3 DEF Line!HasPacket
<1>8. Line!AckBefore(s) /\ Head(s).kind # "+" => Line!AckBefore(r)
  <2>. SUFFICES ASSUME Line!AckBefore(s), Head(s).kind # "+", NEW k \in DOMAIN r, r[k].kind = "packet"
                PROVE  \E j \in 1 .. k - 1 : r[j].kind = "+"
    BY DEF Line!AckBefore
  <2>1. PICK j \in 1 .. (k + 1) - 1 : s[j].kind = "+"
    BY <1>2 DEF Line!AckBefore
  <2>2. j # 1 /\ j - 1 \in 1 .. k - 1 /\ j \in DOMAIN s
    BY <1>1, <2>1
  <2>. QED
    BY <1>3, <2>1, <2>2
<1>9. Line!AckBefore(s) => Head(s).kind # "packet"
  BY <1>1 DEF Line!AckBefore
<1>10. Line!HasAck(s) /\ Head(s).kind # "+" => Line!HasAck(r)
  BY <1>1, <1>3 DEF Line!HasAck
<1>11. ~Line!HasEof(s) => ~Line!HasEof(r) /\ Head(s).kind # "eof"
  BY <1>1, <1>2 DEF Line!HasEof
<1>. QED
  BY <1>1, <1>4, <1>5, <1>6, <1>7, <1>8, <1>9, <1>10, <1>11

\* After one more was sent.
LEMMA RequestsSent ==
  ASSUME NEW s \in Seq(T), NEW e \in T, NEW r, r = Append(s, e), NEW i, NEW a
  PROVE  /\ r \in Seq(T)
         /\ Line!OneRequest(s, i, a) /\ e.kind # "packet" => Line!OneRequest(r, i, a)
         /\ ~Line!HasPacket(s) /\ e.kind = "packet" /\ e.id = i /\ e.ask = a => Line!OneRequest(r, i, a)
         /\ Line!HasPacket(r) <=> Line!HasPacket(s) \/ e.kind = "packet"
         /\ Line!AckBefore(s) /\ (e.kind = "packet" => Line!HasAck(s)) => Line!AckBefore(r)
         /\ Line!HasAck(r) <=> Line!HasAck(s) \/ e.kind = "+"
         /\ Line!HasEof(r) <=> Line!HasEof(s) \/ e.kind = "eof"
<1>1. /\ r \in Seq(T) /\ Len(s) \in Nat /\ Len(r) = Len(s) + 1
      /\ DOMAIN s = 1 .. Len(s) /\ DOMAIN r = 1 .. Len(s) + 1
      /\ r[Len(s) + 1] = e /\ \A k \in 1 .. Len(s) : r[k] = s[k]
  BY AppendRight
<1>2. \A k \in DOMAIN r : k = Len(s) + 1 \/ (k \in DOMAIN s /\ r[k] = s[k])
  BY <1>1
<1>3. \A k \in DOMAIN s : k \in DOMAIN r /\ r[k] = s[k] /\ k # Len(s) + 1
  BY <1>1
<1>4. Len(s) + 1 \in DOMAIN r
  BY <1>1
<1>5. Line!OneRequest(s, i, a) /\ e.kind # "packet" => Line!OneRequest(r, i, a)
  BY <1>1, <1>2 DEF Line!OneRequest
<1>6. ~Line!HasPacket(s) /\ e.kind = "packet" /\ e.id = i /\ e.ask = a => Line!OneRequest(r, i, a)
  BY <1>1, <1>2 DEF Line!OneRequest, Line!HasPacket
<1>7. /\ Line!HasPacket(r) <=> Line!HasPacket(s) \/ e.kind = "packet"
      /\ Line!HasAck(r) <=> Line!HasAck(s) \/ e.kind = "+"
      /\ Line!HasEof(r) <=> Line!HasEof(s) \/ e.kind = "eof"
  BY <1>1, <1>2, <1>3, <1>4 DEF Line!HasPacket, Line!HasAck, Line!HasEof
<1>8. Line!AckBefore(s) /\ (e.kind = "packet" => Line!HasAck(s)) => Line!AckBefore(r)
  <2>. SUFFICES ASSUME Line!AckBefore(s), e.kind = "packet" => Line!HasAck(s), NEW k \in DOMAIN r, r[k].kind = "packet"
                PROVE  \E j \in 1 .. k - 1 : r[j].kind = "+"
    BY DEF Line!AckBefore
  <2>1. CASE k = Len(s) + 1
    BY <1>1, <1>3, <2>1 DEF Line!HasAck
  <2>2. CASE k \in DOMAIN s /\ r[k] = s[k]
    <3>1. PICK j \in 1 .. k - 1 : s[j].kind = "+"
      BY <2>2 DEF Line!AckBefore
    <3>2. j \in DOMAIN s
      BY <1>1, <2>2
    <3>. QED
      BY <1>3, <3>1, <3>2
  <2>. QED
    BY <1>2, <2>1, <2>2
<1>. QED
  BY <1>1, <1>5, <1>6, <1>7, <1>8

\* What is said of the answers on their way, after one token was read.
LEMMA AnswersRead ==
  ASSUME NEW s \in Seq(T), s # <<>>, NEW r, r = Tail(s), NEW i, NEW a, NEW v
  PROVE  /\ Head(s) \in T /\ r \in Seq(T)
         /\ Line!OnlyPackets(s) => Line!OnlyPackets(r) /\ Head(s).kind = "packet"
         /\ \A k : Line!PacketsThen(s, k) =>
              (Head(s).kind = k /\ r = <<>>) \/ (Head(s).kind = "packet" /\ Line!PacketsThen(r, k))
         /\ Line!AllAnswers(s, i, a, v) => Line!AllAnswers(r, i, a, v) /\ Line!Answers(Head(s), i, a, v)
         /\ Line!AckThenAnswers(s, i, a, v) => \/ Head(s).kind = "+" /\ Line!AllAnswers(r, i, a, v)
                                               \/ Head(s).kind = "packet" /\ Line!AckThenAnswers(r, i, a, v)
<1>1. /\ s[1] \in T /\ Head(s) = s[1] /\ r \in Seq(T) /\ Len(s) \in Nat \ {0} /\ Len(r) = Len(s) - 1
      /\ DOMAIN s = 1 .. Len(s) /\ DOMAIN r = 1 .. Len(s) - 1
      /\ \A k \in 1 .. Len(s) - 1 : r[k] = s[k + 1]
  BY TailRight
<1>2. \A k \in DOMAIN r : k + 1 \in DOMAIN s /\ r[k] = s[k + 1]
  BY <1>1
<1>3. Line!OnlyPackets(s) => Line!OnlyPackets(r) /\ Head(s).kind = "packet"
  BY <1>1, <1>2 DEF Line!OnlyPackets
<1>4. ASSUME NEW e, Line!PacketsThen(s, e)
      PROVE  (Head(s).kind = e /\ r = <<>>) \/ (Head(s).kind = "packet" /\ Line!PacketsThen(r, e))
  <2>1. s[Len(s)].kind = e /\ \A k \in 1 .. Len(s) - 1 : s[k].kind = "packet"
    BY <1>4 DEF Line!PacketsThen
  <2>2. CASE Len(s) = 1
    BY <1>1, <2>1, <2>2
  <2>3. CASE Len(s) # 1
    <3>1. Head(s).kind = "packet" /\ r # <<>> /\ Len(r) \in 1 .. Len(s) - 1 /\ r[Len(r)] = s[Len(s)]
      <4>1. 1 \in 1 .. Len(s) - 1 /\ Len(r) \in 1 .. Len(s) - 1 /\ Len(r) + 1 = Len(s)
        BY <1>1, <2>3
      <4>2. r # <<>>
        BY <1>1, <4>1
      <4>. QED
        BY <1>1, <2>1, <4>1, <4>2
    <3>2. ASSUME NEW k \in 1 .. Len(r) - 1 PROVE r[k].kind = "packet"
      <4>1. k \in 1 .. Len(s) - 1 /\ k + 1 \in 1 .. Len(s) - 1
        BY <1>1
      <4>. QED
        BY <1>1, <2>1, <4>1
    <3>. QED
      BY <2>1, <3>1, <3>2 DEF Line!PacketsThen
  <2>. QED
    BY <2>2, <2>3
<1>5. \A k : Line!PacketsThen(s, k) =>
        (Head(s).kind = k /\ r = <<>>) \/ (Head(s).kind = "packet" /\ Line!PacketsThen(r, k))
  BY <1>4
<1>6. Line!AllAnswers(s, i, a, v) => Line!AllAnswers(r, i, a, v) /\ Line!Answers(Head(s), i, a, v)
  BY <1>1, <1>2 DEF Line!AllAnswers
<1>7. ASSUME Line!AckThenAnswers(s, i, a, v)
      PROVE  \/ Head(s).kind = "+" /\ Line!AllAnswers(r, i, a, v)
             \/ Head(s).kind = "packet" /\ Line!AckThenAnswers(r, i, a, v)
  <2>1. PICK k \in DOMAIN s : /\ s[k].kind = "+" /\ \A j \in 1 .. k - 1 : s[j].kind = "packet"
                              /\ \A j \in DOMAIN s : j > k => Line!Answers(s[j], i, a, v)
    BY <1>7 DEF Line!AckThenAnswers
  <2>2. CASE k = 1
    <3>1. ASSUME NEW j \in DOMAIN r PROVE Line!Answers(r[j], i, a, v)
      <4>1. j + 1 \in DOMAIN s /\ j + 1 > k /\ r[j] = s[j + 1]
        BY <1>1, <2>2
      <4>. QED
        BY <2>1, <4>1
    <3>. QED
      BY <1>1, <2>1, <2>2, <3>1 DEF Line!AllAnswers
  <2>3. CASE k # 1
    <3>1. k - 1 \in DOMAIN r /\ r[k - 1] = s[k] /\ Head(s).kind = "packet"
      BY <1>1, <2>1, <2>3
    <3>2. ASSUME NEW j \in 1 .. (k - 1) - 1 PROVE r[j].kind = "packet"
      <4>1. j + 1 \in 1 .. k - 1 /\ r[j] = s[j + 1]
        BY <1>1, <2>3
      <4>. QED
        BY <2>1, <4>1
    <3>3. ASSUME NEW j \in DOMAIN r, j > k - 1 PROVE Line!Answers(r[j], i, a, v)
      <4>1. j + 1 \in DOMAIN s /\ j + 1 > k /\ r[j] = s[j + 1]
        BY <1>1, <3>3
      <4>. QED
        BY <2>1, <4>1
    <3>. QED
      BY <2>1, <3>1, <3>2, <3>3 DEF Line!AckThenAnswers
  <2>. QED
    BY <2>2, <2>3
<1>. QED
  BY <1>1, <1>3, <1>5, <1>6, <1>7

\* After one more was sent.
LEMMA AnswersSent ==
  ASSUME NEW s \in Seq(T), NEW e \in T, NEW r, r = Append(s, e), NEW i, NEW a, NEW v
  PROVE  /\ r \in Seq(T)
         /\ Line!OnlyPackets(s) /\ e.kind = "packet" => Line!OnlyPackets(r)
         /\ Line!OnlyPackets(s) => Line!PacketsThen(r, e.kind)
         /\ Line!OnlyPackets(s) /\ e.kind = "+" => Line!AckThenAnswers(r, i, a, v)
         /\ Line!AllAnswers(s, i, a, v) /\ Line!Answers(e, i, a, v) => Line!AllAnswers(r, i, a, v)
         /\ Line!AckThenAnswers(s, i, a, v) /\ Line!Answers(e, i, a, v) => Line!AckThenAnswers(r, i, a, v)
<1>1. /\ r \in Seq(T) /\ Len(s) \in Nat /\ Len(r) = Len(s) + 1
      /\ DOMAIN s = 1 .. Len(s) /\ DOMAIN r = 1 .. Len(s) + 1
      /\ r[Len(s) + 1] = e /\ \A k \in 1 .. Len(s) : r[k] = s[k]
  BY AppendRight
<1>2. \A k \in DOMAIN r : k = Len(s) + 1 \/ (k \in DOMAIN s /\ r[k] = s[k])
  BY <1>1
<1>3. Line!OnlyPackets(s) /\ e.kind = "packet" => Line!OnlyPackets(r)
  BY <1>1, <1>2 DEF Line!OnlyPackets
<1>4. Line!OnlyPackets(s) => Line!PacketsThen(r, e.kind)
  BY <1>1 DEF Line!OnlyPackets, Line!PacketsThen
<1>5. Line!OnlyPackets(s) /\ e.kind = "+" => Line!AckThenAnswers(r, i, a, v)
  BY <1>1 DEF Line!OnlyPackets, Line!AckThenAnswers
<1>6. Line!AllAnswers(s, i, a, v) /\ Line!Answers(e, i, a, v) => Line!AllAnswers(r, i, a, v)
  BY <1>1, <1>2 DEF Line!AllAnswers
<1>7. ASSUME Line!AckThenAnswers(s, i, a, v), Line!Answers(e, i, a, v) PROVE Line!AckThenAnswers(r, i, a, v)
  <2>1. PICK k \in DOMAIN s : /\ s[k].kind = "+" /\ \A j \in 1 .. k - 1 : s[j].kind = "packet"
                              /\ \A j \in DOMAIN s : j > k => Line!Answers(s[j], i, a, v)
    BY <1>7 DEF Line!AckThenAnswers
  <2>2. k \in DOMAIN r /\ r[k].kind = "+"
    BY <1>1, <2>1
  <2>3. \A j \in 1 .. k - 1 : r[j].kind = "packet"
    BY <1>1, <2>1
  <2>4. \A j \in DOMAIN r : j > k => Line!Answers(r[j], i, a, v)
    BY <1>1, <1>2, <1>7, <2>1
  <2>. QED
    BY <2>2, <2>3, <2>4 DEF Line!AckThenAnswers
<1>. QED
  BY <1>1, <1>3, <1>4, <1>5, <1>6, <1>7

\* Where no request is, there is nothing to say of requests.
LEMMA NoRequest ==
  ASSUME NEW s, ~Line!HasPacket(s)
  PROVE  Line!AckBefore(s) /\ \A i, a : Line!OneRequest(s, i, a)
  BY DEF Line!HasPacket, Line!AckBefore, Line!OneRequest

\* Of empty streams.
LEMMA EmptyStreams ==
  \A i, a, v : /\ Line!OneRequest(<<>>, i, a) /\ ~Line!HasPacket(<<>>) /\ ~Line!HasEof(<<>>) /\ Line!OnlyPackets(<<>>)
               /\ Line!AllAnswers(<<>>, i, a, v) /\ <<>> \in Seq(T)
  BY DEF Line!HasPacket, Line!HasEof, Line!OneRequest, Line!OnlyPackets, Line!AllAnswers

-----------------------------------------------------------------------------
(* The server *)

\* The server reads a token and does no more than go on.
LEMMA ReadRight ==
  ASSUME Line!LineInv, toServer # <<>>, toServer' = Tail(toServer),
         UNCHANGED <<putting, cache, version, toClient, want, id, ask, chunks, taken, runs, used>>,
         \/ at = "get" /\ at' = "get" /\ Head(toServer).kind \in {"+", "-", "break"}
         \/ at = "run" /\ at' = "put" /\ Head(toServer).kind = "break"
         \/ at = "run" /\ at' = "run" /\ Head(toServer).kind \in {"+", "-", "packet"}
         \/ at = "ack" /\ at' = "get" /\ Head(toServer).kind = "+"
         \/ at = "ack" /\ at' = "put" /\ Head(toServer).kind \in {"-", "break", "packet"}
  PROVE  Line!LineInv'
<1>. DEFINE r == toServer'  k == Head(toServer).kind
<1>1. toServer \in Seq(T)
  BY DEF Line!LineInv, Line!Typed, T
<1>2. /\ Head(toServer) \in T /\ r \in Seq(T)
      /\ Line!OneRequest(toServer, id, ask) => Line!OneRequest(r, id, ask)
      /\ ~Line!HasPacket(toServer) => ~Line!HasPacket(r) /\ k # "packet"
      /\ Line!OneRequest(toServer, id, ask) /\ k = "packet"
           => ~Line!HasPacket(r) /\ Head(toServer).id = id /\ Head(toServer).ask = ask
      /\ Line!HasPacket(toServer) /\ k # "packet" => Line!HasPacket(r)
      /\ Line!AckBefore(toServer) /\ k # "+" => Line!AckBefore(r)
      /\ Line!AckBefore(toServer) => k # "packet"
      /\ Line!HasAck(toServer) /\ k # "+" => Line!HasAck(r)
      /\ ~Line!HasEof(toServer) => ~Line!HasEof(r) /\ k # "eof"
  BY <1>1, RequestsRead
<1>3. Line!Typed'
  BY <1>2 DEF Line!LineInv, Line!Typed, T
<1>4. ASSUME used.timeouts = 0 PROVE Line!Patient'
  <2>. HIDE DEF r, k
  <2>1. Line!Patient /\ want \in {"gone", "idle", "ack", "reply"}
    BY <1>4 DEF Line!LineInv, Line!Typed
  <2>2. ~Line!HasPacket(r) => Line!AckBefore(r)
    BY NoRequest
  <2>3. Line!Requested'
    BY <1>2, <2>1, <2>2 DEF Line!Patient, Line!Requested, Line!WhenIdle, Line!WhenSent, Line!Sent, Line!Refused,
                            Line!Carried, Line!WhenAcked, Line!Answering, r, k
  <2>4. Line!WhenIdle' /\ Line!WhenAcked' /\ Line!OneCopy'
    BY <1>2, <2>1 DEF Line!Patient, Line!WhenIdle, Line!WhenAcked, Line!Answering, Line!OneCopy, r, k
  <2>5. Line!WhenSent'
    BY <1>2, <2>1 DEF Line!Patient, Line!Requested, Line!WhenSent, Line!Sent, Line!Refused, Line!Carried,
                      Line!Answering, r, k
  <2>6. Line!Running'
    BY <2>1 DEF Line!Patient, Line!Running
  <2>. QED
    BY <2>1, <2>3, <2>4, <2>5, <2>6 DEF Line!Patient
<1>. QED
  BY <1>3, <1>4 DEF Line!LineInv

\* The server goes on without the streams.
LEMMA GoRight ==
  ASSUME Line!LineInv, UNCHANGED <<putting, cache, toServer, toClient, want, id, ask, chunks, taken, runs>>,
         version' \in Int, used' \in [timeouts : Nat, damage : Nat, breaks : Nat, sessions : Nat],
         used'.timeouts = 0 => used.timeouts = 0,
         \/ at' = at \/ at' \notin {"run", "put", "ack"}
         \/ at = "run" /\ at' = "put"
         \/ at = "put" /\ at' = "ack"
  PROVE  Line!LineInv'
<1>1. Line!Typed'
  BY DEF Line!LineInv, Line!Typed
<1>2. ASSUME used.timeouts = 0 PROVE Line!Patient'
  <2>1. Line!Patient /\ want \in {"gone", "idle", "ack", "reply"}
    BY <1>2 DEF Line!LineInv, Line!Typed
  <2>2. ~Line!HasPacket(toServer) => Line!AckBefore(toServer)
    BY NoRequest
  <2>3. Line!Requested'
    BY <2>1, <2>2 DEF Line!Patient, Line!Requested, Line!WhenIdle, Line!WhenSent, Line!Sent, Line!Refused,
                      Line!Carried, Line!WhenAcked, Line!Answering
  <2>4. Line!WhenIdle' /\ Line!WhenAcked' /\ Line!OneCopy'
    BY <2>1 DEF Line!Patient, Line!WhenIdle, Line!WhenAcked, Line!Answering, Line!OneCopy
  <2>5. Line!WhenSent'
    BY <2>1 DEF Line!Patient, Line!Requested, Line!WhenSent, Line!Sent, Line!Refused, Line!Carried, Line!Answering
  <2>6. Line!Running'
    BY <2>1 DEF Line!Patient, Line!Running
  <2>. QED
    BY <2>1, <2>3, <2>4, <2>5, <2>6 DEF Line!Patient
<1>. QED
  BY <1>1, <1>2 DEF Line!LineInv

\* A bound is used up.
LEMMA LineUse ==
  ASSUME Line!Typed, NEW k \in {"timeouts", "damage", "breaks", "sessions"}, Line!Use(k)
  PROVE  /\ used' \in [timeouts : Nat, damage : Nat, breaks : Nat, sessions : Nat]
         /\ k # "timeouts" => used'.timeouts = used.timeouts
         /\ k = "timeouts" => used'.timeouts # 0
<1>. DEFINE U == [timeouts : Nat, damage : Nat, breaks : Nat, sessions : Nat]
<1>1. used \in U /\ used' = [used EXCEPT ![k] = @ + 1]
  BY DEF Line!Typed, Line!Use
<1>2. used[k] \in Nat
  BY <1>1
<1>3. used' \in U /\ used'[k] = used[k] + 1 /\ \A j \in {"timeouts", "damage", "breaks", "sessions"} : j # k => used'[j] = used[j]
  BY <1>1, <1>2
<1>4. used.timeouts = used["timeouts"] /\ used'.timeouts = used'["timeouts"]
  OBVIOUS
<1>. QED
  BY <1>2, <1>3, <1>4

\* A client comes.
LEMMA AcceptRight == ASSUME Line!LineInv, Line!Accept PROVE Line!LineInv'
<1>1. /\ at' = "get" /\ want' = "idle" /\ toServer' = <<>> /\ toClient' = <<>> /\ id' = 0 /\ ask' = Line!Continue /\ chunks' = <<>>
      /\ taken' = [id |-> 0, wanted |-> 0] /\ runs' = 0 /\ putting' = putting /\ cache' = cache /\ version' = version
      /\ Line!Use("sessions")
  BY DEF Line!Accept
<1>2. used' \in [timeouts : Nat, damage : Nat, breaks : Nat, sessions : Nat]
  BY <1>1, LineUse DEF Line!LineInv
<1>3. Line!Typed'
  BY <1>1, <1>2, EmptyStreams DEF Line!LineInv, Line!Typed, Line!Continue, T
<1>4. Line!Patient'
  <2>1. Line!Requested'
    BY <1>1, EmptyStreams DEF Line!Requested
  <2>2. Line!WhenIdle' /\ Line!WhenSent' /\ Line!WhenAcked' /\ taken'.id = taken'.wanted
    BY <1>1, EmptyStreams DEF Line!WhenIdle, Line!WhenSent, Line!WhenAcked
  <2>3. Line!OneCopy' /\ Line!Running'
    BY <1>1 DEF Line!OneCopy, Line!Same, Line!AllAre, Line!Running
  <2>. QED
    BY <2>1, <2>2, <2>3 DEF Line!Patient
<1>. QED
  BY <1>3, <1>4 DEF Line!LineInv

\* A client has gone.
LEMMA GetEofRight == ASSUME Line!LineInv, Line!GetEof PROVE Line!LineInv'
<1>1. /\ at = "get" /\ toServer # <<>> /\ Head(toServer).kind = "eof" /\ toServer' = Tail(toServer) /\ at' = "connect"
      /\ toClient' = <<>>
      /\ UNCHANGED <<putting, cache, version, want, id, ask, chunks, taken, runs, used>>
  BY DEF Line!GetEof, Line!Incoming, Line!Read, Line!gdb
<1>2. toServer \in Seq(T)
  BY DEF Line!LineInv, Line!Typed, T
<1>3. /\ toServer' \in Seq(T)
      /\ Line!OneRequest(toServer, id, ask) => Line!OneRequest(toServer', id, ask)
      /\ ~Line!HasPacket(toServer) => ~Line!HasPacket(toServer')
      /\ ~Line!HasEof(toServer) => Head(toServer).kind # "eof"
  BY <1>1, <1>2, RequestsRead
<1>4. Line!Typed'
  BY <1>1, <1>3, EmptyStreams DEF Line!LineInv, Line!Typed, T
<1>5. ASSUME used.timeouts = 0 PROVE Line!Patient'
  <2>1. Line!Patient
    BY <1>5 DEF Line!LineInv
  <2>2. want = "gone"
    BY <1>1, <1>3, <2>1 DEF Line!Patient, Line!Requested
  <2>. QED
    BY <1>1, <1>3, <2>1, <2>2 DEF Line!Patient, Line!Requested, Line!WhenIdle, Line!WhenSent, Line!WhenAcked, Line!OneCopy, Line!Running
<1>. QED
  BY <1>1, <1>4, <1>5 DEF Line!LineInv

\* A damaged request is refused.
LEMMA GetDamagedRight == ASSUME Line!LineInv, Line!GetDamaged PROVE Line!LineInv'
<1>1. /\ at = "get" /\ toServer # <<>> /\ Head(toServer).kind = "packet" /\ toServer' = Tail(toServer)
      /\ toClient' = Append(toClient, Line!Nak)
      /\ UNCHANGED <<at, putting, cache, version, want, id, ask, chunks, taken, runs, used>>
  BY DEF Line!GetDamaged, Line!Incoming, Line!Read, Line!srv, Line!gdb
<1>2. toServer \in Seq(T) /\ toClient \in Seq(T)
  BY DEF Line!LineInv, Line!Typed, T
<1>3. /\ toServer' \in Seq(T)
      /\ Line!OneRequest(toServer, id, ask) => Line!OneRequest(toServer', id, ask) /\ ~Line!HasPacket(toServer')
      /\ ~Line!HasPacket(toServer) => Head(toServer).kind # "packet"
      /\ ~Line!HasEof(toServer) => ~Line!HasEof(toServer')
  BY <1>1, <1>2, RequestsRead
<1>4. toClient' \in Seq(T) /\ (Line!OnlyPackets(toClient) => Line!PacketsThen(toClient', "-"))
  BY <1>1, <1>2, AnswersSent, TokensRight
<1>5. Line!Typed'
  BY <1>1, <1>3, <1>4 DEF Line!LineInv, Line!Typed, T
<1>6. ASSUME used.timeouts = 0 PROVE Line!Patient'
  <2>1. Line!Patient
    BY <1>6 DEF Line!LineInv
  <2>2. want \notin {"idle", "reply"} /\ (want = "ack" => Line!Sent)
    BY <1>1, <1>3, <2>1 DEF Line!Patient, Line!WhenIdle, Line!WhenAcked, Line!WhenSent, Line!Refused, Line!Carried, Line!Answering
  <2>3. Line!WhenSent'
    BY <1>1, <1>3, <1>4, <2>1, <2>2 DEF Line!Patient, Line!Requested, Line!WhenSent, Line!Sent, Line!Refused
  <2>. QED
    BY <1>1, <1>3, <2>1, <2>2, <2>3 DEF Line!Patient, Line!Requested, Line!WhenIdle, Line!WhenAcked, Line!OneCopy, Line!Running
<1>. QED
  BY <1>1, <1>5, <1>6 DEF Line!LineInv

\* A request is carried out: "continue", or a part of the object.
LEMMA GetPktRight ==
  ASSUME Line!LineInv, Line!GetPkt, at' \in {"run", "put"}, cache' \in Int, putting' \in T,
         putting'.kind = "packet" /\ putting'.id = Head(toServer).id,
         \/ Head(toServer).ask = Line!Continue /\ cache' = cache
         \/ Head(toServer).ask # Line!Continue /\ putting'.ver = cache' /\ (Head(toServer).ask # 0 => cache' = cache),
         UNCHANGED <<version, want, id, ask, chunks, taken, used>>
  PROVE  Line!LineInv'
<1>1. /\ at = "get" /\ toServer # <<>> /\ Head(toServer).kind = "packet" /\ toServer' = Tail(toServer)
      /\ toClient' = Append(toClient, Line!Ack) /\ runs' = IF Head(toServer).id = id THEN runs + 1 ELSE runs
  BY DEF Line!GetPkt, Line!Incoming, Line!Read
<1>2. toServer \in Seq(T) /\ toClient \in Seq(T)
  BY DEF Line!LineInv, Line!Typed, T
<1>3. /\ toServer' \in Seq(T)
      /\ Line!OneRequest(toServer, id, ask) => /\ Line!OneRequest(toServer', id, ask) /\ ~Line!HasPacket(toServer')
                                               /\ Head(toServer).id = id /\ Head(toServer).ask = ask
      /\ ~Line!HasPacket(toServer) => Head(toServer).kind # "packet"
      /\ ~Line!HasEof(toServer) => ~Line!HasEof(toServer')
  BY <1>1, <1>2, RequestsRead
<1>4. /\ toClient' \in Seq(T)
      /\ Line!OnlyPackets(toClient) => Line!AckThenAnswers(toClient', id, ask, cache') /\ Line!PacketsThen(toClient', "+")
  BY <1>1, <1>2, AnswersSent, TokensRight
<1>5. Line!Typed'
  BY <1>1, <1>3, <1>4 DEF Line!LineInv, Line!Typed, T
<1>6. ASSUME used.timeouts = 0 PROVE Line!Patient'
  <2>1. Line!Patient
    BY <1>6 DEF Line!LineInv
  <2>2. /\ want \notin {"idle", "reply"} /\ (want = "ack" => Line!Sent) /\ runs = 0
        /\ ~Line!HasPacket(toServer') /\ Head(toServer).id = id /\ Head(toServer).ask = ask
    BY <1>1, <1>3, <2>1 DEF Line!Patient, Line!Requested, Line!WhenIdle, Line!WhenAcked, Line!WhenSent, Line!Refused,
                            Line!Carried, Line!Answering
  <2>3. runs' = 1
    BY <1>1, <2>2
  <2>4. Line!AckBefore(toServer')
    BY <2>2, NoRequest
  <2>5. Line!Answers(putting', id, ask, cache')
    BY <2>2 DEF Line!Answers
  <2>6. Line!Requested'
    BY <1>1, <1>3, <2>1, <2>2, <2>3, <2>4 DEF Line!Patient, Line!Requested
  <2>7. Line!WhenSent'
    BY <1>4, <2>2, <2>3, <2>5 DEF Line!WhenSent, Line!Sent, Line!Carried, Line!Answering
  <2>8. Line!OneCopy'
    <3>1. Line!Same(chunks) /\ (want = "gone" \/ Line!AllAre(chunks, cache)) /\ want \in {"gone", "ack"}
      BY <2>1, <2>2 DEF Line!Patient, Line!OneCopy, Line!LineInv, Line!Typed
    <3>2. CASE ask = 0
      BY <2>2, <2>3, <3>1, <3>2 DEF Line!OneCopy
    <3>3. CASE ask # 0
      <4>1. cache' = cache
        BY <2>2, <3>3
      <4>. QED
        BY <3>1, <4>1 DEF Line!OneCopy
    <3>. QED
      BY <3>2, <3>3
  <2>9. Line!Running'
    BY <1>4, <2>2 DEF Line!Running, Line!Sent
  <2>. QED
    BY <2>1, <2>2, <2>6, <2>7, <2>8, <2>9 DEF Line!Patient, Line!WhenIdle, Line!WhenAcked
<1>. QED
  BY <1>5, <1>6 DEF Line!LineInv

\* The two requests.
LEMMA CarryOutRight == ASSUME Line!LineInv, Line!GetContinue \/ Line!rspTransferObject PROVE Line!LineInv'
<1>1. toServer # <<>> /\ toServer \in Seq(T) /\ Line!GetPkt /\ Head(toServer).kind = "packet"
  BY DEF Line!LineInv, Line!Typed, T, Line!GetContinue, Line!rspTransferObject, Line!GetPkt, Line!Incoming
<1>2. Head(toServer) \in T /\ Head(toServer).id \in Int /\ Head(toServer).ask \in Int
  <2>1. Head(toServer) \in T
    BY <1>1, RequestsRead
  <2>. QED
    BY <2>1 DEF T, Line!Tokens
<1>3. cache \in Int /\ version \in Int
  BY DEF Line!LineInv, Line!Typed
<1>4. CASE Line!GetContinue
  <2>1. /\ Head(toServer).ask = Line!Continue /\ at' = "run" /\ putting' = Head(toServer) /\ cache' = cache
        /\ UNCHANGED <<version, want, id, ask, chunks, taken, used>>
    BY <1>4 DEF Line!GetContinue, Line!gdb
  <2>. QED
    BY <1>1, <1>2, <1>3, <2>1, GetPktRight
<1>5. CASE Line!rspTransferObject
  <2>1. /\ Head(toServer).ask # Line!Continue /\ at' = "put" /\ cache' = Line!Object(Head(toServer).ask)
        /\ putting' = Line!Packet(Head(toServer).id, Head(toServer).ask, cache')
        /\ UNCHANGED <<version, want, id, ask, chunks, taken, used>>
    BY <1>5 DEF Line!rspTransferObject, Line!gdb
  <2>2. cache' \in Int /\ (Head(toServer).ask # 0 => cache' = cache)
    BY <1>3, <2>1 DEF Line!Object
  <2>3. putting' \in T /\ putting'.kind = "packet" /\ putting'.id = Head(toServer).id /\ putting'.ver = cache'
    BY <1>2, <2>1, <2>2, PacketRight
  <2>. QED
    BY <1>1, <2>1, <2>2, <2>3, GetPktRight
<1>. QED
  BY <1>4, <1>5

\* The reply is sent.
LEMMA PutRight == ASSUME Line!LineInv, Line!PutPkt PROVE Line!LineInv'
<1>1. /\ at = "put" /\ at' = "ack" /\ toClient' = IF want = "gone" THEN toClient ELSE Append(toClient, putting)
      /\ UNCHANGED <<putting, cache, version, toServer, want, id, ask, chunks, taken, runs, used>>
  BY DEF Line!PutPkt, Line!gdb
<1>2. CASE want = "gone"
  BY <1>1, <1>2, GoRight DEF Line!LineInv, Line!Typed
<1>3. CASE want # "gone"
  <2>1. toClient \in Seq(T) /\ putting \in T
    BY DEF Line!LineInv, Line!Typed, T
  <2>2. /\ toClient' \in Seq(T)
        /\ Line!OnlyPackets(toClient) /\ putting.kind = "packet" => Line!OnlyPackets(toClient')
        /\ Line!AllAnswers(toClient, id, ask, cache) /\ Line!Answers(putting, id, ask, cache)
             => Line!AllAnswers(toClient', id, ask, cache)
        /\ Line!AckThenAnswers(toClient, id, ask, cache) /\ Line!Answers(putting, id, ask, cache)
             => Line!AckThenAnswers(toClient', id, ask, cache)
    BY <1>1, <1>3, <2>1, AnswersSent
  <2>3. Line!Typed'
    BY <1>1, <2>2 DEF Line!LineInv, Line!Typed, T
  <2>4. ASSUME used.timeouts = 0 PROVE Line!Patient'
    <3>1. Line!Patient /\ putting.kind = "packet"
      BY <2>4 DEF Line!LineInv, Line!Typed
    <3>2. Line!Requested' /\ Line!OneCopy' /\ Line!Running'
      BY <1>1, <3>1 DEF Line!Patient, Line!Requested, Line!OneCopy, Line!Running
    <3>3. Line!WhenIdle' /\ Line!WhenAcked'
      BY <1>1, <2>2, <3>1 DEF Line!Patient, Line!WhenIdle, Line!WhenAcked, Line!Answering
    <3>4. Line!WhenSent'
      BY <1>1, <2>2, <3>1 DEF Line!Patient, Line!WhenSent, Line!Sent, Line!Refused, Line!Carried, Line!Answering
    <3>. QED
      BY <1>1, <3>1, <3>2, <3>3, <3>4 DEF Line!Patient
  <2>. QED
    BY <1>1, <2>3, <2>4 DEF Line!LineInv
<1>. QED
  BY <1>2, <1>3

-----------------------------------------------------------------------------
(* The client *)

\* The client reads a token, without an answer or with a token of its own.
LEMMA ClientReads ==
  ASSUME Line!LineInv, toClient # <<>>, toClient' = Tail(toClient), want' = want,
         \/ toServer' = toServer
         \/ \E e \in {Line!Ack, Line!Nak} : toServer' = Append(toServer, e),
         UNCHANGED <<at, putting, cache, version, id, ask, chunks, taken, runs, used>>,
         \/ want = "ack" /\ Head(toClient).kind = "packet"
         \/ want = "reply"
  PROVE  Line!LineInv'
<1>1. toServer \in Seq(T) /\ toClient \in Seq(T)
  BY DEF Line!LineInv, Line!Typed, T
<1>2. /\ toServer' \in Seq(T)
      /\ Line!OneRequest(toServer, id, ask) => Line!OneRequest(toServer', id, ask)
      /\ Line!HasPacket(toServer') <=> Line!HasPacket(toServer)
      /\ Line!AckBefore(toServer) => Line!AckBefore(toServer')
      /\ Line!HasEof(toServer') <=> Line!HasEof(toServer)
  <2>1. CASE toServer' = toServer
    BY <1>1, <2>1
  <2>2. ASSUME NEW e \in {Line!Ack, Line!Nak}, toServer' = Append(toServer, e)
        PROVE  <1>2!:
    <3>1. e \in T /\ e.kind \in {"+", "-"}
      BY TokensRight
    <3>2. /\ toServer' \in Seq(T)
          /\ Line!OneRequest(toServer, id, ask) /\ e.kind # "packet" => Line!OneRequest(toServer', id, ask)
          /\ Line!HasPacket(toServer') <=> Line!HasPacket(toServer) \/ e.kind = "packet"
          /\ Line!AckBefore(toServer) /\ (e.kind = "packet" => Line!HasAck(toServer)) => Line!AckBefore(toServer')
          /\ Line!HasEof(toServer') <=> Line!HasEof(toServer) \/ e.kind = "eof"
      BY <1>1, <2>2, <3>1, RequestsSent
    <3>. QED
      BY <3>1, <3>2
  <2>. QED
    BY <2>1, <2>2
<1>3. /\ Head(toClient) \in T /\ toClient' \in Seq(T)
      /\ Line!OnlyPackets(toClient) => Line!OnlyPackets(toClient') /\ Head(toClient).kind = "packet"
      /\ \A k : Line!PacketsThen(toClient, k) =>
           (Head(toClient).kind = k /\ toClient' = <<>>) \/ (Head(toClient).kind = "packet" /\ Line!PacketsThen(toClient', k))
      /\ Line!AllAnswers(toClient, id, ask, cache) =>
           Line!AllAnswers(toClient', id, ask, cache) /\ Line!Answers(Head(toClient), id, ask, cache)
      /\ Line!AckThenAnswers(toClient, id, ask, cache) =>
           (Head(toClient).kind = "+" /\ Line!AllAnswers(toClient', id, ask, cache))
             \/ (Head(toClient).kind = "packet" /\ Line!AckThenAnswers(toClient', id, ask, cache))
  BY <1>1, AnswersRead
<1>4. Line!Typed'
  BY <1>2, <1>3 DEF Line!LineInv, Line!Typed, T
<1>5. ASSUME used.timeouts = 0 PROVE Line!Patient'
  <2>1. Line!Patient
    BY <1>5 DEF Line!LineInv
  <2>2. Line!Requested' /\ Line!OneCopy'
    BY <1>2, <2>1 DEF Line!Patient, Line!Requested, Line!OneCopy
  <2>3. Line!WhenIdle' /\ Line!WhenAcked'
    BY <1>2, <1>3, <2>1 DEF Line!Patient, Line!WhenIdle, Line!WhenAcked, Line!Answering
  <2>4. Line!Running'
    BY <1>3, <2>1 DEF Line!Patient, Line!Running
  <2>5. Line!WhenSent'
    BY <1>2, <1>3, <2>1 DEF Line!Patient, Line!WhenSent, Line!Sent, Line!Refused, Line!Carried, Line!Answering
  <2>. QED
    BY <2>1, <2>2, <2>3, <2>4, <2>5 DEF Line!Patient
<1>. QED
  BY <1>4, <1>5 DEF Line!LineInv

\* The request was received.
LEMMA TakeAckRight == ASSUME Line!LineInv, Line!TakeAck PROVE Line!LineInv'
<1>1. /\ want = "ack" /\ want' = "reply" /\ toClient # <<>> /\ Head(toClient).kind = "+" /\ toClient' = Tail(toClient)
      /\ UNCHANGED <<at, putting, cache, version, toServer, id, ask, chunks, taken, runs, used>>
  BY DEF Line!TakeAck, Line!Reads, Line!srv
<1>2. toClient \in Seq(T)
  BY DEF Line!LineInv, Line!Typed, T
<1>3. /\ Head(toClient) \in T /\ toClient' \in Seq(T)
      /\ Line!OnlyPackets(toClient) => Head(toClient).kind = "packet"
      /\ \A k : Line!PacketsThen(toClient, k) =>
           (Head(toClient).kind = k /\ toClient' = <<>>) \/ (Head(toClient).kind = "packet" /\ Line!PacketsThen(toClient', k))
      /\ Line!AckThenAnswers(toClient, id, ask, cache) =>
           (Head(toClient).kind = "+" /\ Line!AllAnswers(toClient', id, ask, cache))
             \/ (Head(toClient).kind = "packet" /\ Line!AckThenAnswers(toClient', id, ask, cache))
  BY <1>1, <1>2, AnswersRead
<1>4. Line!Typed'
  BY <1>1, <1>3 DEF Line!LineInv, Line!Typed, T
<1>5. ASSUME used.timeouts = 0 PROVE Line!Patient'
  <2>1. Line!Patient
    BY <1>5 DEF Line!LineInv
  <2>2. ~Line!OnlyPackets(toClient) /\ ~Line!PacketsThen(toClient, "-")
    BY <1>1, <1>3
  <2>3. Line!Carried
    BY <1>1, <2>1, <2>2 DEF Line!Patient, Line!WhenSent, Line!Sent, Line!Refused
  <2>4. Line!Requested' /\ Line!OneCopy' /\ Line!WhenIdle' /\ Line!WhenSent'
    BY <1>1, <2>1 DEF Line!Patient, Line!Requested, Line!OneCopy, Line!WhenIdle, Line!WhenSent
  <2>5. Line!WhenAcked'
    BY <1>1, <1>3, <2>3 DEF Line!Carried, Line!WhenAcked, Line!Answering
  <2>6. Line!Running'
    BY <1>1, <1>3, <2>1 DEF Line!Patient, Line!Running
  <2>. QED
    BY <1>1, <2>1, <2>4, <2>5, <2>6 DEF Line!Patient
<1>. QED
  BY <1>1, <1>4, <1>5 DEF Line!LineInv

\* A refused request is sent again.
LEMMA TakeNakRight == ASSUME Line!LineInv, Line!TakeNak PROVE Line!LineInv'
<1>1. /\ want = "ack" /\ toClient # <<>> /\ Head(toClient).kind = "-" /\ toClient' = Tail(toClient)
      /\ toServer' = Append(toServer, Line!Request)
      /\ UNCHANGED <<at, putting, cache, version, want, id, ask, chunks, taken, runs, used>>
  BY DEF Line!TakeNak, Line!Reads, Line!srv, Line!gdb, Line!Say
<1>2. toServer \in Seq(T) /\ toClient \in Seq(T) /\ id \in Int /\ ask \in Int
  BY DEF Line!LineInv, Line!Typed, T
<1>3. Line!Request \in T /\ Line!Request.kind = "packet" /\ Line!Request.id = id /\ Line!Request.ask = ask
  <2>1. Line!Request = Line!Packet(id, ask, 0) /\ 0 \in Int
    BY DEF Line!Request, Line!Packet
  <2>. QED
    BY <1>2, <2>1, PacketRight
<1>4. /\ toServer' \in Seq(T)
      /\ ~Line!HasPacket(toServer) => Line!OneRequest(toServer', id, ask)
      /\ Line!HasPacket(toServer')
      /\ Line!HasEof(toServer') <=> Line!HasEof(toServer)
  <2>. HIDE DEF T
  <2>1. LET e == Line!Request
        IN  /\ toServer' \in Seq(T)
            /\ ~Line!HasPacket(toServer) /\ e.kind = "packet" /\ e.id = id /\ e.ask = ask => Line!OneRequest(toServer', id, ask)
            /\ Line!HasPacket(toServer') <=> Line!HasPacket(toServer) \/ e.kind = "packet"
            /\ Line!HasEof(toServer') <=> Line!HasEof(toServer) \/ e.kind = "eof"
    BY <1>1, <1>2, <1>3, RequestsSent
  <2>. QED
    BY <1>3, <2>1
<1>5. /\ Head(toClient) \in T /\ toClient' \in Seq(T)
      /\ Line!OnlyPackets(toClient) => Head(toClient).kind = "packet"
      /\ \A k : Line!PacketsThen(toClient, k) =>
           (Head(toClient).kind = k /\ toClient' = <<>>) \/ (Head(toClient).kind = "packet" /\ Line!PacketsThen(toClient', k))
      /\ Line!AckThenAnswers(toClient, id, ask, cache) => Head(toClient).kind \in {"+", "packet"}
  BY <1>1, <1>2, AnswersRead
<1>6. Line!Typed'
  BY <1>1, <1>4, <1>5 DEF Line!LineInv, Line!Typed, T
<1>7. ASSUME used.timeouts = 0 PROVE Line!Patient'
  <2>1. Line!Patient
    BY <1>7 DEF Line!LineInv
  <2>2. Line!Refused
    BY <1>1, <1>5, <2>1 DEF Line!Patient, Line!WhenSent, Line!Sent, Line!Carried
  <2>3. toClient' = <<>> /\ Line!OnlyPackets(toClient')
    BY <1>1, <1>5, <2>2, EmptyStreams DEF Line!Refused
  <2>4. Line!Requested' /\ Line!OneCopy' /\ Line!WhenIdle' /\ Line!WhenAcked' /\ Line!Running'
    BY <1>1, <1>4, <2>1, <2>2
    DEF Line!Patient, Line!Requested, Line!OneCopy, Line!WhenIdle, Line!WhenAcked, Line!Refused, Line!Running
  <2>5. Line!WhenSent'
    BY <1>1, <1>4, <2>2, <2>3 DEF Line!WhenSent, Line!Sent, Line!Refused
  <2>. QED
    BY <1>1, <2>1, <2>4, <2>5 DEF Line!Patient
<1>. QED
  BY <1>1, <1>6, <1>7 DEF Line!LineInv

\* The reply is taken.
LEMMA TakeReplyRight == ASSUME Line!LineInv, Line!TakeReply PROVE Line!LineInv'
<1>1. /\ want = "reply" /\ want' = "idle" /\ toClient # <<>> /\ Head(toClient).kind = "packet" /\ toClient' = Tail(toClient)
      /\ toServer' = Append(toServer, Line!Ack) /\ taken' = [id |-> Head(toClient).id, wanted |-> id]
      /\ chunks' = IF ask = Line!Continue THEN chunks
                   ELSE IF ask = 0 THEN <<Head(toClient).ver>> ELSE Append(chunks, Head(toClient).ver)
      /\ UNCHANGED <<at, putting, cache, version, id, ask, runs, used>>
  BY DEF Line!TakeReply, Line!Reads, Line!srv, Line!Say
<1>2. toServer \in Seq(T) /\ toClient \in Seq(T) /\ chunks \in Seq(Int)
  BY DEF Line!LineInv, Line!Typed, T
<1>3. /\ toServer' \in Seq(T)
      /\ Line!OneRequest(toServer, id, ask) => Line!OneRequest(toServer', id, ask)
      /\ Line!HasPacket(toServer') <=> Line!HasPacket(toServer)
      /\ Line!AckBefore(toServer) => Line!AckBefore(toServer')
      /\ Line!HasAck(toServer')
      /\ Line!HasEof(toServer') <=> Line!HasEof(toServer)
  <2>1. LET e == Line!Ack
        IN  /\ toServer' \in Seq(T)
            /\ Line!OneRequest(toServer, id, ask) /\ e.kind # "packet" => Line!OneRequest(toServer', id, ask)
            /\ Line!HasPacket(toServer') <=> Line!HasPacket(toServer) \/ e.kind = "packet"
            /\ Line!AckBefore(toServer) /\ (e.kind = "packet" => Line!HasAck(toServer)) => Line!AckBefore(toServer')
            /\ Line!HasAck(toServer') <=> Line!HasAck(toServer) \/ e.kind = "+"
            /\ Line!HasEof(toServer') <=> Line!HasEof(toServer) \/ e.kind = "eof"
    BY <1>1, <1>2, TokensRight, RequestsSent
  <2>. QED
    BY <2>1, TokensRight
<1>4. /\ Head(toClient) \in T /\ toClient' \in Seq(T)
      /\ Line!AllAnswers(toClient, id, ask, cache) =>
           Line!AllAnswers(toClient', id, ask, cache) /\ Line!Answers(Head(toClient), id, ask, cache)
  BY <1>1, <1>2, AnswersRead
<1>5. Head(toClient).ver \in Int
  BY <1>4 DEF T, Line!Tokens
<1>6. chunks' \in Seq(Int)
  BY <1>1, <1>2, <1>5
<1>7. Line!Typed'
  BY <1>1, <1>3, <1>4, <1>6 DEF Line!LineInv, Line!Typed, T
<1>8. ASSUME used.timeouts = 0 PROVE Line!Patient'
  <2>1. Line!Patient
    BY <1>8 DEF Line!LineInv
  <2>2. /\ Line!Answering /\ Line!AllAnswers(toClient', id, ask, cache) /\ Head(toClient).id = id
        /\ ask # Line!Continue => Head(toClient).ver = cache
    BY <1>1, <1>4, <2>1 DEF Line!Patient, Line!WhenAcked, Line!Answers
  <2>3. at # "run" /\ taken'.id = taken'.wanted
    BY <1>1, <2>1, <2>2 DEF Line!Patient, Line!Running
  <2>4. Line!Requested' /\ Line!WhenSent' /\ Line!WhenAcked' /\ Line!Running'
    BY <1>1, <1>3, <2>1, <2>3 DEF Line!Patient, Line!Requested, Line!WhenSent, Line!WhenAcked, Line!Running
  <2>5. Line!WhenIdle'
    <3>1. Line!OnlyPackets(toClient')
      BY <2>2 DEF Line!AllAnswers, Line!OnlyPackets, Line!Answers
    <3>. QED
      BY <1>1, <1>3, <2>2, <2>3, <3>1 DEF Line!WhenIdle, Line!Answering
  <2>6. Line!Same(chunks) /\ (ask = 0 \/ Line!AllAre(chunks, cache))
    BY <1>1, <2>1 DEF Line!Patient, Line!OneCopy
  <2>7. Line!AllAre(chunks', cache) \/ (ask = Line!Continue /\ chunks' = chunks)
    <3>1. CASE ask = 0
      BY <1>1, <2>2, <3>1 DEF Line!AllAre, Line!Continue
    <3>2. CASE ask = Line!Continue
      BY <1>1, <3>2
    <3>3. CASE ask # 0 /\ ask # Line!Continue
      <4>. DEFINE r == chunks'
      <4>1. /\ Len(chunks) \in Nat /\ DOMAIN chunks = 1 .. Len(chunks) /\ DOMAIN r = 1 .. Len(chunks) + 1
            /\ r[Len(chunks) + 1] = Head(toClient).ver /\ \A i \in 1 .. Len(chunks) : r[i] = chunks[i]
        BY <1>1, <1>2, <1>5, <3>3, AppendRight
      <4>2. Line!AllAre(chunks, cache) /\ Head(toClient).ver = cache
        BY <2>2, <2>6, <3>3
      <4>3. \A i \in DOMAIN r : i = Len(chunks) + 1 \/ i \in DOMAIN chunks
        BY <4>1
      <4>. QED
        BY <4>1, <4>2, <4>3 DEF Line!AllAre
    <3>. QED
      BY <3>1, <3>2, <3>3
  <2>8. Line!OneCopy'
    <3>1. CASE Line!AllAre(chunks', cache)
      BY <1>1, <3>1 DEF Line!OneCopy, Line!Same, Line!AllAre
    <3>2. CASE ask = Line!Continue /\ chunks' = chunks
      <4>1. Line!AllAre(chunks, cache)
        BY <2>6, <3>2 DEF Line!Continue
      <4>. QED
        BY <1>1, <2>6, <3>2, <4>1 DEF Line!OneCopy
    <3>. QED
      BY <2>7, <3>1, <3>2
  <2>. QED
    BY <2>3, <2>4, <2>5, <2>8 DEF Line!Patient
<1>. QED
  BY <1>1, <1>7, <1>8 DEF Line!LineInv

\* A new request.
LEMMA SendRight == ASSUME Line!LineInv, NEW a \in Int, Line!Send(a) PROVE Line!LineInv'
<1>1. /\ want = "idle" /\ want' = "ack" /\ id' = id + 1 /\ ask' = a /\ runs' = 0
      /\ toServer' = Append(toServer, Line!Packet(id + 1, a, 0))
      /\ UNCHANGED <<at, putting, cache, version, toClient, chunks, taken, used>>
  BY DEF Line!Send, Line!srv, Line!Say
<1>2. toServer \in Seq(T) /\ toClient \in Seq(T) /\ id \in Int
  BY DEF Line!LineInv, Line!Typed, T
<1>. DEFINE e == Line!Packet(id + 1, a, 0)
<1>3. id + 1 \in Int /\ 0 \in Int
  BY <1>2
<1>4. e \in T /\ e.kind = "packet" /\ e.id = id + 1 /\ e.ask = a
  BY <1>3, PacketRight
<1>. HIDE DEF e
<1>5. /\ toServer' \in Seq(T)
      /\ ~Line!HasPacket(toServer) => Line!OneRequest(toServer', id + 1, a)
      /\ Line!HasPacket(toServer')
      /\ Line!AckBefore(toServer) /\ Line!HasAck(toServer) => Line!AckBefore(toServer')
      /\ Line!HasEof(toServer') <=> Line!HasEof(toServer)
  <2>1. toServer' = Append(toServer, e)
    BY <1>1 DEF e
  <2>2. /\ toServer' \in Seq(T)
        /\ ~Line!HasPacket(toServer) /\ e.kind = "packet" /\ e.id = id + 1 /\ e.ask = a => Line!OneRequest(toServer', id + 1, a)
        /\ Line!HasPacket(toServer') <=> Line!HasPacket(toServer) \/ e.kind = "packet"
        /\ Line!AckBefore(toServer) /\ (e.kind = "packet" => Line!HasAck(toServer)) => Line!AckBefore(toServer')
        /\ Line!HasEof(toServer') <=> Line!HasEof(toServer) \/ e.kind = "eof"
    BY <1>2, <1>4, <2>1, RequestsSent
  <2>. QED
    BY <1>4, <2>2
<1>6. Line!Typed'
  BY <1>1, <1>3, <1>5 DEF Line!LineInv, Line!Typed, T
<1>7. ASSUME used.timeouts = 0 PROVE Line!Patient'
  <2>1. Line!Patient
    BY <1>7 DEF Line!LineInv
  <2>2. /\ ~Line!HasPacket(toServer) /\ Line!OnlyPackets(toClient) /\ at # "run"
        /\ at \in {"put", "ack"} => Line!HasAck(toServer)
        /\ Line!AckBefore(toServer)
    BY <1>1, <2>1, NoRequest DEF Line!Patient, Line!WhenIdle
  <2>3. Line!Requested'
    BY <1>1, <1>5, <2>1, <2>2 DEF Line!Patient, Line!Requested
  <2>4. Line!WhenIdle' /\ Line!WhenAcked' /\ Line!Running' /\ Line!OneCopy'
    BY <1>1, <2>1, <2>2 DEF Line!Patient, Line!WhenIdle, Line!WhenAcked, Line!Running, Line!OneCopy
  <2>5. Line!WhenSent'
    BY <1>1, <1>5, <2>2 DEF Line!WhenSent, Line!Sent
  <2>. QED
    BY <1>1, <2>1, <2>3, <2>4, <2>5 DEF Line!Patient
<1>. QED
  BY <1>1, <1>6, <1>7 DEF Line!LineInv

\* The client presses ctrl-C.
LEMMA PressRight == ASSUME Line!LineInv, Line!PressCtrlC PROVE Line!LineInv'
<1>1. /\ want = "reply" /\ toServer' = Append(toServer, Line!Break) /\ Line!Use("breaks")
      /\ UNCHANGED <<at, putting, cache, version, toClient, want, id, ask, chunks, taken, runs>>
  BY DEF Line!PressCtrlC, Line!srv, Line!gdb, Line!Say
<1>2. toServer \in Seq(T)
  BY DEF Line!LineInv, Line!Typed, T
<1>3. /\ toServer' \in Seq(T)
      /\ Line!OneRequest(toServer, id, ask) => Line!OneRequest(toServer', id, ask)
      /\ Line!HasPacket(toServer') <=> Line!HasPacket(toServer)
      /\ Line!AckBefore(toServer) => Line!AckBefore(toServer')
      /\ Line!HasEof(toServer') <=> Line!HasEof(toServer)
  <2>1. LET e == Line!Break
        IN  /\ toServer' \in Seq(T)
            /\ Line!OneRequest(toServer, id, ask) /\ e.kind # "packet" => Line!OneRequest(toServer', id, ask)
            /\ Line!HasPacket(toServer') <=> Line!HasPacket(toServer) \/ e.kind = "packet"
            /\ Line!AckBefore(toServer) /\ (e.kind = "packet" => Line!HasAck(toServer)) => Line!AckBefore(toServer')
            /\ Line!HasEof(toServer') <=> Line!HasEof(toServer) \/ e.kind = "eof"
    BY <1>1, <1>2, TokensRight, RequestsSent
  <2>. QED
    BY <2>1, TokensRight
<1>4. used' \in [timeouts : Nat, damage : Nat, breaks : Nat, sessions : Nat] /\ used'.timeouts = used.timeouts
  BY <1>1, LineUse DEF Line!LineInv
<1>5. Line!Typed'
  BY <1>1, <1>3, <1>4 DEF Line!LineInv, Line!Typed, T
<1>6. ASSUME used.timeouts = 0 PROVE Line!Patient'
  BY <1>1, <1>3, <1>6 DEF Line!LineInv, Line!Patient, Line!Requested, Line!WhenIdle, Line!WhenSent, Line!WhenAcked,
                          Line!Running, Line!OneCopy, Line!Answering
<1>. QED
  BY <1>4, <1>5, <1>6 DEF Line!LineInv

\* The client goes away.
LEMMA LeaveRight == ASSUME Line!LineInv, Line!Leave PROVE Line!LineInv'
<1>1. /\ want' = "gone" /\ toServer' = Append(toServer, Line!Eof) /\ toClient' = <<>>
      /\ UNCHANGED <<at, putting, cache, version, id, ask, chunks, taken, runs, used>>
  BY DEF Line!Leave, Line!srv, Line!Say
<1>2. toServer \in Seq(T)
  BY DEF Line!LineInv, Line!Typed, T
<1>3. /\ toServer' \in Seq(T)
      /\ Line!OneRequest(toServer, id, ask) => Line!OneRequest(toServer', id, ask)
      /\ Line!HasPacket(toServer') <=> Line!HasPacket(toServer)
  <2>1. LET e == Line!Eof
        IN  /\ toServer' \in Seq(T)
            /\ Line!OneRequest(toServer, id, ask) /\ e.kind # "packet" => Line!OneRequest(toServer', id, ask)
            /\ Line!HasPacket(toServer') <=> Line!HasPacket(toServer) \/ e.kind = "packet"
    BY <1>1, <1>2, TokensRight, RequestsSent
  <2>. QED
    BY <2>1, TokensRight
<1>4. Line!Typed'
  BY <1>1, <1>3, EmptyStreams DEF Line!LineInv, Line!Typed, T
<1>5. ASSUME used.timeouts = 0 PROVE Line!Patient'
  BY <1>1, <1>3, <1>5 DEF Line!LineInv, Line!Patient, Line!Requested, Line!WhenIdle, Line!WhenSent, Line!WhenAcked,
                          Line!Running, Line!OneCopy
<1>. QED
  BY <1>1, <1>4, <1>5 DEF Line!LineInv

\* The client loses patience: nothing more is said.
LEMMA TimeoutRight == ASSUME Line!LineInv, Line!Timeout PROVE Line!LineInv'
<1>1. /\ Line!Use("timeouts") /\ \E e \in {Line!Request, Line!Nak} : toServer' = Append(toServer, e)
      /\ UNCHANGED <<at, putting, cache, version, toClient, want, id, ask, chunks, taken, runs>>
  BY DEF Line!Timeout, Line!srv, Line!gdb, Line!Say
<1>2. toServer \in Seq(T) /\ id \in Int /\ ask \in Int
  BY DEF Line!LineInv, Line!Typed, T
<1>3. Line!Request \in T
  <2>1. Line!Request = Line!Packet(id, ask, 0) /\ 0 \in Int
    BY DEF Line!Request, Line!Packet
  <2>. QED
    BY <1>2, <2>1, PacketRight
<1>4. toServer' \in Seq(T)
  BY <1>1, <1>2, <1>3, TokensRight
<1>5. used' \in [timeouts : Nat, damage : Nat, breaks : Nat, sessions : Nat] /\ used'.timeouts # 0
  BY <1>1, LineUse DEF Line!LineInv
<1>. QED
  BY <1>1, <1>4, <1>5 DEF Line!LineInv, Line!Typed, T

-----------------------------------------------------------------------------
(* The line *)

\* A sequence with one element replaced.
LEMMA ReplaceRight ==
  ASSUME NEW S, NEW s \in Seq(S), NEW n \in DOMAIN s, NEW d \in S, NEW r, r = [s EXCEPT ![n] = d]
  PROVE  /\ r \in Seq(S) /\ Len(r) = Len(s) /\ DOMAIN r = DOMAIN s
         /\ \A k \in DOMAIN s : r[k] = IF k = n THEN d ELSE s[k]
<1>1. Len(s) \in Nat /\ DOMAIN s = 1 .. Len(s) /\ s \in [1 .. Len(s) -> S]
  OBVIOUS
<1>2. r \in [1 .. Len(s) -> S]
  BY <1>1
<1>. QED
  BY <1>1, <1>2

\* A damaged stream is the same to everything said of it.
LEMMA DamageHarmless ==
  ASSUME NEW s \in Seq(T), NEW n \in DOMAIN s, NEW r, r = [s EXCEPT ![n].ok = FALSE], NEW i, NEW a, NEW v
  PROVE  /\ r \in Seq(T)
         /\ Line!OneRequest(r, i, a) <=> Line!OneRequest(s, i, a)
         /\ Line!HasPacket(r) <=> Line!HasPacket(s)
         /\ Line!HasAck(r) <=> Line!HasAck(s)
         /\ Line!HasEof(r) <=> Line!HasEof(s)
         /\ Line!AckBefore(r) <=> Line!AckBefore(s)
         /\ Line!OnlyPackets(r) <=> Line!OnlyPackets(s)
         /\ Line!AllAnswers(r, i, a, v) <=> Line!AllAnswers(s, i, a, v)
         /\ Line!AckThenAnswers(r, i, a, v) <=> Line!AckThenAnswers(s, i, a, v)
         /\ \A k : Line!PacketsThen(r, k) <=> Line!PacketsThen(s, k)
         /\ r = <<>> <=> s = <<>>
<1>. DEFINE d == [s[n] EXCEPT !.ok = FALSE]
<1>1. s[n] \in T /\ Len(s) \in Nat /\ DOMAIN s = 1 .. Len(s)
  OBVIOUS
<1>2. /\ d \in T /\ d.kind = s[n].kind /\ d.id = s[n].id /\ d.ask = s[n].ask /\ d.ver = s[n].ver
  BY <1>1 DEF T, Line!Tokens
<1>3. r = [s EXCEPT ![n] = d]
  OBVIOUS
<1>. HIDE DEF d
<1>4. /\ r \in Seq(T) /\ Len(r) = Len(s) /\ DOMAIN r = DOMAIN s
      /\ \A k \in DOMAIN s : r[k] = IF k = n THEN d ELSE s[k]
  BY <1>2, <1>3, ReplaceRight
<1>5. \A k \in DOMAIN s : r[k].kind = s[k].kind /\ r[k].id = s[k].id /\ r[k].ask = s[k].ask /\ r[k].ver = s[k].ver
  BY <1>2, <1>4
<1>6. \A k \in DOMAIN s : Line!Answers(r[k], i, a, v) <=> Line!Answers(s[k], i, a, v)
  BY <1>5 DEF Line!Answers
<1>7. \A k \in DOMAIN s : \A j \in 1 .. k - 1 : j \in DOMAIN s
  BY <1>1
<1>8. r = <<>> <=> s = <<>>
  BY <1>1, <1>4
<1>9. \A k : Line!PacketsThen(r, k) <=> Line!PacketsThen(s, k)
  <2>1. Len(s) \in DOMAIN s \/ s = <<>>
    BY <1>1
  <2>2. \A j \in 1 .. Len(s) - 1 : j \in DOMAIN s
    BY <1>1
  <2>. QED
    BY <1>4, <1>5, <1>8, <2>1, <2>2 DEF Line!PacketsThen
<1>10. Line!AckBefore(r) <=> Line!AckBefore(s)
  BY <1>4, <1>5, <1>7 DEF Line!AckBefore
<1>11. Line!AckThenAnswers(r, i, a, v) <=> Line!AckThenAnswers(s, i, a, v)
  <2>1. ASSUME Line!AckThenAnswers(s, i, a, v) PROVE Line!AckThenAnswers(r, i, a, v)
    <3>1. PICK k \in DOMAIN s : /\ s[k].kind = "+" /\ \A j \in 1 .. k - 1 : s[j].kind = "packet"
                                /\ \A j \in DOMAIN s : j > k => Line!Answers(s[j], i, a, v)
      BY <2>1 DEF Line!AckThenAnswers
    <3>2. k \in DOMAIN r /\ r[k].kind = "+"
      BY <1>4, <1>5, <3>1
    <3>3. \A j \in 1 .. k - 1 : r[j].kind = "packet"
      BY <1>4, <1>5, <1>7, <3>1
    <3>4. \A j \in DOMAIN r : j > k => Line!Answers(r[j], i, a, v)
      BY <1>4, <1>6, <3>1
    <3>. QED
      BY <3>2, <3>3, <3>4 DEF Line!AckThenAnswers
  <2>2. ASSUME Line!AckThenAnswers(r, i, a, v) PROVE Line!AckThenAnswers(s, i, a, v)
    <3>1. PICK k \in DOMAIN r : /\ r[k].kind = "+" /\ \A j \in 1 .. k - 1 : r[j].kind = "packet"
                                /\ \A j \in DOMAIN r : j > k => Line!Answers(r[j], i, a, v)
      BY <2>2 DEF Line!AckThenAnswers
    <3>2. k \in DOMAIN s /\ s[k].kind = "+"
      BY <1>4, <1>5, <3>1
    <3>3. \A j \in 1 .. k - 1 : s[j].kind = "packet"
      BY <1>4, <1>5, <1>7, <3>1
    <3>4. \A j \in DOMAIN s : j > k => Line!Answers(s[j], i, a, v)
      BY <1>4, <1>6, <3>1
    <3>. QED
      BY <3>2, <3>3, <3>4 DEF Line!AckThenAnswers
  <2>. QED
    BY <2>1, <2>2
<1>12. /\ Line!OneRequest(r, i, a) <=> Line!OneRequest(s, i, a)
       /\ Line!HasPacket(r) <=> Line!HasPacket(s)
       /\ Line!HasAck(r) <=> Line!HasAck(s)
       /\ Line!HasEof(r) <=> Line!HasEof(s)
       /\ Line!OnlyPackets(r) <=> Line!OnlyPackets(s)
       /\ Line!AllAnswers(r, i, a, v) <=> Line!AllAnswers(s, i, a, v)
  <2>1. Line!OneRequest(r, i, a) <=> Line!OneRequest(s, i, a)
    BY <1>4, <1>5 DEF Line!OneRequest
  <2>2. /\ Line!HasPacket(r) <=> Line!HasPacket(s)
        /\ Line!HasAck(r) <=> Line!HasAck(s)
        /\ Line!HasEof(r) <=> Line!HasEof(s)
    BY <1>4, <1>5 DEF Line!HasPacket, Line!HasAck, Line!HasEof
  <2>3. Line!OnlyPackets(r) <=> Line!OnlyPackets(s)
    BY <1>4, <1>5 DEF Line!OnlyPackets
  <2>4. Line!AllAnswers(r, i, a, v) <=> Line!AllAnswers(s, i, a, v)
    BY <1>4, <1>6 DEF Line!AllAnswers
  <2>. QED
    BY <2>1, <2>2, <2>3, <2>4
<1>. QED
  BY <1>4, <1>8, <1>9, <1>10, <1>11, <1>12

\* A packet is damaged.
LEMMA DamageRight == ASSUME Line!LineInv, Line!Damage PROVE Line!LineInv'
<1>1. /\ Line!Use("damage")
      /\ UNCHANGED <<at, putting, cache, version, want, id, ask, chunks, taken, runs>>
  BY DEF Line!Damage, Line!srv, Line!gdb
<1>2. toServer \in Seq(T) /\ toClient \in Seq(T)
  BY DEF Line!LineInv, Line!Typed, T
<1>3. used' \in [timeouts : Nat, damage : Nat, breaks : Nat, sessions : Nat] /\ used'.timeouts = used.timeouts
  BY <1>1, LineUse DEF Line!LineInv
<1>4. CASE \E n \in DOMAIN toServer : toServer' = [toServer EXCEPT ![n].ok = FALSE] /\ UNCHANGED toClient
  <2>1. /\ toServer' \in Seq(T)
        /\ Line!OneRequest(toServer', id, ask) <=> Line!OneRequest(toServer, id, ask)
        /\ Line!HasPacket(toServer') <=> Line!HasPacket(toServer)
        /\ Line!HasAck(toServer') <=> Line!HasAck(toServer)
        /\ Line!HasEof(toServer') <=> Line!HasEof(toServer)
        /\ Line!AckBefore(toServer') <=> Line!AckBefore(toServer)
    BY <1>2, <1>4, DamageHarmless
  <2>2. Line!Typed'
    BY <1>1, <1>3, <1>4, <2>1 DEF Line!LineInv, Line!Typed, T
  <2>3. ASSUME used.timeouts = 0 PROVE Line!Patient'
    BY <1>1, <1>4, <2>1, <2>3 DEF Line!LineInv, Line!Patient, Line!Requested, Line!WhenIdle, Line!WhenSent, Line!Sent,
         Line!Refused, Line!Carried, Line!WhenAcked, Line!Running, Line!OneCopy, Line!Answering
  <2>. QED
    BY <1>3, <2>2, <2>3 DEF Line!LineInv
<1>5. CASE \E n \in DOMAIN toClient : toClient' = [toClient EXCEPT ![n].ok = FALSE] /\ UNCHANGED toServer
  <2>1. /\ toClient' \in Seq(T)
        /\ Line!OnlyPackets(toClient') <=> Line!OnlyPackets(toClient)
        /\ Line!AllAnswers(toClient', id, ask, cache) <=> Line!AllAnswers(toClient, id, ask, cache)
        /\ Line!AckThenAnswers(toClient', id, ask, cache) <=> Line!AckThenAnswers(toClient, id, ask, cache)
        /\ \A k : Line!PacketsThen(toClient', k) <=> Line!PacketsThen(toClient, k)
        /\ toClient' = <<>> <=> toClient = <<>>
    BY <1>2, <1>5, DamageHarmless
  <2>2. Line!Typed'
    BY <1>1, <1>3, <1>5, <2>1 DEF Line!LineInv, Line!Typed, T
  <2>3. ASSUME used.timeouts = 0 PROVE Line!Patient'
    BY <1>1, <1>5, <2>1, <2>3 DEF Line!LineInv, Line!Patient, Line!Requested, Line!WhenIdle, Line!WhenSent, Line!Sent,
         Line!Refused, Line!Carried, Line!WhenAcked, Line!Running, Line!OneCopy, Line!Answering
  <2>. QED
    BY <1>3, <2>2, <2>3 DEF Line!LineInv
<1>. QED
  BY <1>4, <1>5 DEF Line!Damage

-----------------------------------------------------------------------------
(* Together *)

\* Before the first client nothing is said of the line.
LEMMA LineStart == ASSUME Line!Init PROVE Line!LineInv
<1>1. /\ at = "connect" /\ putting = Line!Packet(0, Line!Continue, 0) /\ cache = 0 /\ version = 1
      /\ toServer = <<>> /\ toClient = <<>> /\ want = "gone" /\ id = 0 /\ ask = Line!Continue /\ chunks = <<>>
      /\ taken = [id |-> 0, wanted |-> 0] /\ runs = 0
      /\ used = [timeouts |-> 0, damage |-> 0, breaks |-> 0, sessions |-> 0]
  BY DEF Line!Init
<1>2. putting \in T /\ putting.kind = "packet"
  <2>1. 0 \in Int /\ Line!Continue \in Int
    BY DEF Line!Continue
  <2>. QED
    BY <1>1, <2>1, PacketRight
<1>3. Line!Typed
  BY <1>1, <1>2, EmptyStreams DEF Line!Typed, Line!Continue, T
<1>4. Line!Requested
  BY <1>1, EmptyStreams DEF Line!Requested
<1>5. Line!WhenIdle /\ Line!WhenSent /\ Line!WhenAcked /\ Line!Running /\ taken.id = taken.wanted
  BY <1>1 DEF Line!WhenIdle, Line!WhenSent, Line!WhenAcked, Line!Running
<1>6. Line!OneCopy
  BY <1>1 DEF Line!OneCopy, Line!Same
<1>. QED
  BY <1>3, <1>4, <1>5, <1>6 DEF Line!LineInv, Line!Patient

\* The steps of the server.
LEMMA ServerStep ==
  ASSUME Line!LineInv, Line!Connecting \/ Line!Getting \/ Line!Waiting \/ Line!Putting \/ Line!TargetStops
  PROVE  Line!LineInv'
<1>1. CASE Line!Connecting
  <2>1. CASE Line!Accept
    BY <2>1, AcceptRight
  <2>2. CASE Line!AcceptFails
    <3>1. /\ UNCHANGED <<at, putting, cache, version, toServer, toClient, want, id, ask, chunks, taken, runs>>
          /\ Line!Use("sessions")
      BY <2>2 DEF Line!AcceptFails, Line!wire, Line!gdb
    <3>2. used' \in [timeouts : Nat, damage : Nat, breaks : Nat, sessions : Nat] /\ used'.timeouts = used.timeouts
      BY <3>1, LineUse DEF Line!LineInv
    <3>. QED
      BY <3>1, <3>2, GoRight DEF Line!LineInv, Line!Typed
  <2>3. CASE Line!BindFails
    BY <2>3, GoRight DEF Line!BindFails, Line!wire, Line!gdb, Line!LineInv, Line!Typed
  <2>. QED
    BY <1>1, <2>1, <2>2, <2>3 DEF Line!Connecting
<1>2. CASE Line!Getting
  <2>1. CASE Line!GetBreak \/ Line!GetStray
    BY <2>1, ReadRight DEF Line!GetBreak, Line!GetStray, Line!Incoming, Line!Read, Line!srv, Line!gdb
  <2>2. CASE Line!GetEof \/ Line!GetDamaged \/ Line!GetContinue \/ Line!rspTransferObject
    BY <2>2, GetEofRight, GetDamagedRight, CarryOutRight
  <2>. QED
    BY <1>2, <2>1, <2>2 DEF Line!Getting
<1>3. CASE Line!Waiting \/ Line!TargetStops
  <2>1. CASE Line!GetBreakCommand \/ Line!BreakStray
    BY <2>1, ReadRight DEF Line!GetBreakCommand, Line!BreakStray, Line!Incoming, Line!Read, Line!srv, Line!gdb
  <2>2. CASE Line!PendingBreak \/ Line!TargetStops
    BY <2>2, GoRight DEF Line!PendingBreak, Line!TargetStops, Line!wire, Line!gdb, Line!LineInv, Line!Typed
  <2>. QED
    BY <1>3, <2>1, <2>2 DEF Line!Waiting
<1>4. CASE Line!Putting
  <2>1. CASE Line!PutPkt
    BY <2>1, PutRight
  <2>2. CASE Line!PutAcked \/ Line!PutAgain
    BY <2>2, ReadRight DEF Line!PutAcked, Line!PutAgain, Line!Incoming, Line!Read, Line!gdb
  <2>3. CASE Line!PutEof
    BY <2>3, GoRight DEF Line!PutEof, Line!wire, Line!gdb, Line!LineInv, Line!Typed
  <2>. QED
    BY <1>4, <2>1, <2>2, <2>3 DEF Line!Putting
<1>. QED
  BY <1>1, <1>2, <1>3, <1>4

\* The steps of the client and of the line.
LEMMA ClientStep ==
  ASSUME Line!LineInv,
         \/ Line!Taking \/ \E a \in Line!Asked : Line!Send(a)
         \/ Line!Timeout \/ Line!PressCtrlC \/ Line!Leave \/ Line!Damage \/ Line!ObjectChanges
  PROVE  Line!LineInv'
<1>1. CASE Line!Taking
  <2>1. CASE Line!SkipOld \/ Line!SkipStray \/ Line!TakeDamaged
    BY <2>1, ClientReads DEF Line!SkipOld, Line!SkipStray, Line!TakeDamaged, Line!Reads, Line!Say, Line!srv, Line!gdb
  <2>2. CASE Line!TakeAck \/ Line!TakeNak \/ Line!TakeReply
    BY <2>2, TakeAckRight, TakeNakRight, TakeReplyRight
  <2>. QED
    BY <1>1, <2>1, <2>2 DEF Line!Taking
<1>2. CASE \E a \in Line!Asked : Line!Send(a)
  <2>1. PICK a \in Line!Asked : Line!Send(a)
    BY <1>2
  <2>2. a \in Int
    BY LineAssumption DEF LineAssumption, Line!Asked, Line!Continue
  <2>. QED
    BY <2>1, <2>2, SendRight
<1>3. CASE Line!Timeout \/ Line!PressCtrlC \/ Line!Leave \/ Line!Damage
  BY <1>3, TimeoutRight, PressRight, LeaveRight, DamageRight
<1>4. CASE Line!ObjectChanges
  BY <1>4, GoRight DEF Line!ObjectChanges, Line!srv, Line!wire, Line!gdb, Line!LineInv, Line!Typed
<1>. QED
  BY <1>1, <1>2, <1>3, <1>4

\* Without timeouts the client's request is on its way, refused, being answered or answered, once,
\* and the client takes for its answer what comes behind the "+" (getPkt, putPkt, waitAllThreads).
THEOREM LineInvariant == MCSpec => []Line!LineInv
<1>1. MCInit => Line!LineInv
  BY LineStart DEF MCInit
<1>2. ASSUME Line!LineInv, [MCNext]_<<part, vars, tableVars, runVars, wireVars, lineVars>> PROVE Line!LineInv'
  <2>1. CASE UNCHANGED lineVars
    BY <1>2, <2>1 DEF lineVars, Line!LineInv, Line!Typed, Line!Patient, Line!Requested, Line!WhenIdle, Line!WhenSent,
       Line!WhenAcked, Line!Running, Line!OneCopy, Line!Answering, Line!Sent, Line!Refused, Line!Carried
  <2>2. CASE Line!Next
    BY <1>2, <2>2, ServerStep, ClientStep, LineAssumption DEF Line!Next, Line!Environment
  <2>. QED
    BY <1>2, <2>1, <2>2 DEF MCNext
<1>. QED
  BY <1>1, <1>2, PTL DEF MCSpec

\* Without timeouts every reply is the answer to the request sent last, an object is read as it was at
\* one moment, and no request is carried out twice.
THEOREM RepliesMatch == MCSpec => []AnswersMatch
<1>1. Line!LineInv => AnswersMatch
  <2>. SUFFICES ASSUME Line!Typed, Line!Patient, used.timeouts = 0
                PROVE  taken.id = taken.wanted /\ Line!Same(chunks) /\ runs <= 1
    BY DEF AnswersMatch, Line!LineInv, Line!AnswersMatch, Line!OneVersion, Line!CarriedOutOnce, Line!Same
  <2>. QED
    BY DEF Line!Patient, Line!OneCopy, Line!Requested
<1>. QED
  BY <1>1, LineInvariant, PTL

-----------------------------------------------------------------------------
(* One core that runs *)

\* Behind a TRAP the search for the stopping instruction finds the TRAP.
LEMMA TrapFound ==
  ASSUME Run!Places, NEW s \in Run!Slots, Run!At(s) \in Run!Traps, pc \in Run!Behind(s)
  PROVE  /\ pc \in Nat \ {0} /\ pc - 1 \in Run!Slots /\ Run!Last(pc) = pc - 1
         /\ Run!Search(pc - 1) = Run!At(s) /\ Run!At(pc - 1) \in {Run!At(s), "nop"}
<1>1. s \in Nat /\ pc \in Nat /\ pc > s /\ \A u \in (s + 1) .. (pc - 1) : Run!At(u) = "nop"
  BY DEF Run!Places, Run!IsProgram, Run!Slots, Run!Behind
<1>2. pc - 1 \in Run!Slots
  <2>1. pc \in Run!Slots \/ pc = s + 1
    BY DEF Run!Behind
  <2>2. ASSUME pc \in Run!Slots PROVE pc - 1 \in 0 .. pc /\ 0 .. pc \subseteq Run!Slots
    BY <1>1, <2>2 DEF Run!Places, Run!IsProgram, Run!Slots
  <2>. QED
    BY <1>1, <2>1, <2>2
<1>3. Run!At(s) # "nop"
  BY DEF Run!Traps, Run!Files
<1>4. pc - 1 \in Nat /\ s \in 0 .. pc - 1 /\ (pc - 1 = s \/ pc - 1 \in (s + 1) .. (pc - 1))
  BY <1>1
<1>. DEFINE P(t) == Run!At(t) # "nop" /\ \A u \in (t + 1) .. pc - 1 : Run!At(u) = "nop"
<1>5. P(s)
  BY <1>1, <1>3
<1>6. ASSUME NEW t \in 0 .. pc - 1, P(t) PROVE t = s
  <2>1. ~(t < s)
    BY <1>3, <1>4, <1>6
  <2>2. ~(t > s)
    BY <1>1, <1>6
  <2>. QED
    BY <1>1, <2>1, <2>2
<1>7. (CHOOSE t \in 0 .. pc - 1 : P(t)) = s
  BY <1>4, <1>5, <1>6
<1>8. Run!Search(pc - 1) = Run!At(s)
  BY <1>7 DEF Run!Search
<1>. QED
  BY <1>1, <1>2, <1>4, <1>8 DEF Run!Last

\* Whatever only looks at the core, halts or wakes it.
LEMMA LookRight ==
  ASSUME Run!RunInv, UNCHANGED <<code, bkpts, pc, excause, r3, stop, due, sig>>, halted' = halted \/ halted' = TRUE,
         called' = called \/ sig = "EMT", Run!IdleKnown'
  PROVE  Run!RunInv'
<1>1. Run!Places' /\ Run!Resting'
  BY DEF Run!RunInv, Run!Places, Run!Resting, Run!Starts, Run!Slots, Run!isValidPc
<1>2. Run!BehindTrap' /\ Run!BehindBkpt' /\ Run!SelfStopNamed'
  BY DEF Run!RunInv, Run!BehindTrap, Run!BehindBkpt, Run!SelfStopNamed, Run!Slots, Run!isValidPc, Run!At, Run!Behind,
         Run!TrapSignal, Run!getException
<1>3. Run!Aligned'
  BY DEF Run!RunInv, Run!Aligned, Run!isValidPc, Run!Slots, Run!At, Run!Starts
<1>. QED
  BY <1>1, <1>2, <1>3 DEF Run!RunInv

\* The core executes an instruction.
LEMMA RunRight ==
  ASSUME Run!RunInv, ~halted, NEW to \in Nat, Run!Goes(to), excause' \in {"NONE"} \cup Run!Causes, Run!IdleKnown',
         UNCHANGED <<code, bkpts, halted, r3, sig, called, stop>>
  PROVE  Run!RunInv'
<1>1. pc' \in Nat /\ pc' = due' /\ sig = "unasked" /\ stop = "none"
  BY DEF Run!Goes, Run!RunInv, Run!Resting
<1>2. Run!Places' /\ Run!Resting'
  BY <1>1 DEF Run!RunInv, Run!Places, Run!Resting, Run!Starts, Run!Slots
<1>3. Run!BehindTrap' /\ Run!BehindBkpt' /\ Run!SelfStopNamed' /\ Run!Aligned'
  BY <1>1 DEF Run!BehindTrap, Run!BehindBkpt, Run!SelfStopNamed, Run!Aligned, Run!Traps, Run!Files
<1>. QED
  BY <1>2, <1>3 DEF Run!RunInv

\* It comes to a breakpoint, where the program goes on once the breakpoint is taken away.
LEMMA HitBkptRight == ASSUME Run!RunInv, Run!HitBkpt PROVE Run!RunInv'
<1>1. /\ ~halted /\ Run!isValidPc(pc) /\ Run!At(pc) = "bkpt" /\ pc' = pc + 1 /\ halted' = TRUE /\ stop' = Run!Noted("bkpt")
      /\ UNCHANGED <<code, bkpts, active, excause, r3, runState, sig, called, info, due, rested>>
  BY DEF Run!HitBkpt, Run!Runs, Run!program, Run!server
<1>2. pc \in Nat /\ sig = "unasked" /\ stop = "none" /\ stop' \in {"none", "bkpt"}
  BY <1>1 DEF Run!RunInv, Run!Places, Run!Resting, Run!Noted
<1>3. Run!Places' /\ Run!Resting' /\ Run!IdleKnown'
  BY <1>1, <1>2 DEF Run!RunInv, Run!Places, Run!Resting, Run!Starts, Run!Slots, Run!IdleKnown
<1>4. Run!BehindTrap' /\ Run!SelfStopNamed'
  BY <1>1, <1>2 DEF Run!BehindTrap, Run!SelfStopNamed, Run!Traps, Run!Files
<1>5. Run!BehindBkpt' /\ Run!Aligned'
  <2>1. CASE pc \in Run!Starts
    <3>1. pc \in bkpts
      BY <1>1, <2>1 DEF Run!At, Run!RunInv, Run!Places, Run!IsProgram, Run!Starts
    <3>2. pc = due /\ stop' = "bkpt"
      BY <1>1, <1>2, <2>1, <3>1 DEF Run!RunInv, Run!Aligned, Run!Noted
    <3>. QED
      BY <1>1, <1>2, <3>2 DEF Run!BehindBkpt, Run!Aligned, Run!isValidPc, Run!Slots, Run!At
  <2>2. CASE pc \notin Run!Starts
    <3>1. stop' = "none" /\ pc' - 1 = pc
      BY <1>1, <1>2, <2>2 DEF Run!Noted
    <3>. QED
      BY <1>1, <1>2, <2>2, <3>1 DEF Run!BehindBkpt, Run!Aligned, Run!isValidPc, Run!Slots, Run!At, Run!Starts
  <2>. QED
    BY <2>1, <2>2
<1>. QED
  BY <1>3, <1>4, <1>5 DEF Run!RunInv

\* It comes to a TRAP.
LEMMA HitTrapRight == ASSUME Run!RunInv, Run!HitTrap PROVE Run!RunInv'
<1>1. /\ ~halted /\ Run!isValidPc(pc) /\ Run!At(pc) \in Run!Traps /\ pc' = due' /\ pc' \in Run!Behind(pc) /\ halted' = TRUE
      /\ stop' = Run!Noted(Run!At(pc))
      /\ UNCHANGED <<code, bkpts, active, excause, r3, runState, sig, called, info, rested>>
  BY DEF Run!HitTrap, Run!Runs, Run!program, Run!server, Run!Goes
<1>2. pc \in Run!Slots /\ pc \in Nat /\ pc' \in Nat /\ sig = "unasked"
  BY <1>1 DEF Run!RunInv, Run!Places, Run!Resting, Run!Behind, Run!isValidPc, Run!Slots, Run!IsProgram
<1>3. stop' \in {"none", Run!At(pc)} /\ stop' # "bkpt"
  BY <1>1 DEF Run!Noted, Run!Traps, Run!Files
<1>4. Run!Places' /\ Run!Resting' /\ Run!IdleKnown'
  BY <1>1, <1>2, <1>3 DEF Run!RunInv, Run!Places, Run!Resting, Run!Starts, Run!Slots, Run!IdleKnown
<1>5. Run!BehindBkpt' /\ Run!SelfStopNamed' /\ Run!Aligned'
  BY <1>1, <1>2, <1>3 DEF Run!BehindBkpt, Run!SelfStopNamed, Run!Aligned
<1>6. Run!BehindTrap'
  <2>1. CASE stop' = "none"
    BY <2>1 DEF Run!BehindTrap, Run!Traps, Run!Files
  <2>2. CASE stop' = Run!At(pc)
    BY <1>1, <1>2, <2>2 DEF Run!BehindTrap, Run!Behind, Run!At, Run!Slots
  <2>. QED
    BY <1>3, <2>1, <2>2
<1>. QED
  BY <1>4, <1>5, <1>6 DEF Run!RunInv

\* The server asks why the core stopped.
LEMMA ExamineRight == ASSUME Run!RunInv, Run!Examine PROVE Run!RunInv'
<1>1. /\ halted /\ sig = "unasked" /\ sig' = Run!findStopReason
      /\ pc' = IF sig' = "TRAP" THEN Run!Last(pc) ELSE pc
      /\ UNCHANGED <<code, bkpts, halted, active, excause, r3, runState, called, info, stop, due, rested>>
  BY DEF Run!Examine, Run!program, Run!history
<1>2. called = "none" /\ pc \in Nat /\ Run!Last(pc) \in Nat /\ stop \in Run!Traps \cup {"none", "bkpt"}
  BY <1>1 DEF Run!RunInv, Run!Places, Run!Resting, Run!Last
<1>3. ASSUME Run!isValidPc(pc), stop \in Run!Traps
      PROVE  sig' = IF excause = "NONE" THEN Run!TrapSignal(stop) ELSE Run!getException
  <2>1. PICK s \in Run!Slots : Run!At(s) = stop /\ pc \in Run!Behind(s)
    BY <1>1, <1>3 DEF Run!RunInv, Run!BehindTrap
  <2>2. /\ Run!Last(pc) = pc - 1 /\ Run!Search(pc - 1) = stop /\ Run!At(pc - 1) \in {stop, "nop"}
    BY <1>3, <2>1, TrapFound DEF Run!RunInv
  <2>3. Run!At(Run!Last(pc)) # "bkpt" /\ Run!Search(Run!Last(pc)) = stop
    BY <1>3, <2>2 DEF Run!Traps, Run!Files
  <2>4. Run!getException = "NONE" <=> excause = "NONE"
    BY DEF Run!getException
  <2>. QED
    BY <1>1, <1>3, <2>3, <2>4 DEF Run!findStopReason
<1>4. ASSUME Run!isValidPc(pc), stop = "bkpt" PROVE sig' = "TRAP" /\ pc' = due
  <2>1. Run!isValidPc(due) /\ Run!At(due) = "bkpt" /\ pc = due + 1 /\ due \in Nat
    BY <1>1, <1>4 DEF Run!RunInv, Run!BehindBkpt, Run!Places, Run!IsProgram, Run!isValidPc, Run!Slots
  <2>2. Run!Last(pc) = due
    BY <2>1 DEF Run!Last
  <2>3. sig' = "TRAP"
    BY <1>1, <1>4, <2>1, <2>2 DEF Run!findStopReason
  <2>. QED
    BY <1>1, <2>2, <2>3
<1>5. ~Run!isValidPc(pc) => sig' = "ILL"
  BY <1>1 DEF Run!findStopReason
<1>6. sig' # "unasked"
  BY <1>1 DEF Run!findStopReason, Run!getException, Run!TrapSignal
<1>7. sig' = "EMT" => Run!isValidPc(pc) /\ stop # "bkpt" /\ pc' = pc
  BY <1>1, <1>4, <1>5
<1>8. Run!Places' /\ Run!Resting' /\ Run!IdleKnown' /\ Run!BehindBkpt'
  BY <1>1, <1>2, <1>6, <1>7
  DEF Run!RunInv, Run!Places, Run!Resting, Run!IdleKnown, Run!BehindBkpt, Run!Starts, Run!Slots, Run!isValidPc
<1>9. Run!BehindTrap'
  BY <1>1, <1>6, <1>7 DEF Run!RunInv, Run!BehindTrap, Run!Behind, Run!At, Run!Slots
<1>10. Run!Aligned'
  <2>. SUFFICES ASSUME sig' = "EMT" PROVE pc' = due' \/ pc' \notin bkpts'
    BY <1>6 DEF Run!Aligned
  <2>1. CASE pc = due \/ pc \notin bkpts
    BY <1>1, <1>7, <2>1
  <2>2. CASE pc - 1 \in Run!Slots /\ Run!At(pc - 1) = "bkpt"
    <3>1. Run!Last(pc) = pc - 1
      BY <1>2, <2>2 DEF Run!Last, Run!RunInv, Run!Places, Run!IsProgram, Run!Slots
    <3>. QED
      BY <1>1, <1>7, <2>2, <3>1 DEF Run!findStopReason
  <2>. QED
    BY <1>1, <1>7, <2>1, <2>2 DEF Run!RunInv, Run!Aligned
<1>11. Run!SelfStopNamed'
  <2>. SUFFICES ASSUME stop # "none", Run!isValidPc(pc')
                PROVE  IF stop = "bkpt" THEN sig' = "TRAP" /\ pc' = due'
                       ELSE IF excause = "NONE" THEN sig' = Run!TrapSignal(stop) ELSE sig' = Run!getException
    BY <1>1 DEF Run!SelfStopNamed, Run!TrapSignal, Run!getException, Run!isValidPc, Run!Slots
  <2>1. Run!isValidPc(pc)
    BY <1>1, <1>5 DEF Run!isValidPc, Run!Slots
  <2>. QED
    BY <1>1, <1>2, <1>3, <1>4, <2>1
<1>. QED
  BY <1>8, <1>9, <1>10, <1>11 DEF Run!RunInv

\* The core goes on.
LEMMA ResumeRight ==
  ASSUME Run!RunInv, Run!resume, sig = "EMT" \/ (sig # "unasked" /\ pc \notin bkpts),
         UNCHANGED <<code, bkpts, pc, active, excause, runState, due, rested>>
  PROVE  Run!RunInv'
<1>1. halted' = FALSE /\ sig' = "unasked" /\ called' = "none" /\ stop' = "none"
  BY DEF Run!resume
<1>2. Run!Places' /\ Run!Resting' /\ Run!IdleKnown' /\ Run!BehindBkpt' /\ Run!BehindTrap' /\ Run!SelfStopNamed'
  BY <1>1 DEF Run!RunInv, Run!Places, Run!Resting, Run!IdleKnown, Run!BehindBkpt, Run!BehindTrap, Run!SelfStopNamed,
              Run!Starts, Run!Slots, Run!Traps, Run!Files
<1>3. sig = "EMT" => stop # "bkpt" /\ Run!isValidPc(pc)
  BY DEF Run!RunInv, Run!Resting
<1>4. Run!Aligned'
  BY <1>1, <1>3 DEF Run!RunInv, Run!Aligned
<1>. QED
  BY <1>2, <1>4 DEF Run!RunInv

\* The client sets or removes a breakpoint.
LEMMA BreakpointRight == ASSUME Run!RunInv, Run!Breakpoint PROVE Run!RunInv'
<1>1. /\ halted /\ sig \notin {"unasked", "EMT"} /\ bkpts' \subseteq bkpts \cup Run!Starts
      /\ UNCHANGED <<code, pc, halted, active, excause, r3, runState, sig, called, info, stop, due, rested>>
  BY DEF Run!Breakpoint, Run!core, Run!server, Run!history
<1>. QED
  BY <1>1 DEF Run!RunInv, Run!Places, Run!Resting, Run!IdleKnown, Run!BehindBkpt, Run!BehindTrap, Run!SelfStopNamed,
              Run!Aligned, Run!Starts, Run!Slots, Run!isValidPc, Run!TrapSignal, Run!getException

\* One step of the core, the server or the client.
LEMMA RunStep == ASSUME Run!RunInv, Run!Next PROVE Run!RunInv'
<1>1. pc \in Nat /\ Run!Starts \subseteq Nat /\ Run!IdleKnown /\ excause \in {"NONE"} \cup Run!Causes
  BY DEF Run!RunInv, Run!Places, Run!IsProgram, Run!Starts, Run!Beginnings
<1>2. CASE Run!Execute
  <2>1. PICK to \in Nat : Run!Goes(to)
    BY <1>1, <1>2 DEF Run!Execute
  <2>. QED
    BY <1>1, <1>2, <2>1, RunRight DEF Run!Execute, Run!Runs, Run!IdleKnown, Run!program, Run!server
<1>3. CASE Run!Raise
  <2>1. pc + 1 \in Nat /\ Run!Goes(pc + 1)
    BY <1>1, <1>3 DEF Run!Raise
  <2>. QED
    BY <1>1, <1>3, <2>1, RunRight DEF Run!Raise, Run!Runs, Run!IdleKnown, Run!program, Run!server
<1>4. CASE Run!FallIdle
  <2>1. pc + 1 \in Nat /\ Run!Goes(pc + 1)
    BY <1>1, <1>4 DEF Run!FallIdle
  <2>. QED
    BY <1>1, <1>4, <2>1, RunRight DEF Run!FallIdle, Run!Runs, Run!IdleKnown, Run!program, Run!server
<1>5. CASE Run!Wake \/ Run!Halt \/ Run!ServeCall
  <2>1. Run!IdleKnown'
    BY <1>1, <1>5 DEF Run!Wake, Run!Halt, Run!ServeCall, Run!IdleKnown, Run!core, Run!server, Run!history
  <2>. QED
    BY <1>5, <2>1, LookRight DEF Run!Wake, Run!Halt, Run!ServeCall, Run!program, Run!core, Run!server, Run!history
<1>6. CASE Run!haltAndActivate \/ Run!rspThreadExtraInfo
  <2>1. Run!IdleKnown'
    BY <1>1, <1>6 DEF Run!haltAndActivate, Run!rspThreadExtraInfo, Run!IdleKnown, Run!isIdle, Run!core, Run!history
  <2>. QED
    BY <1>6, <2>1, LookRight DEF Run!haltAndActivate, Run!rspThreadExtraInfo, Run!program, Run!core, Run!history
<1>7. CASE Run!FileIOReply
  <2>1. sig = "EMT"
    BY <1>7 DEF Run!FileIOReply, Run!RunInv, Run!Resting
  <2>. QED
    BY <1>7, <2>1, ResumeRight DEF Run!FileIOReply, Run!program
<1>8. CASE Run!Continue
  BY <1>8, ResumeRight DEF Run!Continue, Run!program
<1>. QED
  BY <1>2, <1>3, <1>4, <1>5, <1>6, <1>7, <1>8, HitBkptRight, HitTrapRight, ExamineRight, BreakpointRight DEF Run!Next

\* A program at its beginning.
LEMMA RunStart == ASSUME Run!Init PROVE Run!RunInv
<1>1. /\ code \in Programs /\ bkpts = {} /\ pc = 0 /\ halted = FALSE /\ active \in BOOLEAN /\ excause = "NONE"
      /\ runState = "unknown" /\ sig = "unasked" /\ called = "none" /\ stop = "none" /\ due = 0 /\ rested = ~active
  BY DEF Run!Init
<1>2. Run!IsProgram(code)
  BY <1>1, ProgramsAssumption
<1>. QED
  BY <1>1, <1>2 DEF Run!RunInv, Run!Places, Run!Resting, Run!BehindTrap, Run!BehindBkpt, Run!Aligned, Run!IdleKnown,
                    Run!SelfStopNamed, Run!Traps, Run!Files

\* A stop of the core leaves the memory the server reads, and so the search for its reason, as they
\* were until the client is told of it or has answered the call.
THEOREM RunInvariant == MCSpec => [](part = "run" => Run!RunInv)
<1>1. MCInit => (part = "run" => Run!RunInv)
  BY RunStart DEF MCInit
<1>2. ASSUME part = "run" => Run!RunInv, [MCNext]_<<part, vars, tableVars, runVars, wireVars, lineVars>>
      PROVE  (part = "run" => Run!RunInv)'
  <2>. SUFFICES ASSUME part = "run", Run!RunInv, part' = part PROVE Run!RunInv'
    BY <1>2 DEF MCNext
  <2>1. CASE UNCHANGED runVars
    BY <2>1 DEF runVars, Run!RunInv, Run!Places, Run!Resting, Run!BehindTrap, Run!BehindBkpt, Run!Aligned, Run!IdleKnown,
       Run!SelfStopNamed, Run!Slots, Run!Starts, Run!At, Run!Behind, Run!isValidPc, Run!TrapSignal, Run!getException
  <2>2. CASE Run!Next
    BY <2>2, RunStep
  <2>. QED
    BY <1>2, <2>1, <2>2 DEF MCNext
<1>. QED
  BY <1>1, <1>2, PTL DEF MCSpec

\* A core that stopped by itself is named after the instruction it stopped at, wherever behind the NOPs
\* it came to rest, and after a breakpoint the program goes on at the instruction replaced.
THEOREM StopsNamed == MCSpec => []SelfStopNamed
<1>1. (part = "run" => Run!RunInv) => SelfStopNamed
  BY DEF SelfStopNamed, InPart, Run!RunInv
<1>. QED
  BY <1>1, RunInvariant, PTL

\* Each stop taken for a call of the host becomes the request the core trapped for, one the client can
\* answer, and a core the list of threads calls idle has been idle since it was last made active.
THEOREM CallsAnswered == MCSpec => CallsAnswerable
<1>1. ASSUME Run!RunInv, Run!ServeCall, stop # "none"
      PROVE  called' \notin {"nothing", "echo", "T03"} /\ called' = Run!redirectStdioOnTrap(stop)
  <2>1. sig = "EMT" /\ called' = Run!redirectStdioOnTrap(Run!getStopInstr)
    BY <1>1 DEF Run!ServeCall
  <2>2. Run!isValidPc(pc) /\ stop \in Run!Traps
    BY <1>1, <2>1 DEF Run!RunInv, Run!Resting, Run!Places
  <2>3. PICK s \in Run!Slots : Run!At(s) = stop /\ pc \in Run!Behind(s)
    BY <1>1, <2>1, <2>2 DEF Run!RunInv, Run!BehindTrap
  <2>4. Run!Search(pc - 1) = stop /\ Run!At(pc - 1) \in {stop, "nop"}
    BY <1>1, <2>2, <2>3, TrapFound DEF Run!RunInv
  <2>5. Run!getStopInstr = stop
    BY <2>2, <2>4 DEF Run!getStopInstr, Run!Traps, Run!Files
  <2>6. Run!TrapSignal(stop) = "EMT"
    BY <1>1, <2>1, <2>2 DEF Run!RunInv, Run!SelfStopNamed, Run!getException, Run!Traps, Run!Files
  <2>7. stop \in Run!Files \/ (stop = "TRAP_SYSCALL" /\ r3 \in Run!SYS)
    BY <2>2, <2>6 DEF Run!TrapSignal, Run!Traps, Run!Files
  <2>8. Run!redirectStdioOnTrap(stop) \notin {"nothing", "echo", "T03"}
    BY <2>7 DEF Run!redirectStdioOnTrap, Run!CallRequest, Run!Request, Run!Files, Run!SYS
  <2>. QED
    BY <2>1, <2>5, <2>8
<1>2. ASSUME Run!RunInv, Run!Next PROVE Run!InfoRight
  BY <1>2 DEF Run!InfoRight, Run!Next, Run!Execute, Run!Raise, Run!FallIdle, Run!Wake, Run!HitBkpt, Run!HitTrap, Run!Examine,
     Run!ServeCall, Run!FileIOReply, Run!Continue, Run!Halt, Run!haltAndActivate, Run!rspThreadExtraInfo, Run!Breakpoint,
     Run!server, Run!core, Run!isIdle, Run!RunInv, Run!IdleKnown
<1>3. ASSUME part = "run" => Run!RunInv, [MCNext]_<<part, vars, tableVars, runVars, wireVars, lineVars>>
      PROVE  [part = "run" => Run!CallAnswerable /\ Run!InfoRight]_runVars
  <2>. SUFFICES ASSUME part = "run", ~UNCHANGED runVars PROVE Run!CallAnswerable /\ Run!InfoRight
    OBVIOUS
  <2>1. Run!Next
    BY <1>3 DEF MCNext
  <2>. QED
    BY <1>1, <1>2, <1>3, <2>1 DEF Run!CallAnswerable
<1>. QED
  BY <1>3, RunInvariant, PTL DEF MCSpec, CallsAnswerable

-----------------------------------------------------------------------------
(* The tables of threads and processes *)

\* The instance counts as everyone does.
LEMMA SameCount == ASSUME NEW S PROVE Tables!Cardinality(S) = Cardinality(S)
  BY DEF Cardinality, Tables!Cardinality

\* The number of the next process is no process's.
LEMMA NextPidRight ==
  ASSUME Tables!Owned
  PROVE  /\ Tables!NextPid \in Nat /\ Tables!NextPid \notin Tables!Pid
         /\ \A P : P = Tables!Pid \cup {Tables!NextPid} => Tables!Cardinality(P) = Tables!NextPid /\ P = 1 .. Tables!NextPid
<1>. DEFINE n == Tables!Cardinality(Tables!Pid)
<1>1. n \in Nat /\ Tables!Pid = 1 .. n /\ Tables!NextPid = n + 1
  BY DEF Tables!Owned, Tables!NextPid
<1>. HIDE DEF n
<1>2. Tables!Pid \cup {Tables!NextPid} = 1 .. n + 1
  BY <1>1
<1>3. Cardinality(1 .. n + 1) = n + 1
  <2>1. 1 \in Int /\ n + 1 \in Int /\ ~(1 > n + 1) /\ (n + 1) - 1 + 1 = n + 1
    BY <1>1
  <2>. QED
    BY <2>1, FS_Interval
<1>4. Tables!Cardinality(1 .. n + 1) = n + 1
  BY <1>3, SameCount
<1>5. ASSUME NEW P, P = Tables!Pid \cup {Tables!NextPid} PROVE Tables!Cardinality(P) = Tables!NextPid /\ P = 1 .. Tables!NextPid
  <2>1. P = 1 .. n + 1
    BY <1>2, <1>5
  <2>. QED
    BY <1>1, <1>4, <2>1
<1>. QED
  BY <1>1, <1>5

\* The threads of the cores are numbered apart, and none is the null thread.
LEMMA TidsApart ==
  ASSUME Tables!IsChip(chip), NEW c \in Tables!OnChip, NEW d \in Tables!OnChip
  PROVE  /\ c \in Int \X Int /\ 0 <= c[1] /\ c[1] < chip.rows /\ 0 <= c[2] /\ c[2] < chip.cols
         /\ chip.yid \in Nat /\ chip.xid \in Nat /\ chip.yid + chip.rows <= 64 /\ chip.xid + chip.cols <= 64
         /\ chip.rows \in Nat \ {0} /\ chip.cols \in Nat \ {0}
         /\ Tables!tid(c) \in Nat \ {0} /\ (Tables!tid(c) = Tables!tid(d) => c = d)
<1>1. /\ chip.yid \in Nat /\ chip.xid \in Nat /\ chip.yid + chip.rows <= 64 /\ chip.xid + chip.cols <= 64
      /\ chip.rows \in Nat \ {0} /\ chip.cols \in Nat \ {0}
  BY DEF Tables!IsChip
<1>2. /\ c \in Int \X Int /\ 0 <= c[1] /\ c[1] < chip.rows /\ 0 <= c[2] /\ c[2] < chip.cols /\ c[1] \in Int /\ c[2] \in Int
      /\ d \in Int \X Int /\ 0 <= d[1] /\ d[1] < chip.rows /\ 0 <= d[2] /\ d[2] < chip.cols /\ d[1] \in Int /\ d[2] \in Int
  BY <1>1 DEF Tables!OnChip
<1>3. Tables!tid(c) \in Nat \ {0}
  BY <1>1, <1>2 DEF Tables!tid
<1>4. ASSUME Tables!tid(c) = Tables!tid(d) PROVE c = d
  <2>1. c[1] = d[1] /\ c[2] = d[2]
    BY <1>1, <1>2, <1>4 DEF Tables!tid
  <2>. QED
    BY <1>2, <2>1
<1>. QED
  BY <1>1, <1>2, <1>3, <1>4

\* Before the first request every core is idle.
LEMMA TablesStart == ASSUME Tables!Init PROVE Tables!TablesInv
<1>1. /\ chip \in Chips /\ core2Tid = [c \in Tables!OnChip |-> Tables!tid(c)]
      /\ threads = {core2Tid[c] : c \in Tables!OnChip}
      /\ members = [p \in {Tables!IdlePid} |-> threads] /\ owner = [t \in threads |-> Tables!IdlePid]
      /\ attached \in {{Tables!IdlePid}, {}} /\ fresh = FALSE
  BY DEF Tables!Init
<1>2. Tables!IsChip(chip)
  BY <1>1, ChipsAssumption
<1>3. threads = Tables!Tids
  BY <1>1 DEF Tables!Tids
<1>4. Tables!Pid = {1} /\ Tables!Cardinality(Tables!Pid) = 1 /\ {1} = 1 .. 1
  <2>1. Tables!Pid = {1} /\ {1} = 1 .. 1
    BY <1>1 DEF Tables!Pid, Tables!IdlePid
  <2>2. Cardinality({1}) = 1
    BY FS_Singleton
  <2>. QED
    BY <2>1, <2>2, SameCount
<1>5. Tables!Cores
  BY <1>1, <1>2, <1>3 DEF Tables!Cores
<1>6. Tables!Owned
  BY <1>1, <1>3, <1>4 DEF Tables!Owned, Tables!IdlePid
<1>. QED
  BY <1>1, <1>5, <1>6 DEF Tables!TablesInv, Tables!Told

\* The cores of a new workgroup leave the idle process.
LEMMA MadeRight == ASSUME Tables!TablesInv, NEW q, Tables!WorkgroupMade(q) PROVE Tables!TablesInv'
<1>. DEFINE S == {core2Tid[c] : c \in Tables!Cells(q)}  N == Tables!NextPid
<1>1. /\ \A c \in Tables!Cells(q) : Tables!Idle(c)
      /\ members' = [p \in Tables!Pid \cup {N} |-> CASE p = N -> S
                                                     [] p = Tables!IdlePid -> members[p] \ S
                                                     [] OTHER -> members[p]]
      /\ owner' = [t \in DOMAIN owner |-> IF t \in S THEN N ELSE owner[t]]
      /\ fresh' = FALSE /\ UNCHANGED <<chip, core2Tid, threads, attached>>
  BY DEF Tables!WorkgroupMade, Tables!Stale
<1>2. Tables!Owned /\ Tables!Cores
  BY DEF Tables!TablesInv
<1>3. S \subseteq members[Tables!IdlePid] /\ Tables!IdlePid \in Tables!Pid /\ members[Tables!IdlePid] \subseteq Tables!Tids
  BY <1>1, <1>2 DEF Tables!Idle, Tables!Owned
<1>4. /\ N \in Nat /\ N \notin Tables!Pid
      /\ \A P : P = Tables!Pid \cup {N} => Tables!Cardinality(P) = N /\ P = 1 .. N
  BY <1>2, NextPidRight
<1>. HIDE DEF S, N
<1>5. Tables!Pid' = Tables!Pid \cup {N} /\ Tables!Tids' = Tables!Tids
  BY <1>1 DEF Tables!Pid, Tables!Tids, Tables!OnChip, Tables!tid
<1>6. /\ Tables!Cardinality(Tables!Pid') \in Nat /\ Tables!Pid' = 1 .. Tables!Cardinality(Tables!Pid')
      /\ Tables!IdlePid \in Tables!Pid' /\ attached' \subseteq Tables!Pid'
  BY <1>1, <1>2, <1>3, <1>4, <1>5 DEF Tables!Owned
<1>7. DOMAIN owner' = Tables!Tids' /\ \A t \in Tables!Tids' : owner'[t] \in Tables!Pid'
  BY <1>1, <1>2, <1>5 DEF Tables!Owned
<1>8. ASSUME NEW p \in Tables!Pid' PROVE members'[p] \subseteq Tables!Tids' /\ \A t \in Tables!Tids' : t \in members'[p] <=> owner'[t] = p
  <2>1. \A t \in Tables!Tids : owner'[t] = IF t \in S THEN N ELSE owner[t]
    BY <1>1, <1>2 DEF Tables!Owned
  <2>2. \A t \in Tables!Tids : owner[t] \in Tables!Pid /\ (t \in S => owner[t] = Tables!IdlePid)
    BY <1>2, <1>3 DEF Tables!Owned
  <2>3. CASE p = N
    BY <1>1, <1>3, <1>4, <1>5, <2>1, <2>2, <2>3
  <2>4. CASE p = Tables!IdlePid
    <3>1. members'[p] = members[p] \ S
      BY <1>1, <1>3, <1>4, <2>4
    <3>. QED
      BY <1>2, <1>3, <1>4, <1>5, <2>1, <2>2, <2>4, <3>1 DEF Tables!Owned
  <2>5. CASE p # N /\ p # Tables!IdlePid
    <3>1. members'[p] = members[p] /\ p \in Tables!Pid
      BY <1>1, <1>5, <2>5
    <3>. QED
      BY <1>2, <1>5, <2>1, <2>2, <2>5, <3>1 DEF Tables!Owned
  <2>. QED
    BY <2>3, <2>4, <2>5
<1>9. Tables!Owned'
  BY <1>6, <1>7, <1>8 DEF Tables!Owned
<1>10. Tables!Cores'
  BY <1>1, <1>2, <1>5 DEF Tables!Cores, Tables!OnChip, Tables!tid
<1>. QED
  BY <1>1, <1>9, <1>10 DEF Tables!TablesInv, Tables!Told

\* A workgroup that was refused half way leaves at most a core that does not exist.
LEMMA HalfWayRight == ASSUME Tables!TablesInv, NEW q, Tables!WorkgroupHalfWay(q) PROVE Tables!TablesInv'
<1>. DEFINE c == Tables!FirstBad(q)
<1>1. /\ core2Tid' = [d \in DOMAIN core2Tid \cup {c} |-> IF d \in DOMAIN core2Tid THEN core2Tid[d] ELSE Tables!NoThread]
      /\ threads' = threads \cup {core2Tid'[c]}
      /\ UNCHANGED <<chip, members, owner, attached, listed, fresh>>
  BY DEF Tables!WorkgroupHalfWay, Tables!LookedUp
<1>. HIDE DEF c
<1>2. Tables!Owned /\ Tables!Cores /\ Tables!Told
  BY DEF Tables!TablesInv
<1>3. Tables!OnChip' = Tables!OnChip /\ Tables!Tids' = Tables!Tids /\ \A d : Tables!tid(d)' = Tables!tid(d)
  BY <1>1 DEF Tables!OnChip, Tables!Tids, Tables!tid
<1>4. core2Tid'[c] \in Tables!Tids \cup {Tables!NoThread}
  BY <1>1, <1>2 DEF Tables!Cores, Tables!Tids
<1>5. Tables!Cores'
  <2>1. \A d \in Tables!OnChip : d \in DOMAIN core2Tid' /\ core2Tid'[d] = Tables!tid(d)
    BY <1>1, <1>2 DEF Tables!Cores
  <2>2. \A d \in DOMAIN core2Tid' \ Tables!OnChip : core2Tid'[d] = Tables!NoThread /\ Tables!NoThread \in threads'
    BY <1>1, <1>2 DEF Tables!Cores
  <2>3. Tables!IsChip(chip') /\ Tables!Tids \subseteq threads' /\ threads' \subseteq Tables!Tids \cup {Tables!NoThread}
    BY <1>1, <1>2, <1>4 DEF Tables!Cores
  <2>. QED
    BY <1>3, <2>1, <2>2, <2>3 DEF Tables!Cores, Tables!tid
<1>6. Tables!Owned'
  BY <1>1, <1>2, <1>3 DEF Tables!Owned, Tables!Pid
<1>7. Tables!Told'
  <2>1. \A p \in attached : members[p] \subseteq threads
    BY <1>2 DEF Tables!Owned, Tables!Cores
  <2>2. \A pt \in attached \X threads' : pt[2] \in members[pt[1]] => pt \in attached \X threads
    BY <2>1
  <2>3. {pt \in attached \X threads' : pt[2] \in members[pt[1]]} = {pt \in attached \X threads : pt[2] \in members[pt[1]]}
    BY <1>1, <2>2
  <2>. QED
    BY <1>1, <1>2, <2>3 DEF Tables!Told, Tables!rspMakeTransferThreadsReply
<1>. QED
  BY <1>5, <1>6, <1>7 DEF Tables!TablesInv

\* Requests that leave the processes alone.
LEMMA AskedRight ==
  ASSUME Tables!TablesInv, UNCHANGED <<chip, core2Tid, threads, members, owner>>, attached' \subseteq Tables!Pid,
         \/ fresh' = FALSE
         \/ UNCHANGED <<attached, listed, fresh>>
         \/ UNCHANGED attached /\ listed' = Tables!rspMakeTransferThreadsReply
  PROVE  Tables!TablesInv'
<1>1. Tables!Cores'
  BY DEF Tables!TablesInv, Tables!Cores, Tables!OnChip, Tables!tid, Tables!Tids
<1>2. Tables!Owned'
  BY DEF Tables!TablesInv, Tables!Owned, Tables!OnChip, Tables!tid, Tables!Tids, Tables!Pid
<1>3. Tables!Told'
  BY DEF Tables!TablesInv, Tables!Told, Tables!rspMakeTransferThreadsReply
<1>. QED
  BY <1>1, <1>2, <1>3 DEF Tables!TablesInv

\* One request of the client.
LEMMA TablesStep == ASSUME Tables!TablesInv, Tables!Next PROVE Tables!TablesInv'
<1>1. attached \subseteq Tables!Pid
  BY DEF Tables!TablesInv, Tables!Owned
<1>2. CASE \E q \in Rectangles : Tables!WorkgroupMade(q) \/ Tables!WorkgroupHalfWay(q)
  BY <1>2, MadeRight, HalfWayRight
<1>3. CASE \E p \in Tables!Pid : Tables!rspAttach(p) \/ Tables!rspDetach(p)
  BY <1>1, <1>3, AskedRight DEF Tables!rspAttach, Tables!rspDetach, Tables!Dies, Tables!TablesSame, Tables!Stale, Tables!tables
<1>4. ASSUME NEW X, Tables!Choose(X) PROVE Tables!TablesInv'
  BY <1>1, <1>4, AskedRight DEF Tables!Choose, Tables!Dies, Tables!TablesSame, Tables!FreshSame, Tables!tables
<1>5. ASSUME NEW str, Tables!rspSetThread(str) PROVE Tables!TablesInv'
  BY <1>4, <1>5 DEF Tables!rspSetThread
<1>6. CASE Tables!QueryCurrent
  <2>1. Tables!Dies \/ Tables!Choose(Tables!firstThread)
    BY <1>6 DEF Tables!QueryCurrent
  <2>2. Tables!Dies => UNCHANGED <<chip, core2Tid, threads, members, owner, attached, listed, fresh>>
    BY DEF Tables!Dies, Tables!tables
  <2>. QED
    BY <1>1, <1>4, <2>1, <2>2, AskedRight
<1>7. CASE Tables!ListThreads
  BY <1>1, <1>7, AskedRight DEF Tables!ListThreads, Tables!TablesSame, Tables!tables
<1>. QED
  BY <1>2, <1>3, <1>5, <1>6, <1>7 DEF Tables!Next

\* Taking an absolute id apart gives its core.
LEMMA CoreIdRight ==
  ASSUME Tables!IsChip(chip), NEW c \in Tables!OnChip
  PROVE  /\ Tables!CoreId(Tables!AbsId(c)) = <<chip.yid + c[1], chip.xid + c[2]>>
         /\ Tables!CommandCoreId(c) = c
<1>1. \A d \in Tables!OnChip : Tables!CoreId(Tables!AbsId(d)) = <<chip.yid + d[1], chip.xid + d[2]>>
  <2>. TAKE d \in Tables!OnChip
  <2>. DEFINE y == chip.yid + d[1]  x == chip.xid + d[2]
  <2>1. y \in 0 .. 63 /\ x \in 0 .. 63
    BY TidsApart, SMTT(30)
  <2>2. Tables!AbsId(d) = y * 64 + (chip.xid + d[2]) /\ y * 64 + chip.xid + d[2] = y * 64 + x
    BY TidsApart DEF Tables!AbsId
  <2>. HIDE DEF x, y
  <2>3. ((y * 64 + x) \div 64) % 256 = y /\ (y * 64 + x) % 64 = x
    BY <2>1
  <2>4. Tables!CoreId(y * 64 + x) = <<y, x>>
    BY <2>3 DEF Tables!CoreId
  <2>. QED
    BY <2>2, <2>4 DEF x, y
<1>2. ASSUME NEW d \in Tables!OnChip, Tables!CoreId(Tables!AbsId(d)) = Tables!CoreId(Tables!AbsId(c)) PROVE d = c
  <2>1. chip.yid + d[1] = chip.yid + c[1] /\ chip.xid + d[2] = chip.xid + c[2]
    BY <1>1, <1>2
  <2>. QED
    BY <2>1, TidsApart
<1>3. Tables!CommandCoreId(c) = Tables!abs2rel(Tables!AbsId(c))
  BY DEF Tables!CommandCoreId, Tables!AbsId
<1>4. Tables!abs2rel(Tables!AbsId(c)) = c
  BY <1>2 DEF Tables!abs2rel
<1>. QED
  BY <1>1, <1>3, <1>4

\* On a square chip traffic goes out of a core towards each of its neighbours.
LEMMA TrafficRight ==
  ASSUME Tables!IsChip(chip), chip.rows = chip.cols, NEW c \in Tables!OnChip
  PROVE  Tables!Cardinality(Tables!TrafficOut(c)) =
           Tables!Cardinality({d \in Tables!OnChip : (d[1] - c[1]) * (d[1] - c[1]) + (d[2] - c[2]) * (d[2] - c[2]) = 1})
<1>. DEFINE n == chip.rows  a == c[1]  b == c[2]
            Near == {d \in Tables!OnChip : (d[1] - c[1]) * (d[1] - c[1]) + (d[2] - c[2]) * (d[2] - c[2]) = 1}
            To(k) == CASE k = "north" -> <<a - 1, b>> [] k = "south" -> <<a + 1, b>>
                       [] k = "east" -> <<a, b + 1>> [] OTHER -> <<a, b - 1>>
            Out == Tables!TrafficOut(c)
            f == [k \in Out |-> To(k)]
<1>1. a \in 0 .. n - 1 /\ b \in 0 .. n - 1 /\ n \in Nat \ {0} /\ Tables!OnChip = (0 .. n - 1) \X (0 .. n - 1) /\ c = <<a, b>>
  BY DEF Tables!OnChip, Tables!IsChip
<1>2. Out = {k \in {"north", "south", "east", "west"} :
               CASE k = "north" -> a > 0 [] k = "south" -> a < n - 1 [] k = "east" -> b < n - 1 [] k = "west" -> b > 0}
  BY DEF Tables!TrafficOut, Tables!NumRows, Tables!NumCols
<1>. HIDE DEF n, a, b, Out
<1>3. ASSUME NEW k \in Out PROVE To(k) \in Near
  <2>1. CASE k = "north"
    BY <1>1, <1>2, <2>1 DEF a, b
  <2>2. CASE k = "south"
    BY <1>1, <1>2, <2>2 DEF a, b
  <2>3. CASE k = "east"
    BY <1>1, <1>2, <2>3 DEF a, b
  <2>4. CASE k = "west"
    BY <1>1, <1>2, <2>4 DEF a, b
  <2>. QED
    BY <1>2, <2>1, <2>2, <2>3, <2>4
<1>4. ASSUME NEW k \in Out, NEW l \in Out, To(k) = To(l) PROVE k = l
  BY <1>1, <1>2, <1>4
<1>5. ASSUME NEW d \in Near PROVE \E k \in Out : To(k) = d
  <2>1. d \in (0 .. n - 1) \X (0 .. n - 1) /\ (d[1] - a) * (d[1] - a) + (d[2] - b) * (d[2] - b) = 1
    BY <1>1 DEF a, b
  <2>. DEFINE x == d[1] - a  y == d[2] - b
  <2>2. x \in Int /\ y \in Int /\ x * x + y * y = 1 /\ d[1] \in 0 .. n - 1 /\ d[2] \in 0 .. n - 1 /\ d = <<d[1], d[2]>>
    BY <1>1, <2>1
  <2>3. d[1] = a + x /\ d[2] = b + y
    BY <1>1, <2>2
  <2>. HIDE DEF x, y
  <2>4. \A z \in Int : z * z >= 0 /\ (z \notin {-1, 0, 1} => z * z > 1)
    <3>1. ASSUME NEW z \in Int, z >= 2 PROVE z * z > 1
      BY <3>1
    <3>2. ASSUME NEW z \in Int, z <= -2 PROVE z * z > 1
      BY <3>2
    <3>3. ASSUME NEW z \in {-1, 0, 1} PROVE z * z >= 0
      OBVIOUS
    <3>. QED
      BY <3>1, <3>2, <3>3
  <2>5. x \in {-1, 0, 1} /\ y \in {-1, 0, 1}
    <3>1. x * x \in Int /\ y * y \in Int /\ x * x + y * y = 1
      BY <2>2
    <3>2. /\ x * x >= 0 /\ (x \notin {-1, 0, 1} => x * x > 1)
          /\ y * y >= 0 /\ (y \notin {-1, 0, 1} => y * y > 1)
      BY <2>2, <2>4
    <3>3. \A p, q \in Int : p + q = 1 /\ p >= 0 /\ q >= 0 => ~(p > 1) /\ ~(q > 1)
      OBVIOUS
    <3>4. ~(x * x > 1) /\ ~(y * y > 1)
      BY <3>1, <3>2, <3>3
    <3>. QED
      BY <3>2, <3>4
  <2>6. (x = -1 /\ y = 0) \/ (x = 1 /\ y = 0) \/ (x = 0 /\ y = 1) \/ (x = 0 /\ y = -1)
    <3>1. \A p, q \in {-1, 0, 1} : p * p + q * q = 1 =>
            (p = -1 /\ q = 0) \/ (p = 1 /\ q = 0) \/ (p = 0 /\ q = 1) \/ (p = 0 /\ q = -1)
      OBVIOUS
    <3>. QED
      BY <2>2, <2>5, <3>1
  <2>7. CASE x = -1 /\ y = 0
    <3>1. d = <<a - 1, b>>
      BY <1>1, <2>2, <2>3, <2>7
    <3>2. "north" \in Out
      BY <1>1, <1>2, <2>2, <3>1
    <3>. QED
      BY <3>1, <3>2
  <2>8. CASE x = 1 /\ y = 0
    <3>1. d = <<a + 1, b>>
      BY <1>1, <2>2, <2>3, <2>8
    <3>2. "south" \in Out
      BY <1>1, <1>2, <2>2, <3>1
    <3>. QED
      BY <3>1, <3>2
  <2>9. CASE x = 0 /\ y = 1
    <3>1. d = <<a, b + 1>>
      BY <1>1, <2>2, <2>3, <2>9
    <3>2. "east" \in Out
      BY <1>1, <1>2, <2>2, <3>1
    <3>. QED
      BY <3>1, <3>2
  <2>10. CASE x = 0 /\ y = -1
    <3>1. d = <<a, b - 1>>
      BY <1>1, <2>2, <2>3, <2>10
    <3>2. "west" \in Out
      BY <1>1, <1>2, <2>2, <3>1
    <3>. QED
      BY <3>1, <3>2
  <2>. QED
    BY <2>6, <2>7, <2>8, <2>9, <2>10
<1>. HIDE DEF Near, To
<1>6. f \in Bijection(Out, Near)
  BY <1>3, <1>4, <1>5, Zenon DEF Bijection, Injection, Surjection, IsInjective
<1>7. IsFiniteSet(Out)
  <2>1. IsFiniteSet({"north", "south", "east", "west"})
    <3>1. IsFiniteSet({"north"} \cup {"south"}) /\ IsFiniteSet({"east"} \cup {"west"})
      BY FS_Singleton, FS_AddElement
    <3>2. IsFiniteSet(({"north"} \cup {"south"}) \cup ({"east"} \cup {"west"}))
      BY <3>1, FS_Union
    <3>3. {"north", "south", "east", "west"} = ({"north"} \cup {"south"}) \cup ({"east"} \cup {"west"})
      OBVIOUS
    <3>. QED
      BY <3>2, <3>3
  <2>. QED
    BY <1>2, <2>1, FS_Subset
<1>8. Cardinality(Out) = Cardinality(Near)
  BY <1>6, <1>7, FS_Bijection DEF ExistsBijection
<1>. QED
  BY <1>8, SameCount DEF Out, Near

\* The tables of threads, processes and cores fit each other, whatever requests were refused half way
\* (rspCmdWorkgroup, initMaps), and the list the client has is the tables' until they change.
THEOREM TablesInvariant == MCSpec => [](part = "tables" => Tables!TablesInv)
<1>1. MCInit => (part = "tables" => Tables!TablesInv)
  BY TablesStart DEF MCInit
<1>2. ASSUME part = "tables" => Tables!TablesInv, [MCNext]_<<part, vars, tableVars, runVars, wireVars, lineVars>>
      PROVE  (part = "tables" => Tables!TablesInv)'
  <2>. SUFFICES ASSUME part = "tables", Tables!TablesInv, part' = part PROVE Tables!TablesInv'
    BY <1>2 DEF MCNext
  <2>1. CASE UNCHANGED tableVars
    BY <2>1, AskedRight DEF tableVars, Tables!TablesInv, Tables!Owned
  <2>2. CASE Tables!Next
    BY <2>2, TablesStep
  <2>. QED
    BY <1>2, <2>1, <2>2 DEF MCNext
<1>. QED
  BY <1>1, <1>2, PTL DEF MCSpec

\* Every thread is in the one process it names; the client can select and ask for exactly the threads
\* it was told; every core is known by one thread and reads as the id the maps give it, and on a square
\* chip the lists name its cores and traffic goes between neighbours.
THEOREM TablesAreRight == MCSpec => []TablesRight
<1>1. ASSUME Tables!TablesInv PROVE Tables!OneProcess
  <2>1. \A t \in DOMAIN owner : {p \in Tables!Pid : t \in members[p]} = {owner[t]}
    BY <1>1 DEF Tables!TablesInv, Tables!Owned
  <2>. QED
    BY <2>1 DEF Tables!OneProcess
<1>2. ASSUME Tables!TablesInv PROVE Tables!ListedAlive
  <2>. SUFFICES ASSUME fresh, NEW p \in Tables!Pid, NEW t \in threads
                PROVE  <<p, t>> \in listed <=> Tables!rspIsThreadAlive(p, t) = "OK"
    BY DEF Tables!ListedAlive
  <2>1. <<p, t>> \in listed <=> p \in attached /\ t \in members[p]
    BY <1>2 DEF Tables!TablesInv, Tables!Told, Tables!rspMakeTransferThreadsReply
  <2>2. t \in members[p] => t \in Tables!Tids
    BY <1>2 DEF Tables!TablesInv, Tables!Owned
  <2>3. (t \in Tables!Tids => t \in Nat \ {0}) /\ t \in Int
    BY <1>2, TidsApart DEF Tables!TablesInv, Tables!Cores, Tables!Tids, Tables!NoThread
  <2>4. Tables!rspIsThreadAlive(p, t) = "OK" <=> t > 0 /\ p \in attached /\ t \in members[p]
    BY <2>3 DEF Tables!rspIsThreadAlive
  <2>. QED
    BY <2>1, <2>2, <2>3, <2>4
<1>3. ASSUME Tables!TablesInv PROVE Tables!CoresTold
  <2>1. Tables!IsChip(chip) /\ Tables!Cores
    BY <1>3 DEF Tables!TablesInv, Tables!Cores
  <2>2. \A c \in Tables!OnChip : Tables!CommandCoreId(c) = c /\ \A d \in Tables!OnChip : core2Tid[c] = core2Tid[d] => c = d
    BY <2>1, CoreIdRight, TidsApart DEF Tables!Cores
  <2>3. ASSUME chip.rows = chip.cols, Tables!NoThread \notin threads
        PROVE  /\ DOMAIN core2Tid = Tables!OnChip
               /\ \A c \in Tables!OnChip : Tables!rspMakeOsDataTrafficReply[c] = Tables!TrafficOut(c)
    BY <2>1, <2>3 DEF Tables!Cores, Tables!rspMakeOsDataTrafficReply
  <2>. QED
    BY <2>1, <2>2, <2>3, TrafficRight DEF Tables!CoresTold, Tables!rspMakeOsDataLoadReply
<1>4. (part = "tables" => Tables!TablesInv) => TablesRight
  BY <1>1, <1>2, <1>3 DEF TablesRight, InPart
<1>. QED
  BY <1>4, TablesInvariant, PTL

-----------------------------------------------------------------------------
(* Breakpoints in memory *)

\* The id of a core is its own (initMaps).
LEMMA IdsDiffer ==
  /\ \A t \in Threads : AbsId(t) \in Nat
  /\ \A t, u \in Threads : AbsId(t) = AbsId(u) => t = u
<1>1. Cols \in Nat \ {0} /\ Rows \in Nat \ {0} /\ FirstRow \in Nat /\ FirstCol \in Nat /\ FirstCol + Cols <= 64
  BY PlatformAssumption
<1>2. \A t \in Threads : t - 1 \in Nat
  <2>1. Rows * Cols \in Int
    BY <1>1
  <2>. QED
    BY <2>1 DEF Threads
<1>3. \A x \in Nat : x = Cols * (x \div Cols) + (x % Cols) /\ x \div Cols \in Nat /\ x % Cols \in 0 .. Cols - 1
  BY <1>1
<1>4. ASSUME NEW t \in Threads, NEW u \in Threads, AbsId(t) = AbsId(u) PROVE t = u
  <2>1. PICK q \in Nat, r \in 0 .. Cols - 1 : t - 1 = Cols * q + r /\ q = (t - 1) \div Cols /\ r = (t - 1) % Cols
    BY <1>2, <1>3
  <2>2. PICK p \in Nat, s \in 0 .. Cols - 1 : u - 1 = Cols * p + s /\ p = (u - 1) \div Cols /\ s = (u - 1) % Cols
    BY <1>2, <1>3
  <2>3. (FirstRow + q) * 64 + FirstCol + r = (FirstRow + p) * 64 + FirstCol + s
    BY <1>4, <2>1, <2>2 DEF AbsId
  <2>4. q = p /\ r = s
    <3>1. r \in 0 .. 63 /\ s \in 0 .. 63
      BY <1>1
    <3>2. 64 * q + r = 64 * p + s
      BY <1>1, <2>3, <3>1
    <3>. QED
      BY <3>1, <3>2
  <2>5. t - 1 = u - 1
    BY <2>1, <2>2, <2>4
  <2>6. t \in Int /\ u \in Int
    BY <1>1 DEF Threads
  <2>. QED
    BY <2>5, <2>6
<1>5. \A t \in Threads : AbsId(t) \in Nat
  <2>. TAKE t \in Threads
  <2>1. PICK q \in Nat, r \in 0 .. Cols - 1 : q = (t - 1) \div Cols /\ r = (t - 1) % Cols
    BY <1>2, <1>3
  <2>2. (FirstRow + q) * 64 + FirstCol + r \in Nat
    BY <1>1, <2>1
  <2>. QED
    BY <2>1, <2>2 DEF AbsId
<1>. QED
  BY <1>4, <1>5

\* What lies before the next multiple of c.
LEMMA BlocksApart ==
  ASSUME NEW c \in Nat, NEW x \in Nat, NEW y \in Nat
  PROVE  \A a, b \in 0 .. c - 1 : x * c + a = y * c + b => x = y /\ a = b
<1>. SUFFICES ASSUME NEW a \in 0 .. c - 1, NEW b \in 0 .. c - 1, x * c + a = y * c + b
              PROVE  x = y /\ a = b
  OBVIOUS
<1>1. ASSUME NEW p \in Nat, NEW q \in Nat, p < q PROVE p * c + c <= q * c
  <2>1. PICK d \in Nat : q = p + 1 + d
    BY <1>1, q - p - 1 \in Nat
  <2>2. q * c = p * c + c + d * c /\ d * c \in Nat
    BY <2>1
  <2>. QED
    BY <2>2
<1>2. x * c \in Nat /\ y * c \in Nat
  OBVIOUS
<1>3. ~(x < y) /\ ~(y < x)
  BY <1>1, <1>2
<1>4. x = y
  BY <1>3
<1>. QED
  BY <1>2, <1>4

\* Two addresses name one byte only if they are the same, and of the same core if they are local (convertAddress).
LEMMA BytesDiffer ==
  ASSUME NEW t \in Threads, NEW u \in Threads, NEW a \in Addresses, NEW b \in Addresses, Full(t, a) = Full(u, b)
  PROVE  a = b /\ (isLocalAddr(a) => t = u)
<1>1. a \in Nat /\ b \in Nat /\ CoreSpace \in Nat
  BY AddressesAssumption, SizesAssumption
<1>2. AbsId(t) \in Nat /\ AbsId(u) \in Nat
  BY IdsDiffer
<1>3. ASSUME NEW v \in Threads, NEW w \in Threads, NEW x \in Addresses, NEW y \in Addresses, isLocalAddr(x), ~isLocalAddr(y)
      PROVE  Full(v, x) # Full(w, y)
  <2>1. y \notin AbsId(v) * CoreSpace .. (AbsId(v) + 1) * CoreSpace - 1
    BY <1>3, AddressesAssumption
  <2>2. AbsId(v) \in Nat /\ x \in Nat /\ y \in Nat /\ x < CoreSpace
    BY <1>3, IdsDiffer, AddressesAssumption DEF isLocalAddr
  <2>3. (AbsId(v) + 1) * CoreSpace = AbsId(v) * CoreSpace + CoreSpace /\ AbsId(v) * CoreSpace \in Nat
    BY <2>2, <1>1
  <2>4. y # AbsId(v) * CoreSpace + x
    BY <2>1, <2>2, <2>3, <1>1
  <2>. QED
    BY <1>3, <2>4 DEF Full, convertAddress
<1>4. isLocalAddr(a) <=> isLocalAddr(b)
  BY <1>3
<1>5. CASE ~isLocalAddr(a)
  BY <1>4, <1>5 DEF Full, convertAddress
<1>6. CASE isLocalAddr(a)
  <2>1. AbsId(t) * CoreSpace + a = AbsId(u) * CoreSpace + b /\ a < CoreSpace /\ b < CoreSpace
    BY <1>4, <1>6 DEF Full, convertAddress, isLocalAddr
  <2>2. AbsId(t) = AbsId(u) /\ a = b
    <3>1. \A x, y \in 0 .. CoreSpace - 1 : AbsId(t) * CoreSpace + x = AbsId(u) * CoreSpace + y => AbsId(t) = AbsId(u) /\ x = y
      BY <1>1, <1>2, BlocksApart, ZenonT(30)
    <3>2. a \in 0 .. CoreSpace - 1 /\ b \in 0 .. CoreSpace - 1
      BY <2>1, <1>1
    <3>. QED
      BY <2>1, <3>1, <3>2
  <2>. QED
    BY <2>2, IdsDiffer
<1>. QED
  BY <1>5, <1>6

\* The bytes of an instruction lie side by side, the first at an even address.
LEMMA CellsRight ==
  ASSUME NEW t \in Threads, NEW a \in Codes
  PROVE  /\ Full(t, a) \in Nat /\ Full(t, a) % 2 = 0 /\ {a, a + 1} \subseteq Addresses
         /\ (isLocalAddr(a) <=> isLocalAddr(a + 1)) /\ Full(t, a + 1) = Full(t, a) + 1
         /\ {Full(t, a), Full(t, a) + 1} \subseteq Bytes
<1>1. a \in Addresses /\ a + 1 \in Addresses /\ a \in Nat /\ a % 2 = 0
  BY AddressesAssumption DEF Codes
<1>2. CoreSpace \in Nat /\ CoreSpace % 2 = 0 /\ AbsId(t) \in Nat
  BY SizesAssumption, PlatformAssumption, IdsDiffer
<1>3. isLocalAddr(a) <=> isLocalAddr(a + 1)
  <2>1. a < CoreSpace <=> a + 1 < CoreSpace
    BY <1>1, <1>2
  <2>. QED
    BY <2>1 DEF isLocalAddr
<1>4. AbsId(t) * CoreSpace \in Nat /\ (AbsId(t) * CoreSpace) % 2 = 0
  <2>1. PICK h \in Nat : CoreSpace = 2 * h
    <3>1. CoreSpace \div 2 \in Nat /\ CoreSpace = 2 * (CoreSpace \div 2)
      BY <1>2
    <3>. QED
      BY <3>1
  <2>2. AbsId(t) * CoreSpace = 2 * (AbsId(t) * h) /\ AbsId(t) * h \in Nat
    BY <2>1, <1>2
  <2>3. \A x \in Nat : (2 * x) % 2 = 0 /\ 2 * x \in Nat
    OBVIOUS
  <2>. QED
    BY <2>2, <2>3
<1>5. Full(t, a) = (IF isLocalAddr(a) THEN AbsId(t) * CoreSpace + a ELSE a)
      /\ Full(t, a + 1) = (IF isLocalAddr(a + 1) THEN AbsId(t) * CoreSpace + (a + 1) ELSE a + 1)
  BY DEF Full, convertAddress
<1>6. Full(t, a) \in Nat /\ Full(t, a) % 2 = 0 /\ Full(t, a + 1) = Full(t, a) + 1
  <2>. DEFINE m == AbsId(t) * CoreSpace
  <2>1. m \in Nat /\ m % 2 = 0
    BY <1>4
  <2>2. (isLocalAddr(a) => Full(t, a) = m + a /\ Full(t, a + 1) = m + (a + 1))
        /\ (~isLocalAddr(a) => Full(t, a) = a /\ Full(t, a + 1) = a + 1)
    BY <1>3, <1>5
  <2>. HIDE DEF m
  <2>3. m + a \in Nat /\ (m + a) % 2 = 0 /\ m + (a + 1) = (m + a) + 1
    BY <2>1, <1>1
  <2>4. CASE isLocalAddr(a)
    BY <2>2, <2>3, <2>4
  <2>5. CASE ~isLocalAddr(a)
    BY <2>2, <2>5, <1>1
  <2>. QED
    BY <2>4, <2>5
<1>7. Full(t, a) \in Bytes /\ Full(t, a + 1) \in Bytes
  BY <1>1 DEF Bytes, Full
<1>. QED
  BY <1>1, <1>3, <1>6, <1>7

Keys == Codes \X Threads

\* The bytes of an entry, and which addresses of which threads name them.
LEMMA EntryRight ==
  ASSUME NEW k \in Keys, NEW i \in 1 .. 2
  PROVE  /\ k = <<k[1], k[2]>> /\ k[1] \in Codes /\ k[2] \in Threads /\ k[1] \in Nat
         /\ k[1] + i - 1 \in Addresses /\ Cell(k, i) = Full(k[2], k[1] + i - 1) /\ Cell(k, i) \in Bytes \cap Nat
         /\ Cell(k, i) \in Cells(k[2], k[1])
         /\ isLocalAddr(k[1] + i - 1) = isLocalAddr(k[1])
         /\ \A t \in Threads, x \in Addresses :
              Full(t, x) = Cell(k, i) => x = k[1] + i - 1 /\ (isLocalAddr(x) => t = k[2])
<1>1. k = <<k[1], k[2]>> /\ k[1] \in Codes /\ k[2] \in Threads
  BY DEF Keys
<1>2. k[1] \in Nat
  BY <1>1, AddressesAssumption DEF Codes
<1>3. /\ Full(k[2], k[1]) \in Nat /\ {k[1], k[1] + 1} \subseteq Addresses
      /\ (isLocalAddr(k[1]) <=> isLocalAddr(k[1] + 1)) /\ Full(k[2], k[1] + 1) = Full(k[2], k[1]) + 1
      /\ {Full(k[2], k[1]), Full(k[2], k[1]) + 1} \subseteq Bytes
  BY <1>1, CellsRight
<1>4. CASE i = 1
  <2>1. k[1] + i - 1 = k[1] /\ Cell(k, i) = Full(k[2], k[1])
    BY <1>2, <1>3, <1>4 DEF Cell
  <2>2. \A t \in Threads, x \in Addresses : Full(t, x) = Full(k[2], k[1]) => x = k[1] /\ (isLocalAddr(x) => t = k[2])
    BY <1>1, <1>3, BytesDiffer
  <2>. QED
    BY <1>1, <1>2, <1>3, <2>1, <2>2 DEF Cells, isLocalAddr
<1>5. CASE i = 2
  <2>1. k[1] + i - 1 = k[1] + 1 /\ Cell(k, i) = Full(k[2], k[1] + 1)
    BY <1>2, <1>3, <1>5 DEF Cell
  <2>2. \A t \in Threads, x \in Addresses : Full(t, x) = Full(k[2], k[1] + 1) => x = k[1] + 1 /\ (isLocalAddr(x) => t = k[2])
    BY <1>1, <1>3, BytesDiffer
  <2>. QED
    BY <1>1, <1>2, <1>3, <2>1, <2>2 DEF Cells, isLocalAddr
<1>. QED
  BY <1>4, <1>5

\* Entries of different addresses have no byte in common, and those of one local address neither.
LEMMA EntriesApart ==
  ASSUME NEW k \in Keys, NEW l \in Keys, NEW i \in 1 .. 2, NEW j \in 1 .. 2, Cell(k, i) = Cell(l, j)
  PROVE  i = j /\ k[1] = l[1] /\ Full(k[2], k[1]) = Full(l[2], l[1]) /\ (isLocalAddr(k[1]) => k = l)
<1>1. Full(k[2], k[1]) \in Nat /\ Full(k[2], k[1]) % 2 = 0 /\ Full(l[2], l[1]) \in Nat /\ Full(l[2], l[1]) % 2 = 0
  BY EntryRight, CellsRight
<1>2. Full(k[2], k[1]) + i - 1 = Full(l[2], l[1]) + j - 1
  BY DEF Cell
<1>3. i = j /\ Full(k[2], k[1]) = Full(l[2], l[1])
  <2>. DEFINE f == Full(k[2], k[1])  g == Full(l[2], l[1])
  <2>. HIDE DEF f, g
  <2>1. f \in Nat /\ f % 2 = 0 /\ g \in Nat /\ g % 2 = 0 /\ f + i - 1 = g + j - 1
    BY <1>1, <1>2 DEF f, g
  <2>2. i = j /\ f = g
    BY <2>1
  <2>. QED
    BY <2>2 DEF f, g
<1>4. k = <<k[1], k[2]>> /\ l = <<l[1], l[2]>> /\ k[1] \in Addresses /\ l[1] \in Addresses
      /\ k[2] \in Threads /\ l[2] \in Threads
  BY EntryRight DEF Codes
<1>5. k[1] = l[1] /\ (isLocalAddr(k[1]) => k[2] = l[2])
  BY <1>3, <1>4, BytesDiffer
<1>. QED
  BY <1>3, <1>4, <1>5

\* The entry over an address is one, and over a byte without any the memory is bare.
LEMMA OverRight ==
  ASSUME Known, NEW t \in Threads, NEW x \in Addresses
  PROVE  /\ \A k \in Over(t, x) : /\ k \in DOMAIN hash /\ k \in Keys /\ k = <<k[1], t>> /\ x - k[1] + 1 \in 1 .. 2
                                  /\ Cell(k, x - k[1] + 1) = Full(t, x)
         /\ \A k, l \in Over(t, x) : k = l
         /\ \A k \in DOMAIN hash, i \in 1 .. 2 : Cell(k, i) = Full(t, x) =>
              x = k[1] + i - 1 /\ (k[2] = t => k \in Over(t, x)) /\ (k[2] # t => ~isLocalAddr(x) /\ k \in Over(k[2], x))
<1>1. DOMAIN hash \subseteq Keys /\ x \in Nat
  BY AddressesAssumption DEF Known, Keys
<1>2. ASSUME NEW k \in Over(t, x)
      PROVE  /\ k \in DOMAIN hash /\ k \in Keys /\ k = <<k[1], t>> /\ x - k[1] + 1 \in 1 .. 2
             /\ Cell(k, x - k[1] + 1) = Full(t, x)
  <2>1. k \in DOMAIN hash /\ k \in Keys /\ k[2] = t /\ x \in {k[1], k[1] + 1}
    BY <1>1 DEF Over
  <2>2. k = <<k[1], t>> /\ k[1] \in Nat
    BY <2>1, EntryRight
  <2>3. x - k[1] + 1 \in 1 .. 2 /\ k[1] + (x - k[1] + 1) - 1 = x
    BY <2>1, <2>2, <1>1
  <2>4. Cell(k, x - k[1] + 1) = Full(k[2], k[1] + (x - k[1] + 1) - 1)
    BY <2>1, <2>3, EntryRight
  <2>. QED
    BY <2>1, <2>2, <2>3, <2>4
<1>3. \A k, l \in Over(t, x) : k = l
  <2>. SUFFICES ASSUME NEW k \in Over(t, x), NEW l \in Over(t, x) PROVE k = l
    OBVIOUS
  <2>1. k[1] = l[1]
    <3>1. Cell(k, x - k[1] + 1) = Cell(l, x - l[1] + 1) /\ k \in Keys /\ l \in Keys /\ x - k[1] + 1 \in 1 .. 2 /\ x - l[1] + 1 \in 1 .. 2
      BY <1>2
    <3>. QED
      BY <3>1, EntriesApart
  <2>. QED
    BY <2>1, <1>2
<1>4. ASSUME NEW k \in DOMAIN hash, NEW i \in 1 .. 2, Cell(k, i) = Full(t, x)
      PROVE  x = k[1] + i - 1 /\ (k[2] = t => k \in Over(t, x)) /\ (k[2] # t => ~isLocalAddr(x) /\ k \in Over(k[2], x))
  <2>1. x = k[1] + i - 1 /\ (isLocalAddr(x) => t = k[2]) /\ k[1] \in Nat
    BY <1>1, <1>4, EntryRight
  <2>2. x \in {k[1], k[1] + 1}
    BY <2>1
  <2>. QED
    BY <2>1, <2>2 DEF Over
<1>. QED
  BY <1>2, <1>3, <1>4

\* What the invariant says to the client.
LEMMA MemoryShown == ASSUME MInv PROVE Transparent /\ Armed /\ NothingLeft
<1>. USE DEF MInv
<1>1. DOMAIN hash \subseteq Keys
  BY DEF Known, Keys
<1>2. Transparent
  <2>. SUFFICES ASSUME NEW t \in Threads, NEW a \in Addresses, NEW n \in 1 .. MaxLen, a + n - 1 \in Addresses, NEW i \in 1 .. n,
                       Full(t, a + i - 1) \notin spoilt, ~Foreign(t, a + i - 1)
                PROVE  rspReadMem(t, a, n)[i] = truth[Full(t, a + i - 1)]
    BY DEF Transparent
  <2>1. a + i - 1 \in Addresses
    <3>1. a .. a + n - 1 \subseteq Addresses /\ a \in Nat /\ MaxLen \in Nat
      BY AddressesAssumption, PlatformAssumption
    <3>. QED
      BY <3>1
  <2>2. PICK x \in Addresses : x = a + i - 1
    BY <2>1
  <2>3. Hidden(t, x) = truth[Full(t, x)]
    <3>1. CASE Over(t, x) = {}
      <4>1. Bare(Full(t, x))
        <5>. SUFFICES ASSUME NEW k \in DOMAIN hash, NEW j \in 1 .. 2, Full(t, x) = Cell(k, j) PROVE FALSE
          BY DEF Bare
        <5>1. (k[2] = t => k \in Over(t, x)) /\ (k[2] # t => ~isLocalAddr(x) /\ k \in Over(k[2], x))
          BY OverRight
        <5>2. k[2] \in Threads
          BY <1>1, EntryRight
        <5>. QED
          BY <5>1, <5>2, <3>1, <2>2 DEF Foreign
      <4>2. Full(t, x) \in Bytes
        BY DEF Bytes, Full
      <4>. QED
        BY <4>1, <4>2, <3>1, <2>2 DEF Hidden, Plain
    <3>2. CASE Over(t, x) # {}
      <4>1. PICK k \in Over(t, x) : k = CHOOSE j \in Over(t, x) : TRUE
        BY <3>2
      <4>2. k \in DOMAIN hash /\ x - k[1] + 1 \in 1 .. 2 /\ Cell(k, x - k[1] + 1) = Full(t, x)
        BY OverRight
      <4>3. hash[k][x - k[1] + 1] = truth[Full(t, x)]
        BY <4>2, <2>2 DEF Covered
      <4>. QED
        BY <4>1, <4>3, <3>2 DEF Hidden
    <3>. QED
      BY <3>1, <3>2
  <2>. QED
    BY <2>2, <2>3 DEF rspReadMem
<1>3. Armed
  <2>. SUFFICES ASSUME NEW pl \in planted, NEW t \in Threads, <<pl[1], t>> \in DOMAIN hash, Cells(t, pl[1]) \cap spoilt = {}
                PROVE  readMem16(t, pl[1]) = BKPT
    BY DEF Armed
  <2>1. PICK k \in Keys : k = <<pl[1], t>> /\ k \in DOMAIN hash
    BY <1>1
  <2>2. k[1] = pl[1] /\ k[2] = t /\ Full(t, pl[1]) \in Nat
    BY <2>1, EntryRight, CellsRight
  <2>3. \A i \in 1 .. 2 : mem[Cell(k, i)] = BKPT[i] /\ Reaches(Full(t, pl[1]), 2)
    <3>1. \A i \in 1 .. 2 : Cell(k, i) \in Cells(t, pl[1])
      BY <2>2, EntryRight
    <3>. QED
      BY <2>1, <2>2, <3>1 DEF Covered
  <2>4. Cell(k, 1) = Full(t, pl[1]) /\ Cell(k, 2) = Full(t, pl[1]) + 1
    BY <2>2 DEF Cell
  <2>. QED
    BY <2>3, <2>4 DEF readMem16, BKPT
<1>4. NothingLeft
  <2>. SUFFICES ASSUME NEW t \in Threads, NEW x \in Addresses, \A pl \in planted : x \notin {pl[1], pl[1] + 1}, Full(t, x) \notin spoilt
                PROVE  mem[Full(t, x)] = truth[Full(t, x)]
    BY DEF NothingLeft
  <2>1. Bare(Full(t, x))
    <3>. SUFFICES ASSUME NEW k \in DOMAIN hash, NEW i \in 1 .. 2, Full(t, x) = Cell(k, i) PROVE FALSE
      BY DEF Bare
    <3>1. x = k[1] + i - 1 /\ k[1] \in Nat
      BY <1>1, OverRight, EntryRight
    <3>2. PICK pl \in planted : pl[1] = k[1]
      BY DEF Covered
    <3>. QED
      BY <3>1, <3>2
  <2>2. Full(t, x) \in Bytes
    BY DEF Bytes, Full
  <2>. QED
    BY <2>1, <2>2 DEF Plain
<1>. QED
  BY <1>2, <1>3, <1>4

\* An instruction put into a core changes its two bytes, and no others (insertBkptInstr, writeMem16).
LEMMA PokeRight ==
  ASSUME NEW m, NEW a \in Codes, NEW instr, DOMAIN instr \subseteq Threads,
         NEW k \in Keys, k[1] = a, k[2] \in DOMAIN instr, NEW i \in 1 .. 2, Reaches(Full(k[2], a), 2)
  PROVE  \E l \in Keys : /\ l[1] = a /\ l[2] \in DOMAIN instr /\ Cell(l, i) = Cell(k, i)
                         /\ Poke(m, a, instr)[Cell(k, i)] = instr[l[2]][i]
<1>. DEFINE b == Cell(k, i)
<1>1. b \in Bytes \cap Nat /\ b \in Cells(k[2], a) /\ b = Full(k[2], a) + i - 1
  BY EntryRight DEF Cell
<1>2. PICK u \in DOMAIN instr : b \in Cells(u, a) /\ u = CHOOSE w \in DOMAIN instr : b \in Cells(w, a)
  BY <1>1
<1>3. Full(u, a) \in Nat /\ Full(u, a) % 2 = 0 /\ Full(k[2], a) \in Nat /\ Full(k[2], a) % 2 = 0
  BY CellsRight
<1>4. Full(u, a) = Full(k[2], a)
  <2>. DEFINE f == Full(u, a)  g == Full(k[2], a)
  <2>1. b \in {f, f + 1} /\ b \in {g, g + 1}
    BY <1>1, <1>2 DEF Cells
  <2>. HIDE DEF f, g, b
  <2>2. f = g
    BY <2>1, <1>3 DEF f, g
  <2>. QED
    BY <2>2 DEF f, g
<1>5. b - Full(u, a) + 1 = i
  BY <1>1, <1>3, <1>4
<1>6. Poke(m, a, instr)[b] = instr[u][b - Full(u, a) + 1]
  BY <1>1, <1>2 DEF Poke
<1>7. PICK l \in Keys : l = <<a, u>>
  BY DEF Keys
<1>8. l[1] = a /\ l[2] = u /\ Cell(l, i) = Cell(k, i)
  BY <1>4, <1>7 DEF Cell
<1>. QED
  BY <1>5, <1>6, <1>8

\* Every other byte stays as it is.
LEMMA PokeKeeps ==
  ASSUME NEW m, NEW a \in Codes, NEW instr, NEW b \in Bytes, \A t \in DOMAIN instr : b \notin Cells(t, a)
  PROVE  Poke(m, a, instr)[b] = m[b]
BY DEF Poke

\* The 'Z' packet: the new entries know what they hide, or their bytes are lost track of.
LEMMA InsertRight ==
  ASSUME MInv, NEW a \in Codes, rspInsertMatchpoint(a)
  PROVE  MInv'
<1>. USE DEF MInv
<1>. DEFINE E == Entries(a)  A == Affected(a)
<1>1. DOMAIN hash \subseteq Keys /\ cur \in Threads /\ a \in Nat /\ a \in Addresses
  BY AddressesAssumption DEF Known, Keys, Codes
<1>2. A \subseteq Threads /\ E \subseteq Keys /\ \A k \in Keys : k \in E <=> k[1] = a /\ k[2] \in A
  BY <1>1 DEF Affected, Entries, Keys, Of
<1>3. DOMAIN hash' = DOMAIN hash \cup E /\ \A k \in DOMAIN hash' : hash'[k] = IF k \in E THEN readMem16(k[2], a) ELSE hash[k]
  BY DEF rspInsertMatchpoint, add
<1>4. mem' = Poke(mem, a, [t \in A |-> BKPT]) /\ planted' = planted \cup {<<a, Owner(a)>>}
      /\ truth' = truth /\ member' = member /\ cur' = cur /\ spoilt \subseteq spoilt'
  BY DEF rspInsertMatchpoint, insertBkptInstr
<1>14. /\ \A b \in Bytes : (\A t \in A : b \notin Cells(t, a)) => mem'[b] = mem[b]
       /\ \A k \in Keys, i \in 1 .. 2 : k[1] = a /\ k[2] \in A /\ Reaches(Full(k[2], a), 2) => mem'[Cell(k, i)] = BKPT[i]
  <2>1. PICK f : f = [t \in A |-> BKPT]
    OBVIOUS
  <2>2. DOMAIN f = A /\ DOMAIN f \subseteq Threads /\ (\A t \in A : f[t] = BKPT)
    BY <2>1, <1>2
  <2>3. mem' = Poke(mem, a, f)
    BY <2>1, <1>4
  <2>4. ASSUME NEW b \in Bytes, \A t \in DOMAIN f : b \notin Cells(t, a) PROVE mem'[b] = mem[b]
    BY <2>3, <2>4, PokeKeeps
  <2>5. ASSUME NEW k \in Keys, NEW i \in 1 .. 2, k[1] = a, k[2] \in A, Reaches(Full(k[2], a), 2)
        PROVE  mem'[Cell(k, i)] = BKPT[i]
    <3>1. PICK l \in Keys : l[2] \in DOMAIN f /\ Poke(mem, a, f)[Cell(k, i)] = f[l[2]][i]
      BY <2>2, <2>5, PokeRight
    <3>. QED
      BY <2>2, <2>3, <3>1
  <2>. QED
    BY <2>2, <2>4, <2>5
<1>5. ASSUME NEW u \in A, ~Reaches(Full(u, a), 2) \/ \E w \in Threads : <<a, w>> \in DOMAIN hash /\ Full(w, a) = Full(u, a)
      PROVE  Cells(u, a) \subseteq spoilt'
  BY <1>2, <1>5 DEF rspInsertMatchpoint
<1>6. DOMAIN hash' \subseteq Keys
  BY <1>1, <1>2, <1>3
<1>7. ASSUME NEW k \in E, NEW l \in DOMAIN hash, NEW i \in 1 .. 2, NEW j \in 1 .. 2, Cell(k, i) = Cell(l, j)
      PROVE  Cell(k, i) \in spoilt'
  <2>1. k \in Keys /\ l \in Keys /\ k[2] \in A /\ k[1] = a
    BY <1>1, <1>2
  <2>2. l[1] = a /\ Full(l[2], a) = Full(k[2], a)
    BY <1>7, <2>1, EntriesApart
  <2>3. l[2] \in Threads /\ l = <<l[1], l[2]>> /\ Cell(k, i) \in Cells(k[2], a)
    BY <2>1, EntryRight
  <2>4. <<a, l[2]>> \in DOMAIN hash
    BY <2>2, <2>3
  <2>. QED
    BY <2>1, <2>2, <2>3, <2>4, <1>5
<1>8. ASSUME NEW b \in Bytes, \A k \in E, i \in 1 .. 2 : b # Cell(k, i) PROVE mem'[b] = mem[b]
  <2>1. \A t \in A : b \notin Cells(t, a)
    <3>. SUFFICES ASSUME NEW t \in A, b \in Cells(t, a) PROVE FALSE
      OBVIOUS
    <3>1. <<a, t>> \in E /\ Full(t, a) \in Nat
      BY <1>2, CellsRight DEF Entries
    <3>2. b = Cell(<<a, t>>, 1) \/ b = Cell(<<a, t>>, 2)
      BY <3>1 DEF Cells, Cell
    <3>. QED
      BY <3>1, <3>2, <1>8
  <2>. QED
    BY <2>1, <1>14
<1>9. Known'
  BY <1>6, <1>4 DEF Known, Keys
<1>10. Covered'
  <2>. SUFFICES ASSUME NEW k \in DOMAIN hash', NEW i \in 1 .. 2, Cell(k, i) \notin spoilt'
                PROVE  /\ hash'[k][i] = truth'[Cell(k, i)] /\ mem'[Cell(k, i)] = BKPT[i] /\ Reaches(Full(k[2], k[1]), 2)
                       /\ \E pl \in planted' : pl[1] = k[1]
    BY DEF Covered
  <2>1. Cell(k, i) \notin spoilt /\ k \in Keys /\ k = <<k[1], k[2]>> /\ Cell(k, i) \in Bytes
    BY <1>4, <1>6, EntryRight
  <2>2. CASE k \in E
    <3>1. k[1] = a /\ k[2] \in A /\ Cell(k, i) \in Cells(k[2], a)
      BY <2>1, <2>2, <1>2, EntryRight
    <3>2. Reaches(Full(k[2], a), 2)
      BY <3>1, <1>5
    <3>3. Bare(Cell(k, i))
      BY <2>2, <1>7 DEF Bare
    <3>4. mem[Cell(k, i)] = truth[Cell(k, i)]
      BY <2>1, <3>3 DEF Plain
    <3>5. hash'[k][i] = mem[Cell(k, i)]
      <4>1. hash'[k] = <<mem[Full(k[2], a)], mem[Full(k[2], a) + 1]>>
        BY <1>3, <2>2, <3>2 DEF readMem16
      <4>2. Full(k[2], a) \in Nat
        BY <3>1, <1>2, CellsRight
      <4>3. (i = 1 => Cell(k, i) = Full(k[2], a)) /\ (i = 2 => Cell(k, i) = Full(k[2], a) + 1)
        BY <3>1, <4>2 DEF Cell
      <4>. QED
        BY <4>1, <4>3
    <3>6. mem'[Cell(k, i)] = BKPT[i]
      <4>. HIDE DEF A
      <4>. QED
        BY <1>14, <2>1, <3>1, <3>2
    <3>7. \E pl \in planted' : pl[1] = k[1]
      <4>1. <<a, Owner(a)>> \in planted' /\ <<a, Owner(a)>>[1] = k[1]
        BY <1>4, <3>1
      <4>. QED
        BY <4>1
    <3>8. hash'[k][i] = truth'[Cell(k, i)]
      BY <1>4, <3>4, <3>5
    <3>. QED
      BY <3>1, <3>2, <3>6, <3>7, <3>8
  <2>3. CASE k \notin E
    <3>1. k \in DOMAIN hash /\ hash'[k] = hash[k]
      BY <1>3, <2>3
    <3>2. mem'[Cell(k, i)] = mem[Cell(k, i)]
      BY <1>7, <1>8, <2>1, <3>1
    <3>. QED
      BY <1>4, <2>1, <3>1, <3>2 DEF Covered
  <2>. QED
    BY <2>2, <2>3
<1>11. Plain'
  <2>. SUFFICES ASSUME NEW b \in Bytes, b \notin spoilt', \A k \in DOMAIN hash', i \in 1 .. 2 : b # Cell(k, i)
                PROVE  mem'[b] = truth'[b]
    BY DEF Plain, Bare
  <2>1. Bare(b) /\ mem'[b] = mem[b]
    BY <1>3, <1>8 DEF Bare
  <2>. QED
    BY <2>1, <1>4 DEF Plain
<1>12. OneHolder'
  <2>. SUFFICES ASSUME NEW k \in DOMAIN hash', NEW l \in DOMAIN hash', NEW i \in 1 .. 2, NEW j \in 1 .. 2,
                       k # l, Cell(k, i) = Cell(l, j)
                PROVE  Cell(k, i) \in spoilt'
    BY DEF OneHolder
  <2>1. CASE k \in DOMAIN hash /\ l \in DOMAIN hash
    BY <2>1, <1>4 DEF OneHolder
  <2>2. CASE k \in E /\ l \in DOMAIN hash
    BY <2>2, <1>7
  <2>3. CASE l \in E /\ k \in DOMAIN hash
    BY <2>3, <1>7
  <2>4. CASE k \in E /\ l \in E
    <3>1. k \in Keys /\ l \in Keys /\ k[1] = a /\ l[1] = a /\ k = <<k[1], k[2]>> /\ l = <<l[1], l[2]>> /\ k[2] \in A /\ l[2] \in A
      BY <2>4, <1>2, EntryRight
    <3>2. isLocalAddr(a) => k = l
      BY <3>1, EntriesApart
    <3>3. ~isLocalAddr(a) => k = l
      BY <3>1 DEF Affected
    <3>. QED
      BY <3>2, <3>3
  <2>. QED
    BY <2>1, <2>2, <2>3, <2>4, <1>3
<1>13. AllCores'
  <2>. SUFFICES ASSUME NEW k \in DOMAIN hash', NEW t \in Threads, isLocalAddr(k[1]), member[t] = member[k[2]]
                PROVE  <<k[1], t>> \in DOMAIN hash'
    BY <1>4 DEF AllCores
  <2>1. CASE k \in DOMAIN hash
    BY <2>1, <1>3 DEF AllCores
  <2>2. CASE k \in E
    <3>1. k[1] = a /\ k[2] \in A /\ isLocalAddr(a)
      BY <2>2, <1>2
    <3>2. t \in A
      BY <3>1 DEF Affected, Of
    <3>. QED
      BY <3>1, <3>2, <1>3 DEF Entries
  <2>. QED
    BY <2>1, <2>2, <1>3
<1>. QED
  BY <1>9, <1>10, <1>11, <1>12, <1>13

\* The 'z' packet: an instruction comes back where its entry goes, and a breakpoint that stays in a thread
\* of another process, with no one left to remove it, is lost track of.
LEMMA RemoveRight ==
  ASSUME MInv, NEW a \in Codes, rspRemoveMatchpoint(a)
  PROVE  MInv'
<1>. USE DEF MInv
<1>. DEFINE E == Entries(a)
            found == {t \in Affected(a) : <<a, t>> \in DOMAIN hash}
<1>1. DOMAIN hash \subseteq Keys /\ cur \in Threads /\ a \in Nat /\ a \in Addresses
  BY AddressesAssumption DEF Known, Keys, Codes
<1>2. found \subseteq Threads /\ E \subseteq Keys /\ \A k \in Keys : k \in E <=> k[1] = a /\ k[2] \in Affected(a)
  BY <1>1 DEF Affected, Entries, Keys, Of
<1>3. DOMAIN hash' = DOMAIN hash \ E /\ \A k \in DOMAIN hash' : hash'[k] = hash[k]
  BY DEF rspRemoveMatchpoint, remove
<1>4. mem' = Poke(mem, a, [t \in found |-> hash[<<a, t>>]]) /\ planted' = planted \ {<<a, Owner(a)>>}
      /\ truth' = truth /\ member' = member /\ cur' = cur /\ spoilt \subseteq spoilt'
  BY DEF rspRemoveMatchpoint
<1>12. /\ \A b \in Bytes : (\A t \in found : b \notin Cells(t, a)) => mem'[b] = mem[b]
       /\ \A k \in Keys, i \in 1 .. 2 : k[1] = a /\ k[2] \in found /\ Reaches(Full(k[2], a), 2) =>
            \E l \in Keys : l[1] = a /\ l[2] \in found /\ Cell(l, i) = Cell(k, i) /\ mem'[Cell(k, i)] = hash[<<a, l[2]>>][i]
  <2>1. PICK f : f = [t \in found |-> hash[<<a, t>>]]
    OBVIOUS
  <2>2. DOMAIN f = found /\ DOMAIN f \subseteq Threads /\ (\A t \in found : f[t] = hash[<<a, t>>])
    BY <2>1, <1>2
  <2>3. mem' = Poke(mem, a, f)
    BY <2>1, <1>4
  <2>. HIDE DEF found
  <2>4. ASSUME NEW b \in Bytes, \A t \in DOMAIN f : b \notin Cells(t, a) PROVE mem'[b] = mem[b]
    BY <2>3, <2>4, PokeKeeps
  <2>5. ASSUME NEW k \in Keys, NEW i \in 1 .. 2, k[1] = a, k[2] \in found, Reaches(Full(k[2], a), 2)
        PROVE  \E l \in Keys : /\ l[1] = a /\ l[2] \in found /\ Cell(l, i) = Cell(k, i)
                               /\ mem'[Cell(k, i)] = hash[<<a, l[2]>>][i]
    <3>1. PICK l \in Keys : l[1] = a /\ l[2] \in DOMAIN f /\ Cell(l, i) = Cell(k, i) /\ Poke(mem, a, f)[Cell(k, i)] = f[l[2]][i]
      BY <2>2, <2>5, PokeRight
    <3>. QED
      BY <2>2, <2>3, <3>1
  <2>. QED
    BY <2>2, <2>4, <2>5
<1>5. ASSUME NEW t \in Threads \ found, <<a, t>> \in DOMAIN hash, <<a, Owner(a)>> \in planted
      PROVE  Cells(t, a) \subseteq spoilt'
  BY <1>5 DEF rspRemoveMatchpoint
<1>6. ASSUME NEW b \in Bytes, \A k \in DOMAIN hash \cap E, i \in 1 .. 2 : b # Cell(k, i) PROVE mem'[b] = mem[b]
  <2>1. \A t \in found : b \notin Cells(t, a)
    <3>. SUFFICES ASSUME NEW t \in found, b \in Cells(t, a) PROVE FALSE
      OBVIOUS
    <3>1. <<a, t>> \in DOMAIN hash \cap E /\ Full(t, a) \in Nat
      BY <1>2, CellsRight DEF Entries
    <3>2. b = Cell(<<a, t>>, 1) \/ b = Cell(<<a, t>>, 2)
      BY <3>1 DEF Cells, Cell
    <3>. QED
      BY <3>1, <3>2, <1>6
  <2>. QED
    BY <2>1, <1>12
<1>7. Known'
  BY <1>1, <1>3, <1>4 DEF Known, Keys
<1>8. Covered'
  <2>. SUFFICES ASSUME NEW k \in DOMAIN hash', NEW i \in 1 .. 2, Cell(k, i) \notin spoilt'
                PROVE  /\ hash'[k][i] = truth'[Cell(k, i)] /\ mem'[Cell(k, i)] = BKPT[i] /\ Reaches(Full(k[2], k[1]), 2)
                       /\ \E pl \in planted' : pl[1] = k[1]
    BY DEF Covered
  <2>1. /\ Cell(k, i) \notin spoilt /\ k \in DOMAIN hash /\ k \notin E /\ k \in Keys /\ k = <<k[1], k[2]>> /\ k[2] \in Threads
        /\ Cell(k, i) \in Bytes /\ Cell(k, i) \in Cells(k[2], k[1])
    BY <1>1, <1>3, <1>4, EntryRight
  <2>2. mem'[Cell(k, i)] = mem[Cell(k, i)]
    BY <2>1, <1>6 DEF OneHolder
  <2>3. PICK pl \in planted : pl[1] = k[1]
    BY <2>1 DEF Covered
  <2>4. pl \in planted'
    <3>. SUFFICES ASSUME pl = <<a, Owner(a)>> PROVE FALSE
      BY <1>4
    <3>1. k[1] = a /\ k[2] \notin found
      BY <2>1, <2>3, <1>2
    <3>. QED
      BY <2>1, <3>1, <1>5
  <2>. QED
    BY <1>3, <1>4, <2>1, <2>2, <2>3, <2>4 DEF Covered
<1>9. Plain'
  <2>. SUFFICES ASSUME NEW b \in Bytes, b \notin spoilt', \A k \in DOMAIN hash', i \in 1 .. 2 : b # Cell(k, i)
                PROVE  mem'[b] = truth'[b]
    BY DEF Plain, Bare
  <2>1. CASE \A k \in DOMAIN hash \cap E, i \in 1 .. 2 : b # Cell(k, i)
    <3>1. Bare(b) /\ mem'[b] = mem[b]
      BY <2>1, <1>3, <1>6 DEF Bare
    <3>. QED
      BY <3>1, <1>4 DEF Plain
  <2>2. CASE \E k \in DOMAIN hash \cap E, i \in 1 .. 2 : b = Cell(k, i)
    <3>1. PICK k \in DOMAIN hash \cap E, i \in 1 .. 2 : b = Cell(k, i)
      BY <2>2
    <3>2. k \in Keys /\ k = <<a, k[2]>> /\ k[2] \in found
      <4>1. k \in Keys /\ k[1] = a /\ k[2] \in Affected(a)
        BY <1>1, <1>2
      <4>2. k = <<k[1], k[2]>>
        BY <4>1, EntryRight
      <4>. QED
        BY <4>1, <4>2
    <3>3. hash[k][i] = truth[b] /\ Reaches(Full(k[2], a), 2)
      <4>1. b \notin spoilt /\ k[1] = a
        BY <1>4, <3>2
      <4>. QED
        BY <4>1, <3>1 DEF Covered
    <3>4. PICK l \in Keys : l[1] = a /\ l[2] \in found /\ Cell(l, i) = Cell(k, i) /\ mem'[Cell(k, i)] = hash[<<a, l[2]>>][i]
      <4>1. k[1] = a
        BY <3>2
      <4>. HIDE DEF found
      <4>. QED
        BY <1>12, <3>2, <3>3, <4>1
    <3>5. l = k
      <4>1. l = <<a, l[2]>> /\ l \in DOMAIN hash /\ Cell(k, i) \notin spoilt
        BY <1>4, <3>1, <3>4, EntryRight
      <4>. QED
        BY <4>1, <3>1, <3>4 DEF OneHolder
    <3>. QED
      BY <1>4, <3>1, <3>2, <3>3, <3>4, <3>5
  <2>. QED
    BY <2>1, <2>2
<1>10. OneHolder'
  BY <1>3, <1>4 DEF OneHolder
<1>11. AllCores'
  <2>. SUFFICES ASSUME NEW k \in DOMAIN hash', NEW t \in Threads, isLocalAddr(k[1]), member[t] = member[k[2]]
                PROVE  <<k[1], t>> \in DOMAIN hash'
    BY <1>4 DEF AllCores
  <2>1. k \in DOMAIN hash /\ k \notin E /\ k \in Keys /\ k[2] \in Threads
    BY <1>1, <1>3, EntryRight
  <2>2. <<k[1], t>> \in DOMAIN hash
    BY <2>1 DEF AllCores
  <2>3. <<k[1], t>> \notin E
    BY <2>1, <1>2 DEF Entries, Affected, Of
  <2>. QED
    BY <2>2, <2>3, <1>3
<1>. QED
  BY <1>7, <1>8, <1>9, <1>10, <1>11

\* The 'X' packet: what is written goes into the shadows under the breakpoints and into the memory beside them.
LEMMA WriteRight ==
  ASSUME MInv, NEW a \in Addresses, NEW n \in 1 .. MaxLen, a + n - 1 \in Addresses,
         NEW data, Len(data) = n, rspWriteMemBin(a, data)
  PROVE  MInv'
<1>. USE DEF MInv
<1>. DEFINE f == Full(cur, a)
            stored == Written(f, n)
            met == Met(a, n)
            new == UNION {{<<k[1], t>> : t \in IF isLocalAddr(k[1]) THEN Of(member[cur]) ELSE {cur}} : k \in met}
            place(k) == k[1] - a
<1>1. DOMAIN hash \subseteq Keys /\ cur \in Threads /\ a \in Nat /\ n \in Nat \ {0} /\ a .. a + n - 1 \subseteq Addresses
      /\ isLocalAddr(a) = isLocalAddr(a + n - 1)
  <2>1. DOMAIN hash \subseteq Keys /\ cur \in Threads
    BY DEF Known, Keys
  <2>2. a .. a + n - 1 \subseteq Addresses /\ isLocalAddr(a) = isLocalAddr(a + n - 1) /\ a \in Nat
    BY AddressesAssumption
  <2>3. n \in Nat \ {0}
    BY PlatformAssumption
  <2>. QED
    BY <2>1, <2>2, <2>3
<1>2. /\ truth' = [b \in Bytes |-> IF b - f \in stored THEN data[b - f + 1] ELSE truth[b]]
      /\ mem' = [b \in Bytes |-> IF b - f \in stored THEN Filled(a, data)[b - f + 1] ELSE mem[b]]
      /\ spoilt' = spoilt \cup Parted(a, data, stored)
      /\ member' = member /\ cur' = cur /\ planted' = planted
  BY DEF rspWriteMemBin
<1>3. stored \subseteq 0 .. n - 1
  BY DEF Written
\* The bytes written are those of the addresses from a, of the current thread.
<1>4. ASSUME NEW j \in 0 .. n - 1
      PROVE  a + j \in Addresses /\ isLocalAddr(a + j) = isLocalAddr(a) /\ Full(cur, a + j) = f + j /\ f + j \in Bytes /\ f \in Nat
  <2>1. a + j \in Addresses
    BY <1>1
  <2>2. isLocalAddr(a + j) = isLocalAddr(a)
    BY <1>1, SizesAssumption DEF isLocalAddr
  <2>3. AbsId(cur) * CoreSpace \in Nat
    BY <1>1, IdsDiffer, SizesAssumption
  <2>4. f \in Nat /\ Full(cur, a + j) = f + j
    BY <1>1, <2>2, <2>3 DEF Full, convertAddress
  <2>. QED
    BY <1>1, <2>1, <2>2, <2>4 DEF Bytes, Full
\* Among the entries of the current thread those are met that lie over such a byte.
<1>5. ASSUME NEW k \in DOMAIN hash, NEW i \in 1 .. 2, k[2] = cur
      PROVE  /\ k[1] \in Nat /\ k[1] + i - 1 \in a .. a + n - 1 => k \in met /\ k \in Over(cur, k[1] + i - 1)
             /\ k \in met => isLocalAddr(k[1]) = isLocalAddr(a) /\ Cell(k, i) - f = k[1] + i - 1 - a
  <2>1. k[1] \in Codes /\ k[1] \in Nat /\ k[1] + i - 1 \in Addresses /\ Cell(k, i) = Full(cur, k[1] + i - 1)
        /\ isLocalAddr(k[1] + i - 1) = isLocalAddr(k[1])
    BY <1>1, <1>5, EntryRight
  <2>2. k[1] + i - 1 \in a .. a + n - 1 => k \in met /\ k \in Over(cur, k[1] + i - 1)
    BY <1>1, <1>5, <2>1 DEF Met, Over
  <2>3. ASSUME k \in met PROVE isLocalAddr(k[1]) = isLocalAddr(a)
    <3>1. k[1] + 1 >= a /\ k[1] < a + n
      BY <2>3 DEF Met
    <3>2. isLocalAddr(k[1]) <=> isLocalAddr(k[1] + 1)
      BY <1>1, <2>1, CellsRight
    <3>. QED
      BY <1>1, <2>1, <3>1, <3>2, SizesAssumption, SMTT(30) DEF isLocalAddr
  <2>4. ASSUME isLocalAddr(k[1]) = isLocalAddr(a) PROVE Cell(k, i) - f = k[1] + i - 1 - a
    <3>1. AbsId(cur) * CoreSpace \in Nat
      BY <1>1, IdsDiffer, SizesAssumption
    <3>2. isLocalAddr(k[1] + i - 1) = isLocalAddr(a)
      BY <2>1, <2>4
    <3>3. PICK m \in Nat : m = AbsId(cur) * CoreSpace
      BY <3>1
    <3>4. PICK x \in Nat : x = k[1]
      BY <2>1
    <3>5. CASE isLocalAddr(a)
      <4>1. Cell(k, i) = m + (x + i - 1) /\ f = m + a
        BY <2>1, <3>2, <3>3, <3>4, <3>5 DEF Full, convertAddress
      <4>. QED
        BY <1>1, <3>4, <4>1, SMTT(30)
    <3>6. CASE ~isLocalAddr(a)
      <4>1. Cell(k, i) = x + i - 1 /\ f = a
        BY <2>1, <3>2, <3>4, <3>6 DEF Full, convertAddress
      <4>. QED
        BY <1>1, <3>4, <4>1
    <3>. QED
      BY <3>5, <3>6
  <2>. QED
    BY <2>1, <2>2, <2>3, <2>4
<1>6. new \subseteq DOMAIN hash /\ \A k \in new : <<k[1], cur>> \in met /\ (k[2] # cur => isLocalAddr(k[1]) /\ k[2] \in Of(member[cur]) \ {cur})
  <2>1. ASSUME NEW k \in met, NEW t \in IF isLocalAddr(k[1]) THEN Of(member[cur]) ELSE {cur}
        PROVE  <<k[1], t>> \in DOMAIN hash /\ <<k[1], cur>> \in met /\ (t # cur => isLocalAddr(k[1]) /\ t \in Of(member[cur]))
    <3>1. k \in DOMAIN hash /\ k[2] = cur
      BY DEF Met
    <3>2. k = <<k[1], cur>>
      BY <1>1, <3>1, EntryRight
    <3>3. CASE ~isLocalAddr(k[1])
      <4>1. t = cur
        BY <3>3
      <4>2. <<k[1], t>> \in DOMAIN hash /\ <<k[1], cur>> \in met
        BY <3>1, <3>2, <4>1
      <4>. QED
        BY <4>1, <4>2
    <3>4. CASE isLocalAddr(k[1])
      <4>1. t \in Threads /\ member[t] = member[cur]
        BY <3>4 DEF Of
      <4>2. <<k[1], t>> \in DOMAIN hash
        BY <3>1, <3>4, <4>1 DEF AllCores
      <4>. QED
        BY <3>2, <3>4, <4>2
    <3>. QED
      BY <3>3, <3>4
  <2>2. ASSUME NEW k \in new
        PROVE  k \in DOMAIN hash /\ <<k[1], cur>> \in met /\ (k[2] # cur => isLocalAddr(k[1]) /\ k[2] \in Of(member[cur]) \ {cur})
    <3>0. PICK m \in met : k \in {<<m[1], t>> : t \in IF isLocalAddr(m[1]) THEN Of(member[cur]) ELSE {cur}}
      OBVIOUS
    <3>1. PICK t \in IF isLocalAddr(m[1]) THEN Of(member[cur]) ELSE {cur} : k = <<m[1], t>>
      BY <3>0
    <3>2. k[1] = m[1] /\ k[2] = t
      BY <3>1
    <3>3. k \in DOMAIN hash /\ <<m[1], cur>> \in met /\ (t # cur => isLocalAddr(m[1]) /\ t \in Of(member[cur]))
      BY <2>1, <3>1
    <3>4. k \in DOMAIN hash /\ <<k[1], cur>> \in met
      BY <3>1, <3>2, <3>3
    <3>5. CASE t = cur
      BY <3>2, <3>4, <3>5
    <3>6. CASE t # cur
      BY <3>2, <3>3, <3>4, <3>6
    <3>. QED
      BY <3>5, <3>6
  <2>. QED
    BY <2>2
<1>7. met \subseteq new
  <2>1. ASSUME NEW k \in met PROVE k \in new
    <3>1. k = <<k[1], cur>>
      BY <1>1, EntryRight DEF Met
    <3>2. cur \in IF isLocalAddr(k[1]) THEN Of(member[cur]) ELSE {cur}
      BY <1>1 DEF Of
    <3>. QED
      BY <3>1, <3>2
  <2>. QED
    BY <2>1
<1>8. DOMAIN hash' = DOMAIN hash
      /\ \A k \in DOMAIN hash : hash'[k] = IF k \in new THEN Shadow(<<k[1], cur>>, a, data) ELSE hash[k]
  <2>1. hash' = add(hash, [j \in new |-> Shadow(<<j[1], cur>>, a, data)])
    BY DEF rspWriteMemBin, unhideBreakpoints
  <2>. HIDE DEF new
  <2>. QED
    BY <2>1, <1>6 DEF add

<1>9. ASSUME NEW k \in DOMAIN hash, NEW i \in 1 .. 2, Cell(k, i) \notin spoilt', Cell(k, i) - f \in stored
      PROVE  k[2] = cur /\ k[1] + i - 1 = a + (Cell(k, i) - f) /\ k \in met /\ k \in Over(cur, k[1] + i - 1)
  <2>1. PICK j \in stored : j = Cell(k, i) - f
    BY <1>9
  <2>2. j \in 0 .. n - 1 /\ a + j \in Addresses /\ isLocalAddr(a + j) = isLocalAddr(a) /\ Full(cur, a + j) = f + j
    BY <1>3, <1>4
  <2>3. Cell(k, i) \in Bytes \cap Nat /\ k[1] \in Nat
    BY <1>1, EntryRight
  <2>4. Full(cur, a + j) = Cell(k, i)
    BY <1>4, <2>1, <2>2, <2>3
  <2>5. a + j = k[1] + i - 1 /\ (k[2] # cur => ~isLocalAddr(a + j) /\ k \in Over(k[2], a + j))
    BY <1>1, <2>2, <2>4, OverRight
  <2>6. k[2] = cur
    <3>. SUFFICES ASSUME k[2] # cur PROVE FALSE
      OBVIOUS
    <3>1. ~isLocalAddr(a) /\ Over(k[2], a + j) # {} /\ k[2] \in Threads \ {cur}
      BY <1>1, <2>2, <2>5, EntryRight
    <3>2. f + j \in {f + i_1 : i_1 \in {j_1 \in stored : ~isLocalAddr(a) /\ \E t \in Threads \ {cur} : Over(t, a + j_1) # {}}}
      BY <3>1
    <3>3. f + j \in Parted(a, data, stored)
      BY <3>2 DEF Parted
    <3>. QED
      BY <1>2, <1>9, <2>2, <2>4, <3>3
  <2>7. k[1] + i - 1 = a + (Cell(k, i) - f) /\ k[1] + i - 1 \in a .. a + n - 1
    BY <1>1, <2>1, <2>2, <2>5
  <2>8. k \in met /\ k \in Over(cur, k[1] + i - 1)
    BY <1>5, <2>3, <2>6, <2>7
  <2>. QED
    BY <2>6, <2>7, <2>8
<1>10. Known'
  BY <1>2, <1>8 DEF Known
<1>11. Covered'
  <2>. SUFFICES ASSUME NEW k \in DOMAIN hash, NEW i \in 1 .. 2, Cell(k, i) \notin spoilt'
                PROVE  /\ hash'[k][i] = truth'[Cell(k, i)] /\ mem'[Cell(k, i)] = BKPT[i] /\ Reaches(Full(k[2], k[1]), 2)
                       /\ \E pl \in planted' : pl[1] = k[1]
    BY <1>8 DEF Covered
  <2>1. PICK b \in Bytes \cap Nat : b = Cell(k, i)
    BY <1>1, EntryRight
  <2>2. /\ hash[k][i] = truth[b] /\ mem[b] = BKPT[i] /\ Reaches(Full(k[2], k[1]), 2)
        /\ \E pl \in planted' : pl[1] = k[1]
    BY <1>2, <2>1 DEF Covered
  <2>3. k[1] \in Nat /\ k = <<k[1], k[2]>> /\ k[2] \in Threads /\ f \in Nat
    BY <1>1, <1>4, EntryRight
  <2>4. mem'[b] = BKPT[i]
    <3>1. CASE b - f \in stored
      <4>1. k \in Over(cur, k[1] + i - 1) /\ k[1] + i - 1 = a + (b - f) /\ b - f \in 0 .. n - 1
        BY <1>3, <1>9, <2>1, <3>1
      <4>2. PICK j \in 1 .. n : j = b - f + 1
        BY <4>1, <1>1
      <4>3. a + j - 1 = k[1] + i - 1 /\ a + j - k[1] = i /\ a + j - 1 \in Addresses
        <5>1. a + j - 1 = k[1] + i - 1 /\ a + j - k[1] = i
          <6>1. PICK c \in 0 .. n - 1 : c = b - f
            BY <4>1
          <6>2. j = c + 1 /\ k[1] + i - 1 = a + c
            BY <4>1, <4>2, <6>1
          <6>. QED
            BY <6>2, <2>3, <1>1
        <5>2. k[1] + i - 1 \in Addresses
          BY <1>1, EntryRight
        <5>. QED
          BY <5>1, <5>2
      <4>4. Over(cur, a + j - 1) # {} /\ (CHOOSE l \in Over(cur, a + j - 1) : TRUE) = k
        BY <4>1, <4>3, <1>1, OverRight
      <4>5. Filled(a, data)[j] = BKPT[a + j - k[1]]
        BY <4>2, <4>4 DEF Filled
      <4>. QED
        BY <1>2, <3>1, <4>2, <4>3, <4>5
    <3>2. CASE b - f \notin stored
      BY <1>2, <2>2, <3>2
    <3>. QED
      BY <3>1, <3>2
  <2>5. hash'[k][i] = truth'[b]
    <3>1. CASE k \notin new
      <4>1. b - f \notin stored
        BY <1>7, <1>9, <2>1, <3>1
      <4>. QED
        BY <1>2, <1>8, <2>2, <3>1, <4>1
    <3>2. CASE k \in new /\ k[2] = cur
      <4>1. k \in met /\ b - f = k[1] + i - 1 - a
        BY <1>1, <1>5, <1>6, <2>1, <2>3, <3>2
      <4>2. hash'[k] = Shadow(k, a, data)
        BY <1>8, <2>3, <3>2
      <4>3. CASE k[1] + i - 1 \in a .. a + n - 1
        <5>1. b - f \in 0 .. n - 1 /\ k[1] + i - a = b - f + 1 /\ b = f + (b - f) /\ k[1] + i - 1 = a + (b - f)
          <6>1. PICK g \in Nat : g = f
            BY <2>3
          <6>2. PICK x \in Nat : x = k[1]
            BY <2>3
          <6>3. b - g = x + i - 1 - a /\ x + i - 1 \in a .. a + n - 1
            BY <4>1, <4>3, <6>1, <6>2
          <6>4. b - g \in 0 .. n - 1 /\ x + i - a = b - g + 1 /\ b = g + (b - g) /\ x + i - 1 = a + (b - g)
            BY <1>1, <6>3
          <6>. QED
            BY <6>1, <6>2, <6>4
        <5>2. b - f \in stored
          <6>. SUFFICES ASSUME b - f \notin stored PROVE FALSE
            OBVIOUS
          <6>1. Over(cur, a + (b - f)) # {}
            <7>1. k \in Over(cur, k[1] + i - 1)
              BY <1>5, <2>3, <3>2, <4>3
            <7>. QED
              BY <5>1, <7>1
          <6>2. f + (b - f) \in Parted(a, data, stored)
            BY <5>1, <6>1 DEF Parted
          <6>. QED
            BY <1>2, <2>1, <5>1, <6>2
        <5>3. Shadow(k, a, data)[i] = data[k[1] + i - a]
          BY <4>3 DEF Shadow
        <5>. QED
          BY <1>2, <4>2, <5>1, <5>2, <5>3
      <4>4. CASE k[1] + i - 1 \notin a .. a + n - 1
        <5>1. b - f \notin stored
          <6>1. k[1] + i - 1 - a \notin 0 .. n - 1
            BY <1>1, <2>3, <4>4
          <6>. QED
            BY <1>3, <4>1, <6>1
        <5>2. Shadow(k, a, data)[i] = hash[k][i]
          BY <4>4 DEF Shadow
        <5>. QED
          BY <1>2, <2>2, <4>2, <5>1, <5>2
      <4>. QED
        BY <4>3, <4>4
    <3>3. CASE k \in new /\ k[2] # cur
      <4>1. PICK l \in met : l = <<k[1], cur>>
        BY <1>6, <3>3
      <4>2. isLocalAddr(k[1]) /\ k[2] \in Of(member[cur]) \ {cur} /\ l[1] = k[1] /\ l[2] = cur /\ l \in DOMAIN hash
        BY <1>6, <3>3, <4>1 DEF Met
      <4>3. isLocalAddr(a)
        BY <1>5, <4>1, <4>2
      <4>4. b - f \notin stored
        BY <1>9, <2>1, <3>3
      <4>5. b = Full(k[2], l[1]) + i - 1
        BY <2>1, <4>2 DEF Cell
      <4>6. truth[b] = Shadow(l, a, data)[i]
        <5>. SUFFICES ASSUME truth[b] # Shadow(l, a, data)[i] PROVE FALSE
          OBVIOUS
        <5>1. \E m \in met, t \in Of(member[cur]) \ {cur}, i_1 \in 1 .. 2 :
                 isLocalAddr(a) /\ b = Full(t, m[1]) + i_1 - 1 /\ truth[b] # Shadow(m, a, data)[i_1]
          BY <4>2, <4>3, <4>5
        <5>2. b \in Parted(a, data, stored)
          BY <2>1, <5>1 DEF Parted
        <5>. QED
          BY <1>2, <2>1, <5>2
      <4>7. hash'[k] = Shadow(l, a, data)
        BY <1>8, <3>3, <4>1
      <4>. QED
        BY <1>2, <4>4, <4>6, <4>7
    <3>. QED
      BY <3>1, <3>2, <3>3
  <2>. QED
    BY <2>1, <2>2, <2>4, <2>5
<1>12. Plain'
  <2>. SUFFICES ASSUME NEW b \in Bytes, b \notin spoilt', Bare(b) PROVE mem'[b] = truth'[b]
    BY <1>8 DEF Plain, Bare
  <2>1. CASE b - f \in stored
    <3>1. b - f \in 0 .. n - 1
      BY <1>3, <2>1
    <3>2. PICK j \in 0 .. n - 1 : j = b - f
      BY <3>1
    <3>3. a + j \in Addresses /\ Full(cur, a + j) = f + j /\ f \in Nat
      BY <1>4
    <3>4. b \in Int
      BY IdsDiffer, AddressesAssumption, SizesAssumption DEF Bytes, convertAddress
    <3>5. b = Full(cur, a + j)
      BY <3>2, <3>3, <3>4
    <3>6. Over(cur, a + j) = {}
      <4>. SUFFICES ASSUME NEW k \in Over(cur, a + j) PROVE FALSE
        OBVIOUS
      <4>1. PICK x \in Addresses : x = a + j
        BY <3>3
      <4>2. k \in DOMAIN hash /\ x - k[1] + 1 \in 1 .. 2 /\ Cell(k, x - k[1] + 1) = Full(cur, x)
        BY <1>1, <4>1, OverRight
      <4>. QED
        BY <3>5, <4>1, <4>2 DEF Bare
    <3>7. Filled(a, data)[j + 1] = data[j + 1]
      <4>1. j + 1 \in 1 .. n /\ a + (j + 1) - 1 = a + j
        BY <1>1
      <4>. QED
        BY <3>6, <4>1 DEF Filled
    <3>. QED
      BY <1>2, <2>1, <3>2, <3>7
  <2>2. CASE b - f \notin stored
    BY <1>2, <2>2 DEF Plain
  <2>. QED
    BY <2>1, <2>2
<1>13. OneHolder'
  BY <1>2, <1>8 DEF OneHolder
<1>14. AllCores'
  BY <1>2, <1>8 DEF AllCores
<1>. QED
  BY <1>10, <1>11, <1>12, <1>13, <1>14

\* The 'H' packet, and "monitor workgroup", after which the breakpoints are in all the cores of both processes.
LEMMA ThreadsRight ==
  ASSUME MInv, NEW t \in Threads, SetThread(t) \/ Workgroup(t)
  PROVE  MInv'
<1>. USE DEF MInv
<1>1. CASE SetThread(t)
  BY <1>1 DEF SetThread, Known, Covered, Plain, Bare, OneHolder, AllCores
<1>2. CASE Workgroup(t)
  <2>1. UNCHANGED <<mem, hash, cur, truth, planted, spoilt>> /\ member' = [member EXCEPT ![t] = 2]
    BY <1>2 DEF Workgroup
  <2>2. \A u \in Threads : member[u] = 1
    BY <1>2 DEF Workgroup, Of
  <2>3. AllCores'
    <3>. SUFFICES ASSUME NEW k \in DOMAIN hash, NEW u \in Threads, isLocalAddr(k[1]) PROVE <<k[1], u>> \in DOMAIN hash
      BY <2>1 DEF AllCores
    <3>1. k[2] \in Threads
      BY DEF Known
    <3>2. member[u] = member[k[2]]
      BY <2>2, <3>1
    <3>. QED
      BY <3>2 DEF AllCores
  <2>. QED
    BY <2>1, <2>3 DEF Known, Covered, Plain, Bare, OneHolder
<1>. QED
  BY <1>1, <1>2

\* At the start there is no breakpoint, and the memory is as the client knows it.
LEMMA MemoryStart == ASSUME Init PROVE MInv
<1>1. cur \in Threads
  <2>1. Rows \in Nat \ {0} /\ Cols \in Nat \ {0}
    BY PlatformAssumption
  <2>2. Rows * Cols \in Nat \ {0}
    BY <2>1
  <2>. QED
    BY <2>2 DEF Init, Threads
<1>2. DOMAIN hash = {} /\ truth = mem /\ member = [t \in Threads |-> 1]
  BY DEF Init
<1>. QED
  BY <1>1, <1>2 DEF MInv, Known, Covered, Plain, OneHolder, AllCores

\* Every request keeps the table, the memory and the client's view of it together.
LEMMA MemoryStep == ASSUME MInv, Next PROVE MInv'
<1>1. ASSUME NEW a \in Addresses, NEW n \in 1 .. MaxLen, NEW v \in Values, a + n - 1 \in Addresses,
             rspWriteMemBin(a, [i \in 1 .. n |-> v])
      PROVE  MInv'
  <2>1. PICK data : data = [i \in 1 .. n |-> v]
    OBVIOUS
  <2>2. Len(data) = n
    BY <2>1, PlatformAssumption
  <2>. QED
    BY <1>1, <2>1, <2>2, WriteRight
<1>. QED
  BY <1>1, ThreadsRight, InsertRight, RemoveRight DEF Next

\* Under every entry of the server's table there is a breakpoint and the entry knows what it hides,
\* beside them the memory is the client's, and a process has a breakpoint in all its cores, except for
\* bytes the server has lost track of (rspInsertMatchpoint, rspRemoveMatchpoint, unhideBreakpoints).
THEOREM MemoryInvariant == MCSpec => [](part = "memory" => MInv)
<1>1. MCInit => (part = "memory" => MInv)
  BY MemoryStart DEF MCInit
<1>2. ASSUME part = "memory" => MInv, [MCNext]_<<part, vars, tableVars, runVars, wireVars, lineVars>>
      PROVE  (part = "memory" => MInv)'
  <2>. SUFFICES ASSUME part = "memory", MInv, part' = part PROVE MInv'
    BY <1>2 DEF MCNext
  <2>1. CASE UNCHANGED vars
    BY <2>1 DEF vars, MInv, Known, Covered, Plain, Bare, OneHolder, AllCores
  <2>2. CASE Next
    BY <2>2, MemoryStep
  <2>. QED
    BY <1>2, <2>1, <2>2 DEF MCNext
<1>. QED
  BY <1>1, <1>2, PTL DEF MCSpec

\* The client reads what it has written and never a breakpoint (hideBreakpoints).
THEOREM BreakpointsHidden == MCSpec => []NeverShown
<1>1. (part = "memory" => MInv) => NeverShown
  BY MemoryShown DEF NeverShown, InPart
<1>. QED
  BY <1>1, MemoryInvariant, PTL

\* A breakpoint stays in every core it was put in, whatever is written over it, and where the client has
\* none left the memory is what it has written (unhideBreakpoints, rspRemoveMatchpoint).
THEOREM BreakpointsStay == MCSpec => []BreakpointsKept
<1>1. (part = "memory" => MInv) => BreakpointsKept
  BY MemoryShown DEF BreakpointsKept, InPart
<1>. QED
  BY <1>1, MemoryInvariant, PTL

-----------------------------------------------------------------------------
(* Long replies *)

\* A part put behind what there is.
LEMMA Continued ==
  ASSUME NEW v, NEW l \in Nat, NEW k \in Nat
  PROVE  LET t == [i \in 1 .. l |-> <<v, i>>] \o [i \in 1 .. k |-> <<v, l + i>>]
         IN Len(t) = l + k /\ t = [i \in 1 .. l + k |-> <<v, i>>]
<1>1. PICK s, x, y : s = [i \in 1 .. l |-> <<v, i>>] /\ x = [i \in 1 .. k |-> <<v, l + i>>] /\ y = [i \in 1 .. l + k |-> <<v, i>>]
  OBVIOUS
<1>. DEFINE S == {v} \X Nat
<1>2. x \in Seq(S) /\ y \in Seq(S) /\ s \in Seq(S)
  BY <1>1
<1>3. Len(s) = l /\ Len(x) = k /\ Len(y) = l + k
  BY <1>1
<1>. HIDE DEF S
<1>4. /\ s \o x \in Seq(S) /\ Len(s \o x) = l + k
      /\ \A i \in 1 .. l + k : (s \o x)[i] = IF i <= l THEN s[i] ELSE x[i - l]
  BY <1>2, <1>3, ConcatProperties
<1>5. ASSUME NEW i \in 1 .. l + k PROVE (s \o x)[i] = y[i]
  <2>1. CASE i <= l
    BY <1>1, <1>4, <2>1
  <2>2. CASE ~(i <= l)
    <3>1. i - l \in 1 .. k /\ l + (i - l) = i
      BY <2>2
    <3>. QED
      BY <1>1, <1>4, <2>2, <3>1
  <2>. QED
    BY <2>1, <2>2
<1>6. s \o x = y
  BY <1>2, <1>3, <1>4, <1>5, SeqEqual
<1>. QED
  BY <1>1, <1>3, <1>4, <1>6

\* A part of a document.
LEMMA PartRight == ASSUME Wire!DocInv, NEW length \in Asks, Wire!rspTransferObject(length) PROVE Wire!DocInv'
<1>1. PICK offset, d, rest, sent :
         offset = Len(got) /\ d = Wire!Made(offset) /\ rest = d.len - offset /\ sent = Wire!packNStr(Wire!Smaller(rest, length))
  OBVIOUS
<1>2. /\ ~done /\ reply' = d /\ doc' = doc
      /\ rest <= 0 => got' = got /\ done'
      /\ ~(rest <= 0) => /\ got' = got \o [i \in 1 .. sent |-> <<d.version, offset + i>>]
                         /\ done' = (rest <= length)
                         /\ cut' = (cut \/ (done' /\ sent < rest))
  BY <1>1 DEF Wire!rspTransferObject
<1>3. offset \in Nat /\ got = [i \in 1 .. offset |-> <<reply.version, i>>] /\ offset <= reply.len /\ doc \in Wire!Documents /\ reply \in Wire!Documents
  BY <1>1 DEF Wire!DocInv, Wire!TransferWhole, Wire!Documents
<1>4. d \in Wire!Documents /\ offset <= d.len /\ got = [i \in 1 .. offset |-> <<d.version, i>>]
  <2>1. CASE offset = 0
    <3>1. d = doc /\ 0 <= doc.len /\ 1 .. 0 = {}
      BY <1>1, <1>3, <2>1 DEF Wire!Made, Wire!Documents
    <3>2. [i \in 1 .. 0 |-> <<d.version, i>>] = [i \in 1 .. 0 |-> <<reply.version, i>>]
      BY <3>1
    <3>. QED
      BY <1>3, <2>1, <3>1, <3>2
  <2>2. CASE offset # 0
    BY <1>1, <1>3, <2>2 DEF Wire!Made
  <2>. QED
    BY <2>1, <2>2
<1>5. PICK n \in Nat : n = d.len /\ rest = n - offset
  BY <1>1, <1>4 DEF Wire!Documents
<1>6. ASSUME NEW m \in 0 .. n, Len(got') = m, got' = [i \in 1 .. m |-> <<d.version, i>>], done' /\ ~cut' => m = n
      PROVE  Wire!DocInv'
  <2>1. doc' \in Wire!Documents /\ reply' \in Wire!Documents /\ reply' = d /\ reply'.len = n
    BY <1>2, <1>3, <1>4, <1>5
  <2>. QED
    BY <1>6, <2>1 DEF Wire!DocInv, Wire!TransferWhole
<1>7. CASE rest <= 0
  <2>1. offset = n
    BY <1>3, <1>4, <1>5, <1>7
  <2>2. Len(got') = n /\ got' = [i \in 1 .. n |-> <<d.version, i>>]
    BY <1>1, <1>2, <1>4, <1>7, <2>1
  <2>. QED
    BY <1>6, <2>2
<1>8. CASE ~(rest <= 0)
  <2>1. sent \in Nat /\ sent <= rest
    BY <1>1, <1>3, <1>5, <1>8, PacketAssumption DEF Wire!packNStr, Wire!Smaller
  <2>2. Len(got') = offset + sent /\ got' = [i \in 1 .. offset + sent |-> <<d.version, i>>]
    <3>1. PICK v : v = d.version
      OBVIOUS
    <3>2. got' = [i \in 1 .. offset |-> <<v, i>>] \o [i \in 1 .. sent |-> <<v, offset + i>>]
      BY <1>2, <1>4, <1>8, <3>1
    <3>3. Len(got') = offset + sent /\ got' = [i \in 1 .. offset + sent |-> <<v, i>>]
      BY <1>3, <2>1, <3>2, Continued
    <3>. QED
      BY <3>1, <3>3
  <2>3. offset + sent \in 0 .. n
    BY <1>3, <1>5, <2>1
  <2>4. done' /\ ~cut' => offset + sent = n
    <3>1. done' /\ ~cut' => ~(sent < rest)
      BY <1>2, <1>8
    <3>2. sent \in Nat /\ rest \in Nat /\ sent <= rest /\ offset \in Nat /\ n = offset + rest
      BY <1>3, <1>5, <2>1
    <3>3. ~(sent < rest) => offset + sent = n
      BY <3>2
    <3>. QED
      BY <3>1, <3>3
  <2>. QED
    BY <1>6, <2>2, <2>3, <2>4
<1>. QED
  BY <1>7, <1>8

\* A client that asks for a document part by part gets all of one version of it, whatever
\* changes meanwhile (rspTransferObject).
THEOREM DocumentsWhole == MCSpec => []InPart("wire", Wire!DocInv)
<1>. DEFINE J == InPart("wire", Wire!DocInv)
<1>1. MCInit => J
  <2>. SUFFICES ASSUME Wire!Init PROVE Wire!DocInv
    BY DEF MCInit, InPart
  <2>1. doc \in Wire!Documents /\ reply = doc /\ got = <<>> /\ Len(got) = 0 /\ ~done
    BY PacketAssumption DEF Wire!Init, Wire!Documents
  <2>2. <<>> = [i \in 1 .. 0 |-> <<reply.version, i>>]
    OBVIOUS
  <2>. QED
    BY <2>1, <2>2 DEF Wire!DocInv, Wire!TransferWhole, Wire!Documents
<1>2. J /\ [MCNext]_<<part, vars, tableVars, runVars, wireVars, lineVars>> => J'
  <2>. SUFFICES ASSUME J, [MCNext]_<<part, vars, tableVars, runVars, wireVars, lineVars>>, part' = "wire"
                PROVE  Wire!DocInv'
    BY DEF InPart
  <2>1. Wire!DocInv /\ (Wire!Next \/ UNCHANGED wireVars)
    BY DEF MCNext, InPart
  <2>2. CASE Wire!Change
    <3>1. doc' \in Wire!Documents
      BY <2>1, <2>2, PacketAssumption DEF Wire!Change, Wire!Documents, Wire!DocInv
    <3>. QED
      BY <2>1, <2>2, <3>1 DEF Wire!Change, Wire!DocInv, Wire!TransferWhole
  <2>3. CASE \E n \in Asks : Wire!rspTransferObject(n)
    BY <2>1, <2>3, PartRight
  <2>4. CASE UNCHANGED wireVars
    BY <2>1, <2>4 DEF wireVars, Wire!DocInv, Wire!TransferWhole
  <2>. QED
    BY <2>1, <2>2, <2>3, <2>4 DEF Wire!Next
<1>. QED
  BY <1>1, <1>2, PTL DEF MCSpec

-----------------------------------------------------------------------------
(* What is coded comes back *)

\* A set of natural numbers has a smallest element.
LEMMA Smallest ==
  ASSUME NEW S, S \subseteq Nat, S # {}
  PROVE  \E m \in S : \A k \in S : m <= k
<1>. DEFINE R == {p \in Nat \X Nat : p[1] < p[2]}
<1>1. R = OpToRel(<, Nat)
  BY DEF OpToRel
<1>2. IsWellFoundedOn(R, Nat)
  BY <1>1, NatLessThanWellFounded
<1>3. \A k, m \in Nat : <<k, m>> \in R <=> k < m
  OBVIOUS
<1>. HIDE DEF R
<1>4. PICK m \in S : \A k \in S : ~(<<k, m>> \in R)
  BY <1>2, WFMin
<1>5. ASSUME NEW k \in S PROVE m <= k
  <2>1. k \in Nat /\ m \in Nat /\ ~(<<k, m>> \in R)
    BY <1>4
  <2>. QED
    BY <1>3, <2>1
<1>. QED
  BY <1>5

-----------------------------------------------------------------------------
(* Digits and bytes *)

\* A number is made of its quotient and its remainder.
LEMMA Divides ==
  ASSUME NEW K \in Nat \ {0}, NEW a \in Nat
  PROVE  a = (a \div K) * K + (a % K) /\ a % K \in 0 .. K - 1 /\ a \div K \in Nat
  OBVIOUS

\* No other pair of numbers does that.
LEMMA DividesOnly ==
  ASSUME NEW K \in Nat \ {0}, NEW x \in 0 .. K - 1, NEW y \in Nat
  PROVE  (y * K + x) \div K = y /\ (y * K + x) % K = x
  OBVIOUS

\* The quotient of what is less than M times K is less than M.
LEMMA DividesLess ==
  ASSUME NEW K \in Nat \ {0}, NEW M \in Nat, NEW a \in Nat, a < M * K
  PROVE  a \div K < M
<1>1. PICK q \in Nat : q = a \div K
  BY Divides
<1>2. q * K <= a
  BY <1>1, Divides
<1>3. ASSUME q >= M PROVE FALSE
  <2>1. M * K <= q * K
    BY <1>3
  <2>. QED
    BY <1>2, <2>1
<1>. QED
  BY <1>1, <1>3

\* A byte has two digits, and half of the bytes have the bit that an escape turns.
LEMMA ByteFacts ==
  /\ Nybble \in Nat \ {0} /\ Wire!Byte \in Nat \ {0}
  /\ \E h \in Nat \ {0} : Wire!Byte = 2 * h /\ Wire!Byte \div 2 = h
<1>1. PICK n \in Nat \ {0} : n = Nybble /\ n % 2 = 0
  BY DigitAssumption
<1>2. PICK k \in Nat \ {0} : n = 2 * k
  BY <1>1
<1>3. PICK h : h = k * n
  OBVIOUS
<1>4. h \in Nat \ {0} /\ n * n = 2 * h
  BY <1>2, <1>3
<1>. QED
  BY <1>1, <1>4 DEF Wire!Byte

\* Turned twice is not turned.
LEMMA TurnBack ==
  ASSUME NEW c \in 0 .. Wire!Byte - 1
  PROVE  Wire!Turn(c) \in 0 .. Wire!Byte - 1 /\ Wire!Turn(Wire!Turn(c)) = c
<1>1. PICK h \in Nat \ {0} : Wire!Byte = 2 * h /\ Wire!Byte \div 2 = h
  BY ByteFacts
<1>2. Wire!Turn(c) = (c + h) % (2 * h) /\ c \in 0 .. 2 * h - 1
  BY <1>1 DEF Wire!Turn
<1>3. CASE c < h
  <2>1. Wire!Turn(c) = c + h
    BY <1>2, <1>3
  <2>2. (c + h + h) % (2 * h) = c
    BY <1>2
  <2>. QED
    BY <1>1, <1>3, <2>1, <2>2 DEF Wire!Turn
<1>4. CASE c >= h
  <2>1. Wire!Turn(c) = c - h
    BY <1>2, <1>4
  <2>2. (c - h + h) % (2 * h) = c
    BY <1>2
  <2>. QED
    BY <1>1, <1>2, <1>4, <2>1, <2>2 DEF Wire!Turn
<1>. QED
  BY <1>2, <1>3, <1>4

\* The two digits of a byte of a register.
LEMMA DigitsOfByte ==
  ASSUME NEW val \in Nat, NEW i \in 0 .. 3
  PROVE  Wire!ByteAt(Wire!reg2Hex(val), i) = Wire!Divided(val)[1 + i] % Wire!Byte
<1>1. PICK b : b = Wire!Divided(val)[1 + i] % Wire!Byte
  OBVIOUS
<1>2. b \in Nat
  <2>1. Wire!Byte \in Nat \ {0}
    BY ByteFacts
  <2>2. \A x \in Nat : x \div Wire!Byte \in Nat
    BY <2>1, Divides
  <2>3. Wire!Divided(val)[1 + i] \in Nat
    BY <2>2 DEF Wire!Divided
  <2>. QED
    BY <1>1, <2>1, <2>3, Divides
<1>3. /\ 2 * i \in 0 .. 7 /\ (2 * i) \div 2 = i /\ (2 * i) % 2 = 0
      /\ 2 * i + 1 \in 0 .. 7 /\ (2 * i + 1) \div 2 = i /\ (2 * i + 1) % 2 = 1
  OBVIOUS
<1>4. Wire!reg2Hex(val)[2 * i] = b \div Nybble /\ Wire!reg2Hex(val)[2 * i + 1] = b % Nybble
  BY <1>1, <1>3 DEF Wire!reg2Hex
<1>5. (b \div Nybble) * Nybble + (b % Nybble) = b
  BY <1>2, ByteFacts, Divides
<1>. QED
  BY <1>1, <1>4, <1>5 DEF Wire!ByteAt

\* A register goes to the client and comes back, its lowest byte first.
LEMMA RegisterRight ==
  ASSUME NEW val \in 0 .. Wire!Weights[4] * Wire!Byte - 1
  PROVE  /\ Wire!hex2Reg(Wire!reg2Hex(val)) = val
         /\ \A i \in 0 .. 3 : Wire!ByteAt(Wire!reg2Hex(val), i) = (val \div Wire!Weights[i + 1]) % Wire!Byte
<1>1. PICK B \in Nat \ {0} : B = Wire!Byte
  BY ByteFacts
<1>2. PICK B2 \in Nat \ {0} : B2 = B * B
  OBVIOUS
<1>3. PICK B3 \in Nat \ {0} : B3 = B2 * B
  OBVIOUS
<1>4. Wire!Weights = <<1, B, B2, B3>> /\ val \in Nat /\ val < B3 * B
  <2>1. Wire!Weights = <<1, B, B2, B3>>
    BY <1>1, <1>2, <1>3 DEF Wire!Weights
  <2>2. B3 * B \in Nat
    OBVIOUS
  <2>. QED
    BY <1>1, <2>1, <2>2
<1>5. PICK v1 \in Nat : v1 = val \div B
  BY <1>4, Divides
<1>6. PICK v2 \in Nat : v2 = v1 \div B
  BY Divides
<1>7. PICK v3 \in Nat : v3 = v2 \div B
  BY Divides
<1>8. PICK r0 \in 0 .. B - 1 : r0 = val % B /\ val = v1 * B + r0
  BY <1>4, <1>5, Divides
<1>9. PICK r1 \in 0 .. B - 1 : r1 = v1 % B /\ v1 = v2 * B + r1
  BY <1>6, Divides
<1>10. PICK r2 \in 0 .. B - 1 : r2 = v2 % B /\ v2 = v3 * B + r2
  BY <1>7, Divides
<1>11. v3 < B /\ v3 % B = v3
  <2>1. v1 < B3
    BY <1>4, <1>5, DividesLess
  <2>2. v2 < B2
    BY <1>3, <1>6, <2>1, DividesLess
  <2>3. v3 < B
    BY <1>2, <1>7, <2>2, DividesLess
  <2>. QED
    BY <2>3
<1>12. Wire!Divided(val) = <<val, v1, v2, v3>>
  BY <1>1, <1>5, <1>6, <1>7 DEF Wire!Divided
<1>13. /\ Wire!ByteAt(Wire!reg2Hex(val), 0) = r0 /\ Wire!ByteAt(Wire!reg2Hex(val), 1) = r1
       /\ Wire!ByteAt(Wire!reg2Hex(val), 2) = r2 /\ Wire!ByteAt(Wire!reg2Hex(val), 3) = v3
  <2>1. \A i \in 0 .. 3 : Wire!ByteAt(Wire!reg2Hex(val), i) = <<val, v1, v2, v3>>[1 + i] % B
    BY <1>1, <1>4, <1>12, DigitsOfByte
  <2>2. /\ Wire!ByteAt(Wire!reg2Hex(val), 0) = val % B /\ Wire!ByteAt(Wire!reg2Hex(val), 1) = v1 % B
        /\ Wire!ByteAt(Wire!reg2Hex(val), 2) = v2 % B /\ Wire!ByteAt(Wire!reg2Hex(val), 3) = v3 % B
    BY <2>1
  <2>. QED
    BY <1>8, <1>9, <1>10, <1>11, <2>2
<1>14. Wire!hex2Reg(Wire!reg2Hex(val)) = val
  BY <1>1, <1>8, <1>9, <1>10, <1>13 DEF Wire!hex2Reg
<1>15. val \div 1 = val /\ val \div B = v1 /\ val \div B2 = v2 /\ val \div B3 = v3
  <2>1. val \div B2 = v2
    <3>1. PICK x : x = r1 * B + r0
      OBVIOUS
    <3>2. x \in 0 .. B2 - 1
      <4>1. r1 * B <= (B - 1) * B /\ (B - 1) * B = B2 - B /\ r1 * B \in Nat
        BY <1>2
      <4>. QED
        BY <3>1, <4>1
    <3>3. val = v2 * B2 + x
      <4>1. val = (v2 * B + r1) * B + r0
        BY <1>8, <1>9
      <4>2. (v2 * B + r1) * B = v2 * (B * B) + r1 * B
        OBVIOUS
      <4>. QED
        BY <1>2, <3>1, <4>1, <4>2
    <3>. QED
      BY <3>2, <3>3, DividesOnly
  <2>2. val \div B3 = v3
    <3>1. PICK x : x = r2 * B2 + (r1 * B + r0)
      OBVIOUS
    <3>2. x \in 0 .. B3 - 1
      <4>1. r1 * B <= (B - 1) * B /\ (B - 1) * B = B2 - B /\ r1 * B \in Nat
        BY <1>2
      <4>2. r2 * B2 <= (B - 1) * B2 /\ (B - 1) * B2 = B3 - B2 /\ r2 * B2 \in Nat
        BY <1>2, <1>3
      <4>. QED
        BY <3>1, <4>1, <4>2
    <3>3. val = v3 * B3 + x
      <4>1. val = ((v3 * B + r2) * B + r1) * B + r0
        BY <1>8, <1>9, <1>10
      <4>2. ((v3 * B + r2) * B + r1) * B = v3 * ((B * B) * B) + r2 * (B * B) + r1 * B
        OBVIOUS
      <4>. QED
        BY <1>2, <1>3, <3>1, <4>1, <4>2
    <3>. QED
      BY <3>2, <3>3, DividesOnly
  <2>. QED
    BY <1>4, <1>5, <2>1, <2>2
<1>16. ASSUME NEW i \in 0 .. 3
       PROVE  Wire!ByteAt(Wire!reg2Hex(val), i) = (val \div Wire!Weights[i + 1]) % Wire!Byte
  <2>1. CASE i = 0
    BY <1>1, <1>4, <1>8, <1>13, <1>15, <2>1
  <2>2. CASE i = 1
    <3>1. val \div Wire!Weights[i + 1] = v1
      BY <1>4, <1>15, <2>2
    <3>. QED
      BY <1>1, <1>9, <1>13, <2>2, <3>1
  <2>3. CASE i = 2
    BY <1>1, <1>4, <1>10, <1>13, <1>15, <2>3
  <2>4. CASE i = 3
    BY <1>1, <1>4, <1>11, <1>13, <1>15, <2>4
  <2>. QED
    BY <2>1, <2>2, <2>3, <2>4
<1>. QED
  BY <1>14, <1>16

\* The values of a byte.
Octets == 0 .. Wire!Byte - 1

\* They are numbers.
LEMMA OctetsAreNumbers == Octets \subseteq Nat
BY ByteFacts DEF Octets

\* Text of the target goes to the client as digits, and comes back.
LEMMA TextRight ==
  ASSUME NEW s \in Seq(Octets)
  PROVE  Wire!hex2Ascii(Wire!ascii2Hex(s)) = s
<1>1. PICK h : h = Wire!ascii2Hex(s)
  OBVIOUS
<1>2. h = [i \in 1 .. 2 * Len(s) |-> LET c == s[(i + 1) \div 2] IN IF i % 2 = 1 THEN c \div Nybble ELSE c % Nybble]
  BY <1>1 DEF Wire!ascii2Hex
<1>3. Len(s) \in Nat /\ Len(h) = 2 * Len(s) /\ Len(h) \div 2 = Len(s)
  BY <1>2
<1>4. ASSUME NEW i \in 1 .. Len(s) PROVE h[2 * i - 1] * Nybble + h[2 * i] = s[i]
  <2>1. /\ 2 * i - 1 \in 1 .. 2 * Len(s) /\ (2 * i - 1 + 1) \div 2 = i /\ (2 * i - 1) % 2 = 1
        /\ 2 * i \in 1 .. 2 * Len(s) /\ (2 * i + 1) \div 2 = i /\ (2 * i) % 2 = 0
    BY <1>3
  <2>2. h[2 * i - 1] = s[i] \div Nybble /\ h[2 * i] = s[i] % Nybble
    BY <1>2, <2>1
  <2>3. s[i] \in Nat
    <3>1. s[i] \in Octets
      OBVIOUS
    <3>. QED
      BY <3>1, OctetsAreNumbers
  <2>. QED
    BY <2>2, <2>3, ByteFacts, Divides
<1>5. Wire!hex2Ascii(h) = [i \in 1 .. Len(s) |-> s[i]]
  BY <1>3, <1>4 DEF Wire!hex2Ascii
<1>. QED
  BY <1>1, <1>5

-----------------------------------------------------------------------------
(* Escaped bytes *)

\* What the loops of the two sides have after each byte.
Unescaping(buf, m, u) ==
    /\ u = [n \in 0 .. m |-> u[n]] /\ u[0] = Wire!Nothing
    /\ \A n \in 1 .. m : u[n] = Wire!Taken(u[n - 1], buf[n])
Escaping(s, m, e) ==
    /\ e = [n \in 0 .. m |-> e[n]] /\ e[0] = <<>>
    /\ \A n \in 1 .. m : e[n] = e[n - 1] \o Wire!OneEscaped(s[n])

\* There is such a function for every number of bytes.
LEMMA UnescapingGoes ==
  ASSUME NEW buf, NEW m \in Nat
  PROVE  \E u : Unescaping(buf, m, u)
<1>. DEFINE S == {n \in Nat : ~\E u : Unescaping(buf, n, u)}
<1>1. S = {}
  <2>. SUFFICES ASSUME S # {} PROVE FALSE
    OBVIOUS
  <2>1. PICK n \in S : \A k \in S : n <= k
    <3>1. S \subseteq Nat
      OBVIOUS
    <3>. HIDE DEF S
    <3>. QED
      BY <3>1, Smallest
  <2>2. n \in Nat
    OBVIOUS
  <2>3. CASE n = 0
    <3>1. PICK u : u = [k \in 0 .. 0 |-> Wire!Nothing]
      OBVIOUS
    <3>2. Unescaping(buf, 0, u)
      BY <3>1 DEF Unescaping
    <3>. QED
      BY <2>3, <3>2
  <2>4. CASE n # 0
    <3>1. n - 1 \in Nat /\ n - 1 \notin S
      BY <2>1, <2>2, <2>4
    <3>2. PICK u : Unescaping(buf, n - 1, u)
      BY <3>1
    <3>3. PICK w : w = [k \in 0 .. n |-> IF k = n THEN Wire!Taken(u[n - 1], buf[n]) ELSE u[k]]
      OBVIOUS
    <3>4. Unescaping(buf, n, w)
      <4>1. w = [k \in 0 .. n |-> w[k]]
        BY <3>3
      <4>2. w[0] = Wire!Nothing
        BY <2>2, <2>4, <3>2, <3>3 DEF Unescaping
      <4>3. ASSUME NEW k \in 1 .. n PROVE w[k] = Wire!Taken(w[k - 1], buf[k])
        <5>1. w[k - 1] = u[k - 1]
          BY <2>2, <3>3
        <5>2. CASE k = n
          BY <2>2, <3>3, <5>1, <5>2
        <5>3. CASE k # n
          <6>1. k \in 1 .. n - 1 /\ w[k] = u[k]
            BY <2>2, <3>3, <5>3
          <6>. QED
            BY <3>2, <5>1, <6>1 DEF Unescaping
        <5>. QED
          BY <5>2, <5>3
      <4>. QED
        BY <4>1, <4>2, <4>3 DEF Unescaping
    <3>. QED
      BY <3>4
  <2>. QED
    BY <2>3, <2>4
<1>. QED
  BY <1>1

\* On the client's side too.
LEMMA EscapingGoes ==
  ASSUME NEW s, NEW m \in Nat
  PROVE  \E e : Escaping(s, m, e)
<1>. DEFINE S == {n \in Nat : ~\E e : Escaping(s, n, e)}
<1>1. S = {}
  <2>. SUFFICES ASSUME S # {} PROVE FALSE
    OBVIOUS
  <2>1. PICK n \in S : \A k \in S : n <= k
    <3>1. S \subseteq Nat
      OBVIOUS
    <3>. HIDE DEF S
    <3>. QED
      BY <3>1, Smallest
  <2>2. n \in Nat
    OBVIOUS
  <2>3. CASE n = 0
    <3>1. PICK e : e = [k \in 0 .. 0 |-> <<>>]
      OBVIOUS
    <3>2. Escaping(s, 0, e)
      BY <3>1 DEF Escaping
    <3>. QED
      BY <2>3, <3>2
  <2>4. CASE n # 0
    <3>1. n - 1 \in Nat /\ n - 1 \notin S
      BY <2>1, <2>2, <2>4
    <3>2. PICK e : Escaping(s, n - 1, e)
      BY <3>1
    <3>3. PICK w : w = [k \in 0 .. n |-> IF k = n THEN e[n - 1] \o Wire!OneEscaped(s[n]) ELSE e[k]]
      OBVIOUS
    <3>4. Escaping(s, n, w)
      <4>1. w = [k \in 0 .. n |-> w[k]]
        BY <3>3
      <4>2. w[0] = <<>>
        BY <2>2, <2>4, <3>2, <3>3 DEF Escaping
      <4>3. ASSUME NEW k \in 1 .. n PROVE w[k] = w[k - 1] \o Wire!OneEscaped(s[k])
        <5>1. w[k - 1] = e[k - 1]
          BY <2>2, <3>3
        <5>2. CASE k = n
          BY <2>2, <3>3, <5>1, <5>2
        <5>3. CASE k # n
          <6>1. k \in 1 .. n - 1 /\ w[k] = e[k]
            BY <2>2, <3>3, <5>3
          <6>. QED
            BY <3>2, <5>1, <6>1 DEF Escaping
        <5>. QED
          BY <5>2, <5>3
      <4>. QED
        BY <4>1, <4>2, <4>3 DEF Escaping
    <3>. QED
      BY <3>4
  <2>. QED
    BY <2>3, <2>4
<1>. QED
  BY <1>1

\* The loops are such functions.
LEMMA UnescapeIs ==
  ASSUME NEW buf, Len(buf) \in Nat
  PROVE  \E u : Unescaping(buf, Len(buf), u) /\ Wire!rspUnescape(buf) = u[Len(buf)][1]
<1>. DEFINE F(u) == [n \in 0 .. Len(buf) |-> IF n = 0 THEN Wire!Nothing ELSE Wire!Taken(u[n - 1], buf[n])]
<1>1. PICK g : Unescaping(buf, Len(buf), g)
  BY UnescapingGoes
<1>2. g = F(g)
  <2>1. g = [n \in 0 .. Len(buf) |-> g[n]]
    BY <1>1 DEF Unescaping
  <2>2. ASSUME NEW n \in 0 .. Len(buf) PROVE g[n] = IF n = 0 THEN Wire!Nothing ELSE Wire!Taken(g[n - 1], buf[n])
    <3>1. n # 0 => n \in 1 .. Len(buf)
      OBVIOUS
    <3>. QED
      BY <1>1, <3>1 DEF Unescaping
  <2>. QED
    BY <2>1, <2>2
<1>3. PICK u : u = CHOOSE f : f = F(f)
  OBVIOUS
<1>4. u = F(u)
  BY <1>2, <1>3
<1>5. Unescaping(buf, Len(buf), u)
  BY <1>4 DEF Unescaping
<1>6. Wire!rspUnescape(buf) = u[Len(buf)][1]
  BY <1>3 DEF Wire!rspUnescape
<1>. QED
  BY <1>5, <1>6

\* Those of the client too.
LEMMA EscapedIs ==
  ASSUME NEW s, Len(s) \in Nat
  PROVE  \E e : Escaping(s, Len(s), e) /\ Wire!Escaped(s) = e[Len(s)]
<1>. DEFINE F(e) == [n \in 0 .. Len(s) |-> IF n = 0 THEN <<>> ELSE e[n - 1] \o Wire!OneEscaped(s[n])]
<1>1. PICK g : Escaping(s, Len(s), g)
  BY EscapingGoes
<1>2. g = F(g)
  <2>1. g = [n \in 0 .. Len(s) |-> g[n]]
    BY <1>1 DEF Escaping
  <2>2. ASSUME NEW n \in 0 .. Len(s) PROVE g[n] = IF n = 0 THEN <<>> ELSE g[n - 1] \o Wire!OneEscaped(s[n])
    <3>1. n # 0 => n \in 1 .. Len(s)
      OBVIOUS
    <3>. QED
      BY <1>1, <3>1 DEF Escaping
  <2>. QED
    BY <2>1, <2>2
<1>3. PICK e : e = CHOOSE f : f = F(f)
  OBVIOUS
<1>4. e = F(e)
  BY <1>2, <1>3
<1>5. Escaping(s, Len(s), e)
  BY <1>4 DEF Escaping
<1>6. Wire!Escaped(s) = e[Len(s)]
  BY <1>3 DEF Wire!Escaped
<1>. QED
  BY <1>5, <1>6

\* How the client's bytes grow: after byte m they are what they were before, and more.
Grows(s, e, m) ==
    /\ e[m] \in Seq(Octets)
    /\ \A n \in 0 .. m : Len(e[n]) \in Nat /\ Len(e[n]) <= Len(e[m]) /\ \A j \in 1 .. Len(e[n]) : e[m][j] = e[n][j]

\* One byte more.
LEMMA OneMore ==
  ASSUME NEW c \in Octets
  PROVE  Wire!OneEscaped(c) \in Seq(Octets)
<1>1. Wire!Escape \in Octets
  BY ByteFacts DEF Wire!Escape, Octets
<1>2. Wire!Turn(c) \in Octets
  BY TurnBack DEF Octets
<1>3. <<Wire!Escape, Wire!Turn(c)>> \in Seq(Octets) /\ <<c>> \in Seq(Octets)
  BY <1>1, <1>2
<1>. QED
  BY <1>3 DEF Wire!OneEscaped

\* The bytes grow like that all the way.
LEMMA EscapedGrows ==
  ASSUME NEW s \in Seq(Octets), NEW e, Escaping(s, Len(s), e), NEW m \in 0 .. Len(s)
  PROVE  Grows(s, e, m)
<1>. DEFINE S == {n \in 0 .. Len(s) : ~Grows(s, e, n)}
<1>0. Len(s) \in Nat
  OBVIOUS
<1>1. S = {}
  <2>. SUFFICES ASSUME S # {} PROVE FALSE
    OBVIOUS
  <2>1. PICK n \in S : \A k \in S : n <= k
    <3>1. S \subseteq Nat
      BY <1>0
    <3>. HIDE DEF S
    <3>. QED
      BY <3>1, Smallest
  <2>2. n \in 0 .. Len(s) /\ ~Grows(s, e, n)
    OBVIOUS
  <2>3. CASE n = 0
    <3>1. e[0] = <<>> /\ <<>> \in Seq(Octets) /\ Len(<<>>) = 0
      BY DEF Escaping
    <3>2. Grows(s, e, 0)
      BY <3>1 DEF Grows
    <3>. QED
      BY <2>2, <2>3, <3>2
  <2>4. CASE n # 0
    <3>1. n - 1 \in 0 .. Len(s) /\ n - 1 \notin S /\ n \in 1 .. Len(s)
      BY <1>0, <2>1, <2>2, <2>4
    <3>2. Grows(s, e, n - 1)
      BY <3>1
    <3>3. PICK a \in Seq(Octets) : a = e[n - 1]
      BY <3>2 DEF Grows
    <3>4. PICK b \in Seq(Octets) : b = Wire!OneEscaped(s[n])
      <4>1. s[n] \in Octets
        BY <3>1
      <4>. QED
        BY <4>1, OneMore
    <3>5. e[n] = a \o b
      BY <3>1, <3>3, <3>4 DEF Escaping
    <3>6. /\ a \o b \in Seq(Octets) /\ Len(a \o b) = Len(a) + Len(b) /\ Len(a) \in Nat /\ Len(b) \in Nat
          /\ \A j \in 1 .. Len(a) : (a \o b)[j] = a[j]
      OBVIOUS
    <3>7. ASSUME NEW k \in 0 .. n
          PROVE  Len(e[k]) \in Nat /\ Len(e[k]) <= Len(e[n]) /\ \A j \in 1 .. Len(e[k]) : e[n][j] = e[k][j]
      <4>1. CASE k = n
        BY <3>5, <3>6, <4>1
      <4>2. CASE k # n
        <5>1. k \in 0 .. n - 1
          BY <2>2, <4>2
        <5>2. Len(e[k]) \in Nat /\ Len(e[k]) <= Len(a) /\ \A j \in 1 .. Len(e[k]) : a[j] = e[k][j]
          BY <3>2, <3>3, <5>1 DEF Grows
        <5>. QED
          BY <3>5, <3>6, <5>2
      <4>. QED
        BY <4>1, <4>2
    <3>8. Grows(s, e, n)
      BY <3>5, <3>6, <3>7 DEF Grows
    <3>. QED
      BY <2>2, <3>8
  <2>. QED
    BY <2>3, <2>4
<1>. QED
  BY <1>1

\* The server has the first n bytes when it has read what they were sent as.
Back(s, e, u, n) == u[Len(e[n])] = <<SubSeq(s, 1, n), FALSE>>

\* So it has byte n then.
LEMMA UnescapedOne ==
  ASSUME NEW s \in Seq(Octets), NEW e, Escaping(s, Len(s), e),
         NEW E \in Seq(Octets), E = e[Len(s)], NEW u, Unescaping(E, Len(E), u),
         NEW n \in 1 .. Len(s), Back(s, e, u, n - 1)
  PROVE  Back(s, e, u, n)
<1>1. PICK c \in Octets : c = s[n]
  OBVIOUS
<1>2. PICK p : p = SubSeq(s, 1, n - 1)
  OBVIOUS
<1>3. Append(p, c) = SubSeq(s, 1, n)
  BY <1>1, <1>2
<1>4. PICK k \in Nat : k = Len(e[n - 1])
  BY EscapedGrows DEF Grows
<1>5. /\ e[n - 1] \in Seq(Octets) /\ Len(e[n]) \in Nat /\ Len(e[n]) <= Len(E) /\ Len(E) \in Nat
      /\ \A j \in 1 .. Len(e[n]) : E[j] = e[n][j]
  <2>1. n - 1 \in 0 .. Len(s) /\ n \in 0 .. Len(s) /\ Len(s) \in 0 .. Len(s)
    OBVIOUS
  <2>2. Grows(s, e, n - 1) /\ Grows(s, e, Len(s))
    BY <2>1, EscapedGrows
  <2>. QED
    BY <2>1, <2>2 DEF Grows
<1>6. e[n] = e[n - 1] \o Wire!OneEscaped(c)
  BY <1>1 DEF Escaping
<1>7. u[k] = <<p, FALSE>>
  BY <1>2, <1>4 DEF Back
<1>10. ASSUME NEW i \in Nat, i + 1 \in 1 .. Len(E) PROVE u[i + 1] = Wire!Taken(u[i], E[i + 1])
  <2>1. \A j \in 1 .. Len(E) : u[j] = Wire!Taken(u[j - 1], E[j])
    BY DEF Unescaping
  <2>2. PICK j \in 1 .. Len(E) : j = i + 1
    BY <1>10
  <2>3. j - 1 = i
    BY <2>2
  <2>. QED
    BY <2>1, <2>2, <2>3
<1>8. CASE c \in Wire!Special
  <2>1. Wire!OneEscaped(c) = <<Wire!Escape, Wire!Turn(c)>>
    BY <1>8 DEF Wire!OneEscaped
  <2>2. Len(e[n]) = k + 2 /\ e[n][k + 1] = Wire!Escape /\ e[n][k + 2] = Wire!Turn(c)
    BY <1>4, <1>5, <1>6, <2>1
  <2>3. /\ k + 1 \in 1 .. Len(E) /\ k + 2 \in 1 .. Len(E)
        /\ E[k + 1] = Wire!Escape /\ E[k + 2] = Wire!Turn(c)
    BY <1>5, <2>2
  <2>4. u[k + 1] = Wire!Taken(<<p, FALSE>>, Wire!Escape)
    BY <1>4, <1>7, <1>10, <2>3
  <2>5. u[k + 1] = <<p, TRUE>>
    BY <2>4 DEF Wire!Taken
  <2>6. u[k + 2] = Wire!Taken(<<p, TRUE>>, Wire!Turn(c))
    <3>1. k + 1 \in Nat /\ k + 1 + 1 = k + 2
      OBVIOUS
    <3>. QED
      BY <1>10, <2>3, <2>5, <3>1
  <2>7. u[k + 2] = <<Append(p, Wire!Turn(Wire!Turn(c))), FALSE>>
    BY <2>6 DEF Wire!Taken
  <2>. QED
    BY <1>3, <2>2, <2>7, TurnBack DEF Octets, Back
<1>9. CASE c \notin Wire!Special
  <2>1. Wire!OneEscaped(c) = <<c>> /\ c # Wire!Escape
    BY <1>9 DEF Wire!OneEscaped, Wire!Special, Wire!Escape
  <2>2. Len(e[n]) = k + 1 /\ e[n][k + 1] = c
    BY <1>4, <1>5, <1>6, <2>1
  <2>3. k + 1 \in 1 .. Len(E) /\ E[k + 1] = c
    BY <1>5, <2>2
  <2>4. u[k + 1] = Wire!Taken(<<p, FALSE>>, c)
    BY <1>4, <1>7, <1>10, <2>3
  <2>5. u[k + 1] = <<Append(p, c), FALSE>>
    BY <2>1, <2>4 DEF Wire!Taken
  <2>. QED
    BY <1>3, <2>2, <2>5 DEF Back
<1>. QED
  BY <1>8, <1>9

\* What the client escapes the server has as it was, however long it is.
THEOREM EscapesRight ==
  ASSUME NEW s \in Seq(Octets)
  PROVE  Wire!rspUnescape(Wire!Escaped(s)) = s
<1>0. Len(s) \in Nat
  OBVIOUS
<1>1. PICK e : Escaping(s, Len(s), e) /\ Wire!Escaped(s) = e[Len(s)]
  BY <1>0, EscapedIs
<1>2. PICK E \in Seq(Octets) : E = e[Len(s)]
  <2>1. Len(s) \in 0 .. Len(s)
    BY <1>0
  <2>. QED
    BY <1>1, <2>1, EscapedGrows DEF Grows
<1>3. PICK u : Unescaping(E, Len(E), u) /\ Wire!rspUnescape(E) = u[Len(E)][1]
  <2>1. Len(E) \in Nat
    OBVIOUS
  <2>. QED
    BY <2>1, UnescapeIs
<1>. DEFINE S == {n \in 0 .. Len(s) : ~Back(s, e, u, n)}
<1>4. S = {}
  <2>. SUFFICES ASSUME S # {} PROVE FALSE
    OBVIOUS
  <2>1. PICK n \in S : \A k \in S : n <= k
    <3>1. S \subseteq Nat
      BY <1>0
    <3>. HIDE DEF S
    <3>. QED
      BY <3>1, Smallest
  <2>2. n \in 0 .. Len(s) /\ ~Back(s, e, u, n)
    OBVIOUS
  <2>3. CASE n = 0
    <3>1. e[0] = <<>> /\ u[0] = <<<<>>, FALSE>>
      BY <1>1, <1>3 DEF Escaping, Unescaping, Wire!Nothing
    <3>2. SubSeq(s, 1, 0) = <<>> /\ Len(<<>>) = 0
      OBVIOUS
    <3>. QED
      BY <2>2, <2>3, <3>1, <3>2 DEF Back
  <2>4. CASE n # 0
    <3>1. n \in 1 .. Len(s) /\ n - 1 \in 0 .. Len(s) /\ n - 1 \notin S
      BY <1>0, <2>1, <2>2, <2>4
    <3>2. Back(s, e, u, n - 1)
      BY <3>1
    <3>3. Back(s, e, u, n)
      BY <1>1, <1>2, <1>3, <3>1, <3>2, UnescapedOne
    <3>. QED
      BY <2>2, <3>3
  <2>. QED
    BY <2>3, <2>4
<1>5. u[Len(E)] = <<SubSeq(s, 1, Len(s)), FALSE>>
  <2>1. Len(s) \in 0 .. Len(s)
    BY <1>0
  <2>2. Back(s, e, u, Len(s))
    BY <1>4, <2>1
  <2>. QED
    BY <1>2, <2>2 DEF Back
<1>6. SubSeq(s, 1, Len(s)) = s
  OBVIOUS
<1>. QED
  BY <1>1, <1>2, <1>3, <1>5, <1>6

\* All codings.
LEMMA CodingsRight == Wire!CodingRight
<1>1. ASSUME NEW n \in 0 .. 3, NEW s \in [1 .. n -> Octets]
      PROVE  Wire!rspUnescape(Wire!Escaped(s)) = s /\ Wire!hex2Ascii(Wire!ascii2Hex(s)) = s
  <2>1. s \in Seq(Octets)
    OBVIOUS
  <2>. QED
    BY <2>1, EscapesRight, TextRight DEF Octets
<1>2. ASSUME NEW n \in 0 .. 2 * BufSize
      PROVE  Wire!packStr(n) < BufSize /\ Wire!packNStr(n) + 1 < BufSize /\ Wire!packHexstr(n) < BufSize
  BY PacketAssumption DEF Wire!packStr, Wire!packNStr, Wire!packHexstr, Wire!Smaller
<1>. QED
  BY <1>1, <1>2, RegisterRight DEF Wire!CodingRight, Octets

\* A client that asks for a document part by part gets all of one version of it, and registers, text and
\* escaped bytes come back as they were, whatever they are.
THEOREM RepliesComeWhole == MCSpec => []RepliesWhole
<1>1. InPart("wire", Wire!DocInv) => RepliesWhole
  BY CodingsRight DEF RepliesWhole, InPart, Wire!DocInv
<1>. QED
  BY <1>1, DocumentsWhole, PTL
==============================================================================
