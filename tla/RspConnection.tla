---------------------------- MODULE RspConnection ----------------------------
(***************************************************************************)
(* The connection between the e-server and its client (RspConnection.cpp): *)
(* packets with acknowledgements and retransmission, ctrl-C in the same    *)
(* stream of characters, and the client that comes and goes.  On top of it *)
(* the two kinds of requests that need more than one look: "continue",     *)
(* answered when the target stops or the client presses ctrl-C, and the    *)
(* transfer of an object (rspTransferObject) chunk by chunk.               *)
(*                                                                         *)
(* A packet is one token of the stream, good or damaged.  The client is    *)
(* GDB: it sends a packet again on "-" and when it gets no answer in time, *)
(* takes what comes before its "+" for an old reply, and acknowledges      *)
(* every packet.                                                           *)
(***************************************************************************)
EXTENDS Integers, Sequences, SequencesExt

CONSTANTS Chunks,         \* packets the object needs
          MaxRequests,    \* bounds: requests of a client, objects,
          MaxVersion,
          MaxFaults,      \* damaged packets and timeouts,
          MaxBreaks,      \* ctrl-C pressed,
          MaxSessions     \* connections, failed ones included

Continue == -1
Asked == {Continue} \cup 0 .. Chunks - 1      \* a request: continue, or a chunk of the object

VARIABLES pc,        \* the server: "connect", "get", "run", "put", "ack", "dead"
          reply,     \* the packet it sends
          cache,     \* qXferThreadsReply and its like: the object as it was at the first chunk
          pendBrk,   \* mPendingBreak
          leaked,    \* a socket that still listens
          version,   \* the object itself
          toServer, toClient,
          want,      \* the client: "gone", "idle", "ack", "reply"
          id, ask,   \* its request, numbered
          got,       \* the chunks it has
          taken,     \* history: the last reply it took, and the request then
          runs,      \* history: how often the request was carried out, how often it was sent
          used       \* bounds used up: faults, breaks, sessions

srv  == <<pc, reply, cache, pendBrk, leaked>>
gdb  == <<want, id, ask, got, taken>>
wire == <<toServer, toClient>>
vars == <<srv, version, wire, gdb, runs, used>>

Token(k) == [kind |-> k, id |-> 0, ask |-> Continue, ver |-> 0, ok |-> TRUE]
Packet(i, a, v) == [kind |-> "packet", id |-> i, ask |-> a, ver |-> v, ok |-> TRUE]
Ack == Token("+")
Nak == Token("-")
Break == Token("break")
Eof == Token("eof")
Request == Packet(id, ask, 0)

Init ==
    /\ pc = "connect" /\ reply = Packet(0, Continue, 0) /\ cache = 0 /\ pendBrk = FALSE /\ leaked = FALSE
    /\ version = 1 /\ toServer = <<>> /\ toClient = <<>>
    /\ want = "gone" /\ id = 0 /\ ask = Continue /\ got = <<>> /\ taken = [id |-> 0, wanted |-> 0]
    /\ runs = 0 /\ used = [timeouts |-> 0, damage |-> 0, breaks |-> 0, sessions |-> 0]

Use(k) == used' = [used EXCEPT ![k] = @ + 1]
Faults == used.timeouts + used.damage

-----------------------------------------------------------------------------
(* The server *)

\* rspConnect.  When accept fails the listening socket stays open, and the port
\* cannot be bound again: the server ends.
Accept ==
    /\ pc = "connect" /\ ~leaked /\ used.sessions < MaxSessions /\ Use("sessions")
    /\ pc' = "get" /\ want' = "idle" /\ toServer' = <<>> /\ toClient' = <<>>
    /\ id' = 0 /\ ask' = Continue /\ got' = <<>> /\ taken' = [id |-> 0, wanted |-> 0] /\ runs' = 0
    /\ UNCHANGED <<reply, cache, pendBrk, leaked, version>>
AcceptFails ==
    /\ pc = "connect" /\ ~leaked /\ used.sessions < MaxSessions /\ Use("sessions") /\ leaked' = TRUE
    /\ UNCHANGED <<pc, reply, cache, pendBrk, version, wire, gdb, runs>>
BindFails ==
    /\ pc = "connect" /\ leaked /\ pc' = "dead"
    /\ UNCHANGED <<reply, cache, pendBrk, leaked, version, wire, gdb, runs, used>>

Incoming(states, kind) == pc \in states /\ toServer # <<>> /\ Head(toServer).kind = kind
Read == toServer' = Tail(toServer)

\* getPkt outside a packet: a ctrl-C is remembered, other characters are not.
GetBreak ==
    /\ Incoming({"get"}, "break") /\ Read /\ pendBrk' = TRUE
    /\ UNCHANGED <<pc, reply, cache, leaked, version, toClient, gdb, runs, used>>
GetStray ==
    /\ Incoming({"get"}, "+") \/ Incoming({"get"}, "-")
    /\ Read /\ UNCHANGED <<srv, version, toClient, gdb, runs, used>>
\* getPkt fails, and the connection is closed.
GetEof ==
    /\ Incoming({"get"}, "eof") /\ Read /\ pc' = "connect" /\ toClient' = <<>>
    /\ UNCHANGED <<reply, cache, pendBrk, leaked, version, gdb, runs, used>>

\* getPkt: a packet, acknowledged and carried out.
GetDamagedAnswered ==
    /\ Incoming({"get"}, "packet") /\ ~Head(toServer).ok /\ Read /\ toClient' = Append(toClient, Ack)
    /\ pc' = "put" /\ UNCHANGED <<reply, cache, pendBrk, leaked, version, gdb, runs, used>>
GetDamaged ==
    /\ Incoming({"get"}, "packet") /\ ~Head(toServer).ok /\ Read /\ toClient' = Append(toClient, Nak)
    /\ UNCHANGED <<srv, version, gdb, runs, used>>
GetPkt ==
    /\ Incoming({"get"}, "packet") /\ Head(toServer).ok /\ Read /\ toClient' = Append(toClient, Ack)
    /\ runs' = IF Head(toServer).id = id THEN runs + 1 ELSE runs
GetContinue ==
    /\ GetPkt /\ Head(toServer).ask = Continue
    /\ pc' = "run" /\ reply' = Head(toServer)
    /\ UNCHANGED <<cache, pendBrk, leaked, version, gdb, used>>
Object(a) == IF a = 0 THEN version ELSE cache

\* rspTransferObject: the object is made anew for its first chunk.
rspTransferObject ==
    /\ GetPkt /\ Head(toServer).ask # Continue
    /\ cache' = Object(Head(toServer).ask)
    /\ reply' = Packet(Head(toServer).id, Head(toServer).ask, cache') /\ pc' = "put"
    /\ UNCHANGED <<pendBrk, leaked, version, gdb, used>>

\* waitAllThreads: the target stops by itself, or getBreakCommand reads a ctrl-C; any
\* other character it reads is lost, and with it the packet it belongs to.
TargetStops ==
    /\ pc = "run" /\ pc' = "put"
    /\ UNCHANGED <<reply, cache, pendBrk, leaked, version, wire, gdb, runs, used>>
PendingBreak ==
    /\ pc = "run" /\ pendBrk /\ pendBrk' = FALSE /\ pc' = "put"
    /\ UNCHANGED <<reply, cache, leaked, version, wire, gdb, runs, used>>
GetBreakCommand ==
    /\ Incoming({"run"}, "break") /\ ~pendBrk /\ Read /\ pc' = "put"
    /\ UNCHANGED <<reply, cache, pendBrk, leaked, version, toClient, gdb, runs, used>>
BreakStray ==
    /\ ~pendBrk /\ \E k \in {"+", "-", "packet"} : Incoming({"run"}, k)
    /\ Read /\ UNCHANGED <<srv, version, toClient, gdb, runs, used>>

\* putPkt: again and again until a "+" comes; anything else it reads is a nak.
PutPkt ==
    /\ pc = "put" /\ pc' = "ack"
    /\ toClient' = IF want = "gone" THEN toClient ELSE Append(toClient, reply)
    /\ UNCHANGED <<reply, cache, pendBrk, leaked, version, toServer, gdb, runs, used>>
PutAcked ==
    /\ Incoming({"ack"}, "+") /\ Read /\ pc' = "get"
    /\ UNCHANGED <<reply, cache, pendBrk, leaked, version, toClient, gdb, runs, used>>
PutEof ==
    /\ Incoming({"ack"}, "eof") /\ pc' = "get"
    /\ UNCHANGED <<reply, cache, pendBrk, leaked, version, wire, gdb, runs, used>>
PutOnce ==
    /\ \E k \in {"-", "break", "packet"} : Incoming({"ack"}, k)
    /\ Read /\ pc' = "get"
    /\ UNCHANGED <<reply, cache, pendBrk, leaked, version, toClient, gdb, runs, used>>
PutAgain ==
    /\ \E k \in {"-", "break", "packet"} : Incoming({"ack"}, k)
    /\ Read /\ pc' = "put"
    /\ UNCHANGED <<reply, cache, pendBrk, leaked, version, toClient, gdb, runs, used>>

-----------------------------------------------------------------------------
(* The client and the line *)

Say(t) == toServer' = Append(toServer, t)
Send(a) ==
    /\ want = "idle" /\ id < MaxRequests /\ a \in {Continue, Len(got) % Chunks}
    /\ id' = id + 1 /\ ask' = a /\ want' = "ack" /\ runs' = 0
    /\ Say(Packet(id + 1, a, 0))
    /\ UNCHANGED <<srv, version, toClient, got, taken, used>>

Reads(states, kind) == want \in states /\ toClient # <<>> /\ Head(toClient).kind = kind
                       /\ toClient' = Tail(toClient)
TakeAck ==
    /\ Reads({"ack"}, "+") /\ want' = "reply"
    /\ UNCHANGED <<srv, version, toServer, id, ask, got, taken, runs, used>>
TakeNak ==
    /\ Reads({"ack"}, "-") /\ Say(Request)
    /\ UNCHANGED <<srv, version, gdb, runs, used>>
SkipOld ==
    /\ Reads({"ack"}, "packet") /\ Say(Ack)
    /\ UNCHANGED <<srv, version, gdb, runs, used>>
SkipStray ==
    /\ Reads({"reply"}, "+") \/ Reads({"reply"}, "-")
    /\ UNCHANGED <<srv, version, toServer, gdb, runs, used>>
TakeDamaged ==
    /\ Reads({"reply"}, "packet") /\ ~Head(toClient).ok /\ Say(Nak)
    /\ UNCHANGED <<srv, version, gdb, runs, used>>
TakeReply ==
    /\ Reads({"reply"}, "packet") /\ Head(toClient).ok /\ Say(Ack)
    /\ want' = "idle" /\ taken' = [id |-> Head(toClient).id, wanted |-> id]
    /\ got' = IF ask = Continue THEN got
              ELSE IF ask = 0 THEN <<Head(toClient).ver>> ELSE Append(got, Head(toClient).ver)
    /\ UNCHANGED <<srv, version, id, ask, runs, used>>

\* The client loses patience, is interrupted, goes away.
Timeout ==
    /\ Faults < MaxFaults /\ Use("timeouts")
    /\ \/ want = "ack" /\ Say(Request)
       \/ want = "reply" /\ ask # Continue /\ Say(Nak)
    /\ UNCHANGED <<srv, version, toClient, gdb, runs>>
PressCtrlC ==
    /\ want = "reply" /\ ask = Continue /\ used.breaks < MaxBreaks /\ Use("breaks") /\ Say(Break)
    /\ UNCHANGED <<srv, version, toClient, gdb, runs>>
Leave ==
    /\ want # "gone" /\ want' = "gone" /\ Say(Eof) /\ toClient' = <<>>
    /\ UNCHANGED <<srv, version, id, ask, got, taken, runs, used>>

\* A packet on the line is damaged; the object changes.
Damage ==
    /\ Faults < MaxFaults /\ Use("damage")
    /\ \/ \E i \in DOMAIN toServer : toServer[i].kind = "packet" /\ toServer[i].ok
             /\ toServer' = [toServer EXCEPT ![i].ok = FALSE] /\ UNCHANGED toClient
       \/ \E i \in DOMAIN toClient : toClient[i].kind = "packet" /\ toClient[i].ok
             /\ toClient' = [toClient EXCEPT ![i].ok = FALSE] /\ UNCHANGED toServer
    /\ UNCHANGED <<srv, version, gdb, runs>>
ObjectChanges ==
    /\ version < MaxVersion /\ version' = version + 1 /\ UNCHANGED <<srv, wire, gdb, runs, used>>

-----------------------------------------------------------------------------
Connecting == Accept \/ AcceptFails \/ BindFails
Getting == GetBreak \/ GetStray \/ GetEof \/ GetDamaged \/ GetContinue \/ rspTransferObject
Waiting == PendingBreak \/ GetBreakCommand \/ BreakStray
Putting == PutPkt \/ PutAcked \/ PutEof \/ PutAgain
Taking == TakeAck \/ TakeNak \/ SkipOld \/ SkipStray \/ TakeDamaged \/ TakeReply
Environment == TargetStops \/ (\E a \in Asked : Send(a)) \/ Timeout \/ PressCtrlC \/ Leave \/ Damage \/ ObjectChanges
Next == Connecting \/ Getting \/ Waiting \/ Putting \/ Taking \/ Environment

\* Server and client go on reading; nobody has to ask, and the target need not stop.
Fairness == WF_vars(Getting) /\ WF_vars(Waiting) /\ WF_vars(Putting) /\ WF_vars(Taking)
Spec == Init /\ [][Next]_vars /\ Fairness

-----------------------------------------------------------------------------
\* The client takes the reply to the request it has sent last, although replies are
\* sent again on damage and on a ctrl-C that crosses them.  (A request repeated after
\* a timeout is carried out twice, and its second reply can be taken for the next one's.)
AnswersMatch == used.timeouts = 0 => taken.id = taken.wanted

\* An object that changes while it is read is read as it was at one moment
\* (rspTransferObject keeps it in a cache).
OneVersion == used.timeouts = 0 => \A i, j \in DOMAIN got : got[i] = got[j]

\* Damage alone does not make the server carry a request out twice.
CarriedOutOnce == used.timeouts = 0 => runs <= 1

\* Every request but "continue" is answered, whatever is damaged.  (Unless a ctrl-C has
\* crossed a reply: the "+" for the reply sent again acknowledges the next one, and when
\* that one is damaged its "-" is ignored.)
Answered == (want \in {"ack", "reply"} /\ ask # Continue /\ used.breaks = 0) ~> want \in {"idle", "gone"}

\* A ctrl-C pressed while the target runs stops it.
BreakAnswered == (want = "reply" /\ Break \in Range(toServer)) ~> want # "reply"
-----------------------------------------------------------------------------
(* Why: one request is on its way, being answered, or answered, and the client takes for its
   answer only what comes behind the "+". *)

Kinds == {"+", "-", "break", "eof", "packet"}
Tokens == [kind : Kinds, id : Int, ask : Int, ver : Int, ok : BOOLEAN]
Typed ==
    /\ toServer \in Seq(Tokens) /\ toClient \in Seq(Tokens) /\ reply \in Tokens /\ reply.kind = "packet"
    /\ want \in {"gone", "idle", "ack", "reply"} /\ id \in Int /\ ask \in Int
    /\ version \in Int /\ cache \in Int /\ got \in Seq(Int)
    /\ used \in [timeouts : Nat, damage : Nat, breaks : Nat, sessions : Nat]

\* What a stream may hold: nothing but packets, or one more token behind them; of requests
\* one, with the given number and kind, and a "+" before it; answers to a request.
OnlyPackets(s) == \A i \in DOMAIN s : s[i].kind = "packet"
HasPacket(s) == \E i \in DOMAIN s : s[i].kind = "packet"
HasAck(s) == \E j \in DOMAIN s : s[j].kind = "+"
HasEof(s) == \E j \in DOMAIN s : s[j].kind = "eof"
OneRequest(s, i, a) ==
    /\ \A j, k \in DOMAIN s : s[j].kind = "packet" /\ s[k].kind = "packet" => j = k
    /\ \A k \in DOMAIN s : s[k].kind = "packet" => s[k].id = i /\ s[k].ask = a
AckBefore(s) == \A k \in DOMAIN s : s[k].kind = "packet" => \E j \in 1 .. k - 1 : s[j].kind = "+"
Answers(p, i, a, v) == p.kind = "packet" /\ p.id = i /\ (a # Continue => p.ver = v)
AllAnswers(s, i, a, v) == \A k \in DOMAIN s : Answers(s[k], i, a, v)
PacketsThen(s, kind) == s # <<>> /\ s[Len(s)].kind = kind /\ \A i \in 1 .. Len(s) - 1 : s[i].kind = "packet"
AckThenAnswers(s, i, a, v) ==
    \E k \in DOMAIN s : /\ s[k].kind = "+" /\ \A j \in 1 .. k - 1 : s[j].kind = "packet"
                        /\ \A j \in DOMAIN s : j > k => Answers(s[j], i, a, v)

\* One request at most is on its way; the reply before it was acknowledged first.
Requested ==
    /\ runs \in {0, 1} /\ OneRequest(toServer, id, ask) /\ (HasPacket(toServer) => runs = 0)
    /\ pc \in {"put", "ack"} /\ want # "gone" => AckBefore(toServer)
    /\ HasEof(toServer) => want = "gone"
Answering == ~HasPacket(toServer) /\ runs = 1 /\ (pc \in {"run", "put", "ack"} => Answers(reply, id, ask, cache))

WhenIdle ==
    want = "idle" =>
        /\ ~HasPacket(toServer) /\ OnlyPackets(toClient) /\ pc # "run"
        /\ pc \in {"put", "ack"} => HasAck(toServer)
Sent == HasPacket(toServer) /\ OnlyPackets(toClient) /\ pc # "run"
Refused == ~HasPacket(toServer) /\ PacketsThen(toClient, "-") /\ pc \notin {"run", "put", "ack"} /\ runs = 0
Carried == Answering /\ AckThenAnswers(toClient, id, ask, cache)
WhenSent == want = "ack" => Sent \/ Refused \/ Carried
WhenAcked == want = "reply" => Answering /\ AllAnswers(toClient, id, ask, cache)
Running == pc = "run" => (want = "ack" => PacketsThen(toClient, "+")) /\ (want = "reply" => toClient = <<>>)

\* What the client has is of the server's copy, unless that was just made anew.
Same(s) == \A i, j \in DOMAIN s : s[i] = s[j]
AllAre(s, v) == \A i \in DOMAIN s : s[i] = v
OneCopy ==
    Same(got) /\ (want = "gone" \/ (want \in {"ack", "reply"} /\ runs = 1 /\ ask = 0) \/ AllAre(got, cache))

Patient == Requested /\ WhenIdle /\ WhenSent /\ WhenAcked /\ Running /\ OneCopy /\ taken.id = taken.wanted
LineInv == Typed /\ (used.timeouts = 0 => Patient)
=============================================================================
