------------------------------ MODULE Transfers ------------------------------
(***************************************************************************)
(* What the server puts into packets (RspPacket.cpp, Utils.cpp) and how a  *)
(* document that does not fit into one goes to the client in parts, while  *)
(* the tables it tells of may change (rspTransferObject, GdbServer.cpp).   *)
(***************************************************************************)
EXTENDS Integers, Sequences

CONSTANTS BufSize,     \* bytes of a packet, the "PacketSize" the client is told
          Asks,        \* how many bytes the client asks for at a time
          Lengths,     \* of the documents
          MaxChanges,  \* bound: changes of what the document tells
          Nybble       \* values of a hexadecimal digit

VARIABLES doc,       \* the document as the tables stand: its version and length
          reply,     \* the server's copy, made when the client asks for the first part
          got,       \* what the client has, a sequence of <<version, position>>
          done,      \* the client was told that this was the last part
          cut        \* history: a part lost its end
vars == <<doc, reply, got, done, cut>>

Smaller(a, b) == IF a < b THEN a ELSE b

\* The bytes that fit: one for the end of the string, one for the prefix.
packStr(n)    == Smaller(n, BufSize - 1)
packNStr(n)   == IF n + 1 >= BufSize THEN BufSize - 2 ELSE n
packHexstr(n) == 2 * (IF n >= BufSize \div 2 - 1 THEN BufSize \div 2 - 1 ELSE n) + 1

Init ==
    /\ doc \in {[version |-> 0, len |-> n] : n \in Lengths} /\ reply = doc
    /\ got = <<>> /\ done = FALSE /\ cut = FALSE

Change ==
    /\ doc.version < MaxChanges
    /\ \E n \in Lengths : doc' = [version |-> doc.version + 1, len |-> n]
    /\ UNCHANGED <<reply, got, done, cut>>

\* Mutant: every part is taken from a new document.
MadeAnew(offset) == doc
Made(offset) == IF offset = 0 THEN doc ELSE reply

rspTransferObject(length) ==
    LET offset == Len(got)
        d == Made(offset)
        rest == d.len - offset
        sent == packNStr(Smaller(rest, length)) IN
    /\ ~done /\ reply' = d
    /\ IF rest <= 0 THEN got' = got /\ done' = TRUE /\ cut' = cut
       ELSE /\ got' = got \o [i \in 1 .. sent |-> <<d.version, offset + i>>]
            /\ done' = (rest <= length)
            /\ cut' = (cut \/ (done' /\ sent < rest))
    /\ UNCHANGED doc

Next == Change \/ \E n \in Asks : rspTransferObject(n)
Spec == Init /\ [][Next]_vars

\* What the client has put together is the beginning of one document, and all of it in the end,
\* unless the last part was longer than a packet holds.
TransferWhole ==
    /\ got = [i \in 1 .. Len(got) |-> <<reply.version, i>>]
    /\ done /\ ~cut => Len(got) = reply.len

\* Why: the client's place is within the document the server has kept for it.
Documents == [version : Nat, len : Nat]
DocInv ==
    /\ doc \in Documents /\ reply \in Documents /\ Len(got) \in 0 .. reply.len
    /\ TransferWhole

-----------------------------------------------------------------------------
(* Values on the line: four bytes of two digits, the lowest byte first *)

Byte == Nybble * Nybble
\* The value, as the loop divides it.
Divided(val) == <<val, val \div Byte, (val \div Byte) \div Byte, ((val \div Byte) \div Byte) \div Byte>>
reg2Hex(val) ==
    [n \in 0 .. 7 |-> LET byte == Divided(val)[1 + (n \div 2)] % Byte
                      IN IF n % 2 = 0 THEN byte \div Nybble ELSE byte % Nybble]
ByteAt(buf, i) == buf[2 * i] * Nybble + buf[2 * i + 1]
hex2Reg(buf) == ((ByteAt(buf, 3) * Byte + ByteAt(buf, 2)) * Byte + ByteAt(buf, 1)) * Byte + ByteAt(buf, 0)

ascii2Hex(s) == [i \in 1 .. 2 * Len(s) |->
                    LET c == s[(i + 1) \div 2] IN IF i % 2 = 1 THEN c \div Nybble ELSE c % Nybble]
hex2Ascii(h) == [i \in 1 .. Len(h) \div 2 |-> h[2 * i - 1] * Nybble + h[2 * i]]

\* An escaped byte follows an escape, with one bit turned.
Turn(c) == (c + Byte \div 2) % Byte
Escape == 1
Special == {0, 1}
\* What the bytes so far give, and whether the next is escaped: at first, and after one more.
Nothing == <<<<>>, FALSE>>
Taken(r, c) ==
    CASE r[2] -> <<Append(r[1], Turn(c)), FALSE>>
      [] ~r[2] /\ c = Escape -> <<r[1], TRUE>>
      [] OTHER -> <<Append(r[1], c), FALSE>>
rspUnescape(buf) ==
    LET f[n \in 0 .. Len(buf)] == IF n = 0 THEN Nothing ELSE Taken(f[n - 1], buf[n])
    IN f[Len(buf)][1]

\* The client's side.
OneEscaped(c) == IF c \in Special THEN <<Escape, Turn(c)>> ELSE <<c>>
Escaped(s) ==
    LET f[n \in 0 .. Len(s)] == IF n = 0 THEN <<>> ELSE f[n - 1] \o OneEscaped(s[n])
    IN f[Len(s)]

Weights == <<1, Byte, Byte * Byte, Byte * Byte * Byte>>
\* What is coded comes back, byte by byte and in the order of the target, whatever the data is, and
\* no packet is longer than its buffer.
CodingRight ==
    /\ \A val \in 0 .. Weights[4] * Byte - 1 :
         /\ hex2Reg(reg2Hex(val)) = val
         /\ \A i \in 0 .. 3 : ByteAt(reg2Hex(val), i) = (val \div Weights[i + 1]) % Byte
    /\ \A s \in UNION {[1 .. n -> 0 .. Byte - 1] : n \in 0 .. 3} :
         rspUnescape(Escaped(s)) = s /\ hex2Ascii(ascii2Hex(s)) = s
    /\ \A n \in 0 .. 2 * BufSize : packStr(n) < BufSize /\ packNStr(n) + 1 < BufSize /\ packHexstr(n) < BufSize
=============================================================================
