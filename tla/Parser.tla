------------------------------- MODULE Parser --------------------------------
(***************************************************************************)
(* The frame parser of src/network/packet/parser.go and the byte stream   *)
(* between two TCPConns that use it: one end frames the buffers of each   *)
(* WriteMsg with Packet and writes the frame; the other end's agent.Run    *)
(* calls ReadMsg, that is UnPacket, until it fails.                        *)
(*                                                                         *)
(* Header bytes are the integers 0..255 the code writes.  Payload bytes   *)
(* are model values: the parser copies them and never looks at them.       *)
(* The parser's options are any that NewParser may be given, so Init      *)
(* holds every configuration setDefault can produce from them.            *)
(***************************************************************************)
EXTENDS Naturals, Sequences, SequencesExt

CONSTANTS
    PayloadBytes,  \* the payload byte values, model values
    Bufs,          \* the byte slices a WriteMsg may be given
    MaxBufs,       \* bound on the slices of one WriteMsg(args...)
    HeaderOpts,    \* values passed to WithHeader
    MinOpts,       \* values passed to WithMinLen
    MaxOpts,       \* values passed to WithMaxLen
    MaxWrites      \* bound on the WriteMsg calls of a behaviour

ASSUME Bufs \subseteq Seq(PayloadBytes) /\ MaxBufs \in Nat /\ MaxWrites \in Nat

VARIABLES
    cfg,     \* the parser both ends built with NewParser
    stream,  \* bytes written by the sender and not yet read
    eof,     \* the sender has closed its socket
    sent,    \* the payload of every frame written, in order
    recvd,   \* the payload of every ReadMsg that succeeded, in order
    rerr     \* the error that ended agent.Run, or "none" while it runs

vars == <<cfg, stream, eof, sent, recvd, rerr>>

Byte == 0..255

Errors == {"none", "MessageTooShort", "MessageTooLong", "EOF", "UnexpectedEOF"}

(* The argument lists of WriteMsg(args...).                                *)
BufLists == UNION {[1..n -> Bufs] : n \in 0..MaxBufs}

-----------------------------------------------------------------------------
(* Fault variants: plausible mistakes in the operators below, each of     *)
(* which a property must detect.                                          *)

(* The header reader ignores the configured byte order.                   *)
DecodeUintBigEndian(hb, little) ==
    FoldLeft(LAMBDA acc, b : acc * 256 + b, 0, hb)

-----------------------------------------------------------------------------
(* Encoding of the length header.                                         *)

(* The n bytes of v: byte(v) for n = 1, PutUint16 / PutUint32 otherwise.   *)
PutUint(n, v, little) ==
    LET be == [i \in 1..n |-> (v \div 256^(n - i)) % 256]
    IN  IF little THEN Reverse(be) ELSE be

(* uint32(hb[0]), byteOrder.Uint16(hb), byteOrder.Uint32(hb).             *)
DecodeUint(hb, little) ==
    FoldLeft(LAMBDA acc, b : acc * 256 + b, 0, IF little THEN Reverse(hb) ELSE hb)

(* setDefault forgets to replace a header width other than 1, 2 or 4.   *)
NewParserNoHeaderDefault(h, mn, mx, little) ==
    LET minLen == IF mn = 0 THEN 1 ELSE mn
        maxLen == IF mx = 0 THEN 4096 ELSE mx
        clamp(v) == IF h # 4 /\ v > 256^h - 1 THEN 256^h - 1 ELSE v
    IN  [hLen |-> h, minLen |-> clamp(minLen), maxLen |-> clamp(maxLen),
         littleEndian |-> little]

(* NewParser and setDefault: a header width other than 1, 2 or 4 becomes *)
(* 2, a zero minimum 1, a zero maximum 4096; both bounds are clamped to   *)
(* what the header can hold.  For a 4-byte header the bounds are uint32   *)
(* values already, and the clamp to MaxUint32 changes nothing.            *)
NewParser(h, mn, mx, little) ==
    LET hLen   == IF h \in {1, 2, 4} THEN h ELSE 2
        minLen == IF mn = 0 THEN 1 ELSE mn
        maxLen == IF mx = 0 THEN 4096 ELSE mx
        clamp(v) == IF hLen # 4 /\ v > 256^hLen - 1 THEN 256^hLen - 1 ELSE v
    IN  [hLen |-> hLen, minLen |-> clamp(minLen), maxLen |-> clamp(maxLen),
         littleEndian |-> little]

(* Packet: the summed length is bounds-checked, then the header and the   *)
(* concatenated buffers form one frame.  The uint32 sum cannot wrap with   *)
(* the buffers of this model.                                             *)
Packet(p, msgs) ==
    LET data == FlattenSeq(msgs)
        mLen == Len(data)
    IN  CASE mLen < p.minLen -> [err |-> "MessageTooShort", out |-> <<>>]
          [] mLen > p.maxLen -> [err |-> "MessageTooLong", out |-> <<>>]
          [] OTHER -> [err |-> "none",
                       out |-> PutUint(p.hLen, mLen, p.littleEndian) \o data]

(* UnPacket rejects a body of exactly maxMsgLen (>= for >).               *)
UnPacketRejectsMax(p, s, closed) ==
    LET short(k) == IF ~closed THEN "wait" ELSE IF k = 0 THEN "EOF" ELSE "UnexpectedEOF"
        fail(e, rest) == [err |-> e, msg |-> <<>>, rest |-> rest]
    IN  IF Len(s) < p.hLen THEN fail(short(Len(s)), <<>>)
        ELSE LET mLen == DecodeUint(SubSeq(s, 1, p.hLen), p.littleEndian)
                 body == SubSeq(s, p.hLen + 1, Len(s))
             IN  CASE mLen < p.minLen   -> fail("MessageTooShort", body)
                   [] mLen >= p.maxLen  -> fail("MessageTooLong", body)
                   [] Len(body) < mLen  -> fail(short(Len(body)), <<>>)
                   [] OTHER -> [err |-> "none", msg |-> SubSeq(body, 1, mLen),
                                rest |-> SubSeq(body, mLen + 1, Len(body))]

(* UnPacket over the bytes s of the socket: io.ReadFull of the header,    *)
(* the bounds check, io.ReadFull of the body.  "wait" is a ReadFull that  *)
(* blocks until more bytes arrive; at end of stream ReadFull fails with    *)
(* EOF when it read nothing and with UnexpectedEOF when it read a part.    *)
UnPacket(p, s, closed) ==
    LET short(k) == IF ~closed THEN "wait" ELSE IF k = 0 THEN "EOF" ELSE "UnexpectedEOF"
        fail(e, rest) == [err |-> e, msg |-> <<>>, rest |-> rest]
    IN  IF Len(s) < p.hLen THEN fail(short(Len(s)), <<>>)
        ELSE LET mLen == DecodeUint(SubSeq(s, 1, p.hLen), p.littleEndian)
                 body == SubSeq(s, p.hLen + 1, Len(s))
             IN  CASE mLen < p.minLen   -> fail("MessageTooShort", body)
                   [] mLen > p.maxLen   -> fail("MessageTooLong", body)
                   [] Len(body) < mLen  -> fail(short(Len(body)), <<>>)
                   [] OTHER -> [err |-> "none", msg |-> SubSeq(body, 1, mLen),
                                rest |-> SubSeq(body, mLen + 1, Len(body))]

-----------------------------------------------------------------------------
TypeOK ==
    /\ cfg \in [hLen : {1, 2, 4}, minLen : Nat, maxLen : Nat, littleEndian : BOOLEAN]
    /\ stream \in Seq(Byte \cup PayloadBytes)
    /\ eof \in BOOLEAN
    /\ sent \in Seq(Seq(PayloadBytes)) /\ Len(sent) <= MaxWrites
    /\ recvd \in Seq(Seq(PayloadBytes))
    /\ rerr \in Errors

Init ==
    /\ \E h \in HeaderOpts, mn \in MinOpts, mx \in MaxOpts, little \in BOOLEAN :
          cfg = NewParser(h, mn, mx, little)
    /\ stream = <<>>
    /\ eof = FALSE
    /\ sent = <<>>
    /\ recvd = <<>>
    /\ rerr = "none"

(* The sender's TCPConn.WriteMsg(args...): Packet, then the frame goes out *)
(* whole, in order, through the write queue; a Packet error writes        *)
(* nothing and changes no state.  MaxWrites bounds the frames written.   *)
WriteMsg(msgs) ==
    /\ ~eof
    /\ Len(sent) < MaxWrites
    /\ LET r == Packet(cfg, msgs)
       IN  /\ r.err = "none"
           /\ stream' = stream \o r.out
           /\ sent' = Append(sent, FlattenSeq(msgs))
    /\ UNCHANGED <<cfg, eof, recvd, rerr>>

(* The sender closes its socket; the bytes already written stay readable. *)
Hangup ==
    /\ ~eof
    /\ eof' = TRUE
    /\ UNCHANGED <<cfg, stream, sent, recvd, rerr>>

(* One turn of agent.Run: ReadMsg returns a message, or an error that     *)
(* breaks the loop.  A ReadFull that would block is no step.              *)
ReadMsg ==
    /\ rerr = "none"
    /\ LET r == UnPacket(cfg, stream, eof)
       IN  /\ r.err # "wait"
           /\ stream' = r.rest
           /\ rerr' = r.err
           /\ recvd' = IF r.err = "none" THEN Append(recvd, r.msg) ELSE recvd
    /\ UNCHANGED <<cfg, eof, sent>>

Next ==
    \/ \E msgs \in BufLists : WriteMsg(msgs)
    \/ Hangup
    \/ ReadMsg

(* The reading agent's goroutine runs while bytes are available.          *)
Spec == Init /\ [][Next]_vars /\ WF_vars(ReadMsg)

-----------------------------------------------------------------------------
(* Properties.                                                            *)

(* Every ReadMsg of the receiving agent returns, in order, the            *)
(* concatenated buffers of the sender's WriteMsg calls, and agent.Run     *)
(* ends only at the end of the stream, after every frame: what Packet      *)
(* writes, UnPacket accepts, under every configuration setDefault makes.   *)
FramesRoundTrip ==
    /\ IsPrefix(recvd, sent)
    /\ rerr \in {"none", "EOF"}
    /\ rerr = "EOF" => recvd = sent

(* Every frame written is eventually returned by a ReadMsg.               *)
AllFramesDelivered ==
    \A k \in 1..MaxWrites : Len(sent) >= k ~> Len(recvd) >= k

=============================================================================
