----------------------------- MODULE FrameCodec -----------------------------
(***************************************************************************)
(* The framing of ppaass messages on the agent-proxy connection            *)
(* (common/src/codec/proxy.rs and agent.rs, which differ only in the       *)
(* message types): Encoder::encode appends a frame to the write buffer of  *)
(* a Framed, tcp delivers the bytes in pieces of any size, and             *)
(* Decoder::decode is called on the read buffer until it needs more.       *)
(*                                                                         *)
(* A frame is the flag, one byte that says whether the body is compressed, *)
(* the length of the body as a big-endian number, and the body.  Bytes are *)
(* cells; the flag has FlagLen cells instead of 10, the length two digits  *)
(* to base LenBase instead of eight to base 256, and the body of message m *)
(* has BodyLength[m] cells, each of which knows its place and whether it   *)
(* went through gzip.                                                      *)
(***************************************************************************)
EXTENDS Integers, Sequences

CONSTANTS
    BodyLength,   \* the body lengths of the messages to send, in order
    FlagLen,      \* length of PPAASS_FLAG
    LenBase,      \* base of the two digits of the length field
    compress      \* the sender's configuration

ASSUME FlagLenAssumption == FlagLen \in Nat \ {0}
ASSUME CompressAssumption == compress \in BOOLEAN
ASSUME BodyLengthAssumption ==
    /\ LenBase \in Nat \ {0}
    /\ BodyLength \in Seq(1..(LenBase * LenBase - 1))

VARIABLES
    sender,    \* "open" or "closed": the sending Framed
    next,      \* the next message to encode
    wbuf,      \* bytes encoded and not yet received
    rbuf,      \* the read buffer of the receiving Framed
    readable,  \* Framed's is_readable: decode before reading again
    status,    \* the decoder's DecodeStatus
    decoded,   \* the messages decode has returned
    result,    \* the receiving stream: "reading", or how it ended
    clean,     \* nothing cut the stream inside a frame
    got        \* number of bytes received (history)

vars == <<sender, next, wbuf, rbuf, readable, status, decoded, result, clean, got>>

-----------------------------------------------------------------------------
(* Frames                                                                  *)

Messages == 1..Len(BodyLength)

HEADER_LENGTH == FlagLen + 1 + 2

COMPRESS_FLAG    == 1
UN_COMPRESS_FLAG == 1

Cell(kind, msg, val) == [kind |-> kind, msg |-> msg, val |-> val]

PPAASS_FLAG == [i \in 1..FlagLen |-> Cell("flag", 0, i)]

CompressByte == <<Cell("byte", 0, IF compress THEN COMPRESS_FLAG ELSE UN_COMPRESS_FLAG)>>

LengthBytes(n) == <<Cell("byte", 0, n \div LenBase), Cell("byte", 0, n % LenBase)>>

BodyBytes(m, gzip) ==
    [i \in 1..BodyLength[m] |-> Cell(IF gzip THEN "gzip" ELSE "raw", m, i)]

encode(m) ==
    PPAASS_FLAG \o CompressByte \o LengthBytes(BodyLength[m]) \o BodyBytes(m, compress)

\* What encode has written when the key of the user is missing.
PartialFrame == PPAASS_FLAG \o CompressByte

-----------------------------------------------------------------------------
(* The decoder                                                             *)

Head_ == [at |-> "head"]
Data_(compressed, n) == [at |-> "data", compressed |-> compressed, body_length |-> n]

\* Results of a call: a message, or one of
NONE  == 0    \* Ok(None): more input is needed
ERROR == -1   \* Err

\* Decompression, if the header asks for it, and deserialization.
ReadBody(body, compressed) ==
    IF \E m \in Messages : body = BodyBytes(m, compressed)
    THEN CHOOSE m \in Messages : body = BodyBytes(m, compressed)
    ELSE ERROR

DropFirst(s, n) == SubSeq(s, n + 1, Len(s))

\* Mutants of the next operator: the body is read but not taken from the buffer
\* and the status stays Data; the status stays Data; the comparison waits for
\* one byte too many.
Mutant_DecodeBody_Peek(st, src) ==
    [status |-> st, src |-> src,
     out    |-> IF Len(src) < st.body_length THEN NONE
                ELSE ReadBody(SubSeq(src, 1, st.body_length), st.compressed)]

Mutant_DecodeBody_NoReset(st, src) ==
    IF Len(src) < st.body_length
    THEN [status |-> st, src |-> src, out |-> NONE]
    ELSE [status |-> st,
          src    |-> DropFirst(src, st.body_length),
          out    |-> ReadBody(SubSeq(src, 1, st.body_length), st.compressed)]

Mutant_DecodeBody_Late(st, src) ==
    IF Len(src) <= st.body_length
    THEN [status |-> st, src |-> src, out |-> NONE]
    ELSE [status |-> Head_,
          src    |-> DropFirst(src, st.body_length),
          out    |-> ReadBody(SubSeq(src, 1, st.body_length), st.compressed)]

\* The part of a call that starts in DecodeStatus::Data.
DecodeBody(st, src) ==
    IF Len(src) < st.body_length
    THEN [status |-> st, src |-> src, out |-> NONE]
    ELSE LET out == ReadBody(SubSeq(src, 1, st.body_length), st.compressed)
         IN  [status |-> IF out = ERROR THEN st ELSE Head_,
              src    |-> DropFirst(src, st.body_length),
              out    |-> out]

\* Mutant: the bytes of an incomplete header are taken before they are counted.
Mutant_decode(st, src) ==
    IF st.at = "data" THEN DecodeBody(st, src)
    ELSE IF Len(src) < HEADER_LENGTH
    THEN [status |-> st, src |-> <<>>, out |-> NONE]
    ELSE LET compressed  == src[FlagLen + 1].val = 1
             body_length == src[FlagLen + 2].val * LenBase + src[FlagLen + 3].val
         IN  DecodeBody(Data_(compressed, body_length), DropFirst(src, HEADER_LENGTH))

\* Mutant: the length is read as a little-endian number.
Mutant_decode_LittleEndian(st, src) ==
    IF st.at = "data" THEN DecodeBody(st, src)
    ELSE IF Len(src) < HEADER_LENGTH
    THEN [status |-> st, src |-> src, out |-> NONE]
    ELSE LET compressed  == src[FlagLen + 1].val = 1
             body_length == src[FlagLen + 2].val + src[FlagLen + 3].val * LenBase
         IN  DecodeBody(Data_(compressed, body_length), DropFirst(src, HEADER_LENGTH))

decode(st, src) ==
    IF st.at = "data" THEN DecodeBody(st, src)
    ELSE IF Len(src) < HEADER_LENGTH
    THEN [status |-> st, src |-> src, out |-> NONE]
    ELSE IF SubSeq(src, 1, FlagLen) # PPAASS_FLAG
    THEN [status |-> st, src |-> DropFirst(src, FlagLen), out |-> ERROR]
    ELSE LET compressed  == src[FlagLen + 1].val = 1
             body_length == src[FlagLen + 2].val * LenBase + src[FlagLen + 3].val
         IN  DecodeBody(Data_(compressed, body_length), DropFirst(src, HEADER_LENGTH))

-----------------------------------------------------------------------------

Init ==
    /\ sender = "open"
    /\ next = 1
    /\ wbuf = <<>>
    /\ rbuf = <<>>
    /\ readable = FALSE
    /\ status = Head_
    /\ decoded = <<>>
    /\ result = "reading"
    /\ clean = TRUE
    /\ got = 0

\* start_send of the Framed: encode into the write buffer.
StartSend ==
    /\ sender = "open"
    /\ next \in Messages
    /\ wbuf' = wbuf \o encode(next)
    /\ next' = next + 1
    /\ UNCHANGED <<sender, rbuf, readable, status, decoded, result, clean, got>>

\* encode fails after it wrote the flag and the compress byte; the relay then
\* closes the sink, which flushes what is there.
StartSendFails ==
    /\ sender = "open"
    /\ next \in Messages
    /\ wbuf' = wbuf \o PartialFrame
    /\ sender' = "closed"
    /\ clean' = FALSE
    /\ UNCHANGED <<next, rbuf, readable, status, decoded, result, got>>

\* The sender closes its sink: flush and shutdown.
Close ==
    /\ sender = "open"
    /\ sender' = "closed"
    /\ UNCHANGED <<next, wbuf, rbuf, readable, status, decoded, result, clean, got>>

\* The connection is lost with what has not been received.
Cut ==
    /\ sender' = "closed"
    /\ wbuf # <<>>
    /\ wbuf' = <<>>
    /\ clean' = FALSE
    /\ UNCHANGED <<next, rbuf, readable, status, decoded, result, got>>

\* Mutant: the connection waits for the bytes of a whole header.
Mutant_Read ==
    /\ result = "reading" /\ ~readable
    /\ \E n \in HEADER_LENGTH..Len(wbuf) :
          /\ rbuf' = rbuf \o SubSeq(wbuf, 1, n)
          /\ wbuf' = DropFirst(wbuf, n)
          /\ got' = got + n
    /\ readable' = TRUE
    /\ UNCHANGED <<sender, next, status, decoded, result, clean>>

\* poll_next of the receiving Framed reads some bytes.
Read ==
    /\ result = "reading" /\ ~readable
    /\ \E n \in 1..Len(wbuf) :
          /\ rbuf' = rbuf \o SubSeq(wbuf, 1, n)
          /\ wbuf' = DropFirst(wbuf, n)
          /\ got' = got + n
    /\ readable' = TRUE
    /\ UNCHANGED <<sender, next, status, decoded, result, clean>>

\* A call of decode, and what poll_next does with its result.
Apply(r) ==
    /\ status' = r.status
    /\ rbuf' = r.src
    /\ decoded' = IF r.out \in Messages THEN Append(decoded, r.out) ELSE decoded

Decode ==
    /\ result = "reading" /\ readable
    /\ LET r == decode(status, rbuf)
       IN  /\ Apply(r)
           /\ readable' = (r.out \in Messages)
           /\ result' = IF r.out = ERROR THEN "error" ELSE result
    /\ UNCHANGED <<sender, next, wbuf, clean, got>>

\* The end of the stream: decode_eof calls decode, and takes bytes that are
\* left over for an error.
DecodeEof ==
    /\ result = "reading" /\ ~readable
    /\ sender = "closed" /\ wbuf = <<>>
    /\ LET r == decode(status, rbuf)
       IN  /\ Apply(r)
           /\ result' = IF r.out \in Messages THEN "reading"
                        ELSE IF r.out = NONE /\ r.src = <<>> THEN "eof" ELSE "error"
    /\ UNCHANGED <<sender, next, wbuf, readable, clean, got>>

Next == StartSend \/ StartSendFails \/ Close \/ Cut \/ Read \/ Decode \/ DecodeEof

Spec == Init /\ [][Next]_vars

\* The receiving task is polled as long as there is something to do, and the
\* write buffer is flushed.
Fairness == WF_vars(Read) /\ WF_vars(Decode) /\ WF_vars(DecodeEof)

FairSpec == Spec /\ Fairness

-----------------------------------------------------------------------------
(* Properties                                                              *)

CellType == [kind : {"flag", "byte", "gzip", "raw"}, msg : Messages \cup {0}, val : Nat]

\* The two variants of DecodeStatus.  The length in Data is that of a body.
DecodeStatus ==
    {Head_} \cup [at : {"data"}, compressed : BOOLEAN,
                  body_length : {BodyLength[m] : m \in Messages}]

\* The state is well formed; in particular the decoder only ever waits for a
\* body of a length that encode has written, wherever tcp has cut the header.
TypeOK ==
    /\ sender \in {"open", "closed"}
    /\ next \in 1..(Len(BodyLength) + 1)
    /\ wbuf \in Seq(CellType)
    /\ rbuf \in Seq(CellType)
    /\ readable \in BOOLEAN
    /\ status \in DecodeStatus
    /\ decoded \in Seq(Messages)
    /\ result \in {"reading", "eof", "error"}
    /\ clean \in BOOLEAN
    /\ got \in Nat

\* The decoder returns the encoded messages in order, each once, whatever the
\* pieces in which the bytes arrive and wherever the connection is cut.
DecodedIsPrefix ==
    /\ Len(decoded) < next
    /\ \A i \in 1..Len(decoded) : decoded[i] = i

\* A stream that is not cut inside a frame is decoded without an error: the
\* decoder never loses the frame boundaries.
NoDecodeError == clean => result # "error"

\* The length of the first n frames, and the end of frame n's header.
FramesEnd[n \in 0..Len(BodyLength)] ==
    IF n = 0 THEN 0 ELSE FramesEnd[n - 1] + HEADER_LENGTH + BodyLength[n]

\* A stream ends without an error only at the end of a frame with all messages
\* before it decoded - or exactly after a header, where decode_eof finds an
\* empty buffer and the lost body goes unnoticed.
CleanEndBoundary ==
    result = "eof" =>
        \/ got = FramesEnd[Len(decoded)]
        \/ ~clean /\ got = FramesEnd[Len(decoded)] + HEADER_LENGTH

\* Every message that was encoded is decoded, unless the stream is cut.
AllDecoded ==
    \A m \in Messages : (next > m) ~> (Len(decoded) >= m \/ ~clean)

\* The receiving stream ends after the sender has closed.
StreamEnds == (sender = "closed") ~> (result # "reading")
=============================================================================
