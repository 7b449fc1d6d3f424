----------------------------- MODULE LogFrames -----------------------------
(***************************************************************************)
(* What becomes of the bytes of Docker's log response on their way to the  *)
(* websocket: bufio's ReadLine, then processPayload for a follow request   *)
(* or stripFramePrefix for a one-shot request                              *)
(* (src/server-src/docker_service_logs_handler.go).                        *)
(*                                                                         *)
(* A response is a sequence of frames: a header of eight bytes, whose last *)
(* four are the big-endian size of the payload, and the payload.  A byte   *)
(* is a number.                                                            *)
(***************************************************************************)
EXTENDS Integers, Sequences, SequencesExt

CONSTANTS
    Payloads,     \* the payloads a frame may carry
    MaxFrames,    \* bound: frames of a response
    BufSize       \* bufio's buffer: 4096 in the program, at least 16

ASSUME FramesAssumption ==
    /\ Payloads \subseteq Seq(0..255) \ {<<>>}
    /\ \A p \in Payloads : Len(p) \div 16777216 < 256
    /\ MaxFrames \in Nat
    /\ BufSize \in Nat /\ BufSize >= 16

NL == 10
CR == 13
HeaderLen == 8

VARIABLES
    frames,       \* the payloads of the response, in order
    follow,       \* opts.follow
    rest,         \* the bytes ReadLine has not returned yet
    line,         \* the line in the hands of the writer: none or one
    sent          \* the messages sent (follow) or collected (one-shot)

vars == <<frames, follow, rest, line, sent>>

From(s, i) == SubSeq(s, i, Len(s))

-----------------------------------------------------------------------------
(* Docker's framing.                                                       *)

Header(payload) ==
    LET n == Len(payload)
    IN  <<1, 0, 0, 0, n \div 16777216, (n \div 65536) % 256, (n \div 256) % 256, n % 256>>

Frame(payload) == Header(payload) \o payload

Response(ps) == FlattenSeq([i \in DOMAIN ps |-> Frame(ps[i])])

\* binary.BigEndian.Uint32(b[4:8]) of a buffer that holds a header
FrameSize(b) == ((b[5] * 256 + b[6]) * 256 + b[7]) * 256 + b[8]

-----------------------------------------------------------------------------
(* The handler's parsing.                                                  *)

\* The non-empty elements of bytes.Split(b, '\n'), in order; those of the first
\* i bytes are lines[i].
NonEmptyLines(b) ==
    LET lines[i \in 0..Len(b)] ==
            IF i = 0 THEN <<>>
            ELSE LET before == lines[i - 1]
                 IN  IF b[i] = NL THEN before
                     ELSE IF i = 1 \/ b[i - 1] = NL THEN Append(before, <<b[i]>>)
                     ELSE Append(Front(before), Append(Last(before), b[i]))
    IN  lines[Len(b)]

HasFrame(b) == Len(b) >= HeaderLen /\ Len(b) >= HeaderLen + FrameSize(b)

\* The loop of processPayload: whole frames, then whatever does not fill one.
\* What it sends for the last n bytes is lines[n].
FrameLines(buf) ==
    LET b(n)     == From(buf, Len(buf) - n + 1)
        used(n)  == HeaderLen + FrameSize(b(n))
        lines[n \in 0..Len(buf)] ==
            IF HasFrame(b(n))
            THEN NonEmptyLines(SubSeq(b(n), HeaderLen + 1, used(n))) \o lines[n - used(n)]
            ELSE NonEmptyLines(b(n))
    IN  lines[Len(buf)]

\* Mutant of LooksFramed: only a payload that is exactly one frame is framed.
LooksLikeOneFrame(payload) == HeaderLen + FrameSize(payload) = Len(payload)

LooksFramed(payload) ==
    \/ payload[1] \in {0, 1, 2}
    \/ HeaderLen + FrameSize(payload) <= Len(payload)

\* Mutant of processPayload: what does not fill a frame is dropped.
processWholeFrames(payload) ==
    IF payload = <<>> THEN << <<>> >>
    ELSE IF Len(payload) < HeaderLen THEN NonEmptyLines(payload)
    ELSE IF HeaderLen + FrameSize(payload) <= Len(payload) THEN FrameLines(payload)
    ELSE <<>>

\* The messages processPayload sends.
processPayload(payload) ==
    IF payload = <<>> THEN << <<>> >>
    ELSE IF Len(payload) < HeaderLen THEN NonEmptyLines(payload)
    ELSE IF LooksFramed(payload) THEN FrameLines(payload)
    ELSE NonEmptyLines(From(payload, HeaderLen + 1))

\* Mutant of stripFramePrefix: the header is taken to be one byte shorter.
stripShortPrefix(b) == IF Len(b) < HeaderLen THEN <<>> ELSE From(b, HeaderLen)

\* The line collectLogLines keeps, <<>> for none.
stripFramePrefix(b) == IF Len(b) <= HeaderLen THEN <<>> ELSE From(b, HeaderLen + 1)

\* How many bytes the next ReadSlice('\n') takes: up to a newline, a full
\* buffer, or the rest of the response.
SliceLen(b) ==
    LET ends == {i \in 1..Len(b) : b[i] = NL \/ i = BufSize \/ i = Len(b)}
    IN  CHOOSE i \in ends : \A j \in ends : i <= j

\* ReadLine drops the line end; a carriage return that fills the buffer stays
\* in it, for a newline may follow.
ReadLine(b) ==
    LET n    == SliceLen(b)
        raw  == SubSeq(b, 1, n)
        full == n = BufSize /\ raw[n] # NL
    IN  IF raw[n] = NL
        THEN [line |-> SubSeq(raw, 1, IF n > 1 /\ raw[n - 1] = CR THEN n - 2 ELSE n - 1),
              rest |-> From(b, n + 1)]
        ELSE IF full /\ raw[n] = CR
        THEN [line |-> SubSeq(raw, 1, n - 1), rest |-> From(b, n)]
        ELSE [line |-> raw, rest |-> From(b, n + 1)]

-----------------------------------------------------------------------------

Init ==
    /\ frames \in UNION {[1..n -> Payloads] : n \in 0..MaxFrames}
    /\ follow \in BOOLEAN
    /\ rest = Response(frames)
    /\ line = <<>>
    /\ sent = <<>>

Read ==
    /\ line = <<>>
    /\ rest # <<>>
    /\ line' = <<ReadLine(rest).line>>
    /\ rest' = ReadLine(rest).rest
    /\ UNCHANGED <<frames, follow, sent>>

StreamLine ==
    /\ line # <<>>
    /\ follow
    /\ sent' = sent \o processPayload(line[1])
    /\ line' = <<>>
    /\ UNCHANGED <<frames, follow, rest>>

CollectLine ==
    /\ line # <<>>
    /\ ~follow
    /\ sent' = IF stripFramePrefix(line[1]) = <<>> THEN sent
               ELSE Append(sent, stripFramePrefix(line[1]))
    /\ line' = <<>>
    /\ UNCHANGED <<frames, follow, rest>>

Next == Read \/ StreamLine \/ CollectLine

Spec == Init /\ [][Next]_vars

-----------------------------------------------------------------------------
(* Properties.                                                             *)

AllRead == rest = <<>> /\ line = <<>>

\* The log lines of the response.
LogLines(ps) == FlattenSeq([i \in DOMAIN ps |-> NonEmptyLines(ps[i])])

\* One line, its newline and nothing that ReadLine mistakes for a line end, not
\* even in the header: the frames for which "a line" and "a frame" are the same.
Plain(payload) ==
    /\ payload[Len(payload)] = NL
    /\ \A i \in 1..(Len(payload) - 1) : payload[i] \notin {NL, CR}
    /\ \A i \in 1..HeaderLen : Header(payload)[i] # NL
    /\ HeaderLen + Len(payload) <= BufSize

PlainResponse == \A i \in DOMAIN frames : Plain(frames[i])

\* Bytes are bytes, and what is left to read is the end of the response.
TypeOK ==
    /\ frames \in Seq(Payloads)
    /\ follow \in BOOLEAN
    /\ IsSuffix(rest, Response(frames))
    /\ Len(line) <= 1 /\ line \in Seq(Seq(0..255))
    /\ sent \in Seq(Seq(0..255))

\* A one-shot client gets the log lines of a plain response, without their frame
\* headers (collectLogLines, stripFramePrefix).
TailLinesArePlain ==
    ~follow /\ AllRead /\ PlainResponse => sent = LogLines(frames)

\* A follow client gets one message for each frame of a plain response, and the
\* whole text of the line follows the header in it (processPayload).
FollowKeepsText ==
    follow /\ AllRead /\ PlainResponse =>
        /\ Len(sent) = Len(frames)
        /\ \A i \in DOMAIN sent : From(sent[i], HeaderLen + 1) = Front(frames[i])

\* Given several frames at once, processPayload finds every log line, however
\* the sizes and the texts look.
AggregateIsSplit ==
    frames # <<>> => processPayload(Response(frames)) = LogLines(frames)

\* What ReadLine makes of a plain frame, and what is sent for k of them.
FrameLine(payload) == Header(payload) \o Front(payload)

Sent(k) == IF follow THEN [i \in 1..k |-> FrameLine(frames[i])]
           ELSE LogLines(SubSeq(frames, 1, k))

\* The inductive invariant: a plain response is read frame by frame.
IInv ==
    /\ frames \in Seq(Payloads)
    /\ follow \in BOOLEAN
    /\ PlainResponse =>
         \E k \in 0..Len(frames) :
           /\ rest = Response(From(frames, k + 1))
           /\ \/ line = <<>> /\ sent = Sent(k)
              \/ k > 0 /\ line = <<FrameLine(frames[k])>> /\ sent = Sent(k - 1)

-----------------------------------------------------------------------------
(* What comments of the source say and the code does not do.               *)

\* "Parse these frames when present and send each non-empty log line as its own
\* websocket TextMessage."
FollowSendsLogLines == follow /\ AllRead => sent = LogLines(frames)

\* stripFramePrefix "removes Docker's 8-byte multiplex header from a single log
\* line", so that a one-shot client gets the log lines.
TailSendsLogLines == ~follow /\ AllRead => sent = LogLines(frames)

\* Whatever was asked for, the client is sent the lines of the log.
SendsLogLines == FollowSendsLogLines /\ TailSendsLogLines
=============================================================================
