----------------------------- MODULE LogStream -----------------------------
(***************************************************************************)
(* One request to the logs websocket: dockerServiceLogsHandler in          *)
(* src/server-src/docker_service_logs_handler.go.                          *)
(*                                                                         *)
(* Four goroutines share one connection, one context and one channel:      *)
(*   - the handler (`pc'), which is also the only writer of log lines;     *)
(*   - the reader (`rpc'), readLogLines, which owns and closes the channel;*)
(*   - the watcher, which reads the websocket to notice a disconnect;      *)
(*   - the closer, which closes the Docker reader when the context ends.   *)
(* The Docker engine and the browser are the environment.                  *)
(*                                                                         *)
(* A log line is its number; what a line becomes on the wire is the        *)
(* subject of module LogFrames.  A step is what one goroutine does between *)
(* two points where it can block.                                          *)
(***************************************************************************)
EXTENDS Naturals, Sequences

CONSTANTS
    MaxLines,     \* bound: lines the Docker engine emits
    ChanSize,     \* logChannelSize
    TailCount,    \* tailCount(opts.tail)
    SockCap,      \* messages the socket holds for a client that does not read
    Blank         \* numbers of the lines that are a frame header and no payload

ASSUME ConstantsAssumption ==
    /\ MaxLines \in Nat
    /\ ChanSize \in Nat \ {0}
    /\ TailCount \in Nat \ {0}
    /\ SockCap \in Nat \ {0}
    /\ Blank \subseteq Nat

VARIABLES
    follow,       \* opts.follow
    pc,           \* where the handler goroutine is
    conn,         \* the websocket: "none", "open" or "closed" by the server
    peer,         \* the browser: "reading", "stalled" or "gone"
    unread,       \* messages in the socket the browser has not read
    ctxDone,      \* the request context is cancelled
    readerClosed, \* logReader.Close() was called
    source,       \* Docker's response: "open", "eof" or "failed"
    emitted,      \* lines 1..emitted were sent by Docker
    readPos,      \* lines 1..readPos were returned by ReadLine
    rpc,          \* the reader goroutine
    chan,         \* the channel `lines' / `raw'
    chanClosed,
    cur,          \* the line the writer received last
    wdl,          \* the write deadline: "none", "fresh" or "expired"
    wire,         \* the lines written to the websocket
    closeFrame,   \* the close frame written: "none", "normal" or "error"
    watcher,
    closer,
    collected,    \* `lines' of collectLogLines
    timer         \* the idle timer of collectLogLines: "off" or "armed"

dockerVars == <<source, emitted>>
peerVars   == <<peer, unread>>
readerVars == <<readPos, rpc, chanClosed>>
writeVars  == <<cur, wdl, wire, closeFrame>>
tailVars   == <<collected, timer>>
taskVars   == <<watcher, closer>>

vars == <<follow, pc, conn, ctxDone, readerClosed, chan,
          dockerVars, peerVars, readerVars, writeVars, tailVars, taskVars>>

-----------------------------------------------------------------------------
(* Writing to the websocket.  `dl' is the write deadline in force: a data  *)
(* message and a ping set a fresh one, a close frame is written under      *)
(* whatever deadline the last write left behind.                           *)

CanWrite(dl) == conn = "open" /\ dl # "expired" /\ unread < SockCap

\* A full socket makes the write block until the deadline; "stalled" means
\* that the browser does not read before it.
WriteFails(dl) ==
    \/ conn = "closed"
    \/ dl = "expired"
    \/ peer = "gone"
    \/ peer = "stalled" /\ unread = SockCap /\ dl = "fresh"

\* Mutant of LastLines: the slice lines[:tail].
FirstLines(s, n) == IF Len(s) > n THEN SubSeq(s, 1, n) ELSE s

LastLines(s, n) == IF Len(s) > n THEN SubSeq(s, Len(s) - n + 1, Len(s)) ELSE s

Init ==
    /\ follow \in BOOLEAN
    /\ pc = "upgrade"
    /\ conn = "none"
    /\ peer = "reading"
    /\ unread = 0
    /\ ctxDone = FALSE
    /\ readerClosed = FALSE
    /\ source = "open"
    /\ emitted = 0
    /\ readPos = 0
    /\ rpc = "idle"
    /\ chan = <<>>
    /\ chanClosed = FALSE
    /\ cur = 0
    /\ wdl = "none"
    /\ wire = <<>>
    /\ closeFrame = "none"
    /\ watcher = "idle"
    /\ closer = "idle"
    /\ collected = <<>>
    /\ timer = "off"

-----------------------------------------------------------------------------
(* The handler up to the start of the other goroutines.                    *)

Upgrade ==
    /\ pc = "upgrade"
    /\ \/ conn' = "open" /\ pc' = "getCli"
       \/ conn' = conn /\ pc' = "returned"
    /\ UNCHANGED <<follow, ctxDone, readerClosed, chan, dockerVars, peerVars,
                   readerVars, writeVars, tailVars, taskVars>>

GetCli ==
    /\ pc = "getCli"
    /\ pc' \in {"serviceLogs", "reportError"}
    /\ UNCHANGED <<follow, conn, ctxDone, readerClosed, chan, dockerVars,
                   peerVars, readerVars, writeVars, tailVars, taskVars>>

\* Docker answers the ServiceLogs call: with an error or no stream, or with a
\* stream, whereupon the handler starts the closer, the watcher and the reader.
ServiceLogs ==
    /\ pc = "serviceLogs"
    /\ \/ /\ pc' = "reportError"
          /\ UNCHANGED <<rpc, taskVars>>
       \/ /\ pc' = IF follow THEN "stream" ELSE "collect"
          /\ rpc' = "read"
          /\ watcher' = "reading"
          /\ closer' = "waiting"
    /\ UNCHANGED <<follow, conn, ctxDone, readerClosed, chan, dockerVars,
                   peerVars, readPos, chanClosed, writeVars, tailVars>>

\* A close frame; whether it was written or not, the handler goes on to `next'.
WriteClose(frame, next) ==
    /\ \/ CanWrite(wdl) /\ closeFrame' = frame
       \/ WriteFails(wdl) /\ UNCHANGED closeFrame
    /\ pc' = next
    /\ UNCHANGED <<follow, conn, ctxDone, readerClosed, chan, dockerVars,
                   peerVars, readerVars, cur, wdl, wire, tailVars, taskVars>>

\* closeWithError, then the deferred calls registered so far.
ReportError == pc = "reportError" /\ WriteClose("error", "cancel")

-----------------------------------------------------------------------------
(* A follow request: writeLogPipeToClient.                                 *)

TakeLine ==
    /\ pc = "stream"
    /\ chan # <<>>
    /\ cur' = Head(chan)
    /\ chan' = Tail(chan)
    /\ pc' = "write"
    /\ UNCHANGED <<follow, conn, ctxDone, readerClosed, dockerVars, peerVars,
                   readerVars, wdl, wire, closeFrame, tailVars, taskVars>>

\* sendTextMessage succeeds.
SendText(line) ==
    /\ CanWrite("fresh")
    /\ wire' = Append(wire, line)
    /\ unread' = unread + 1
    /\ wdl' = "fresh"
    /\ UNCHANGED <<follow, conn, peer, ctxDone, readerClosed, chan, dockerVars,
                   readerVars, cur, closeFrame, tailVars, taskVars>>

WriteLine ==
    /\ pc = "write"
    /\ SendText(cur)
    /\ pc' = "stream"

\* A failed write closes the connection and ends the loop.
AbandonStream ==
    /\ WriteFails("fresh")
    /\ conn' = "closed"
    /\ pc' = "closeReader"
    /\ wdl' = "fresh"
    /\ UNCHANGED <<follow, ctxDone, readerClosed, chan, dockerVars, peerVars,
                   readerVars, cur, wire, closeFrame, tailVars, taskVars>>

WriteLineFails == pc = "write" /\ AbandonStream

Ping ==
    /\ pc = "stream"
    /\ CanWrite("fresh")
    /\ wdl' = "fresh"
    /\ UNCHANGED <<follow, pc, conn, ctxDone, readerClosed, chan, dockerVars,
                   peerVars, readerVars, cur, wire, closeFrame, tailVars,
                   taskVars>>

PingFails == pc = "stream" /\ AbandonStream

\* Mutant of ChannelEnds: a closed channel is not drained.
ChannelEndsUndrained ==
    /\ pc = "stream"
    /\ chanClosed
    /\ pc' = "sendClose"
    /\ UNCHANGED <<follow, conn, ctxDone, readerClosed, chan, dockerVars,
                   peerVars, readerVars, writeVars, tailVars, taskVars>>

ChannelEnds ==
    /\ pc = "stream"
    /\ chan = <<>>
    /\ chanClosed
    /\ pc' = "sendClose"
    /\ UNCHANGED <<follow, conn, ctxDone, readerClosed, chan, dockerVars,
                   peerVars, readerVars, writeVars, tailVars, taskVars>>

SendClose == pc = "sendClose" /\ WriteClose("normal", "closeReader")

\* writeWait passes while the writer has nothing to write.
WriteDeadlinePasses ==
    /\ pc = "stream"
    /\ chan = <<>>
    /\ rpc = "read" /\ readPos = emitted /\ source = "open"
    /\ wdl = "fresh"
    /\ wdl' = "expired"
    /\ UNCHANGED <<follow, pc, conn, ctxDone, readerClosed, chan, dockerVars,
                   peerVars, readerVars, cur, wire, closeFrame, tailVars,
                   taskVars>>

-----------------------------------------------------------------------------
(* A one-shot request: collectLogLines and sendLogTail.                    *)

CollectLine ==
    /\ pc = "collect"
    /\ chan # <<>>
    /\ cur' = Head(chan)
    /\ chan' = Tail(chan)
    /\ collected' = IF cur' \in Blank THEN collected ELSE Append(collected, cur')
    /\ timer' = "armed"
    /\ UNCHANGED <<follow, pc, conn, ctxDone, readerClosed, dockerVars,
                   peerVars, readerVars, wdl, wire, closeFrame, taskVars>>

CollectReturns(cond) ==
    /\ pc = "collect"
    /\ cond
    /\ pc' = "tail"
    /\ UNCHANGED <<follow, conn, ctxDone, readerClosed, chan, dockerVars,
                   peerVars, readerVars, writeVars, tailVars, taskVars>>

\* Mutants of CollectIdle: the timer runs from the start; it is never reset.
CollectIdleFromStart == CollectReturns(TRUE)
CollectNeverIdle     == CollectReturns(FALSE)

CollectEnds      == CollectReturns(chan = <<>> /\ chanClosed)
CollectIdle      == CollectReturns(timer = "armed")
CollectCancelled == CollectReturns(ctxDone)

\* The slice lines[start:] of sendLogTail.
Answer == LastLines(collected, TailCount)

SendTailLine ==
    /\ pc = "tail"
    /\ Len(wire) < Len(Answer)
    /\ SendText(Answer[Len(wire) + 1])
    /\ pc' = pc

\* sendLogTail returns without closing the connection; the handler does.
SendTailFails ==
    /\ pc = "tail"
    /\ Len(wire) < Len(Answer)
    /\ WriteFails("fresh")
    /\ pc' = "closeReader"
    /\ wdl' = "fresh"
    /\ UNCHANGED <<follow, conn, ctxDone, readerClosed, chan, dockerVars,
                   peerVars, readerVars, cur, wire, closeFrame, tailVars,
                   taskVars>>

TailSent ==
    /\ pc = "tail"
    /\ Len(wire) = Len(Answer)
    /\ WriteClose("normal", "closeReader")

-----------------------------------------------------------------------------
(* The deferred calls of the handler, last registered first.               *)

DeferCloseReader ==
    /\ pc = "closeReader"
    /\ readerClosed' = TRUE
    /\ pc' = "cancel"
    /\ UNCHANGED <<follow, conn, ctxDone, chan, dockerVars, peerVars,
                   readerVars, writeVars, tailVars, taskVars>>

DeferCancel ==
    /\ pc = "cancel"
    /\ ctxDone' = TRUE
    /\ pc' = "closeConn"
    /\ UNCHANGED <<follow, conn, readerClosed, chan, dockerVars, peerVars,
                   readerVars, writeVars, tailVars, taskVars>>

DeferCloseConn ==
    /\ pc = "closeConn"
    /\ conn' = "closed"
    /\ pc' = "returned"
    /\ UNCHANGED <<follow, ctxDone, readerClosed, chan, dockerVars, peerVars,
                   readerVars, writeVars, tailVars, taskVars>>

-----------------------------------------------------------------------------
(* The reader goroutine: readLogLines.                                     *)

\* bufio returns a line it has buffered even after logReader.Close().
ReadLine ==
    /\ rpc = "read"
    /\ readPos < emitted
    /\ readPos' = readPos + 1
    /\ rpc' = "send"
    /\ UNCHANGED <<follow, pc, conn, ctxDone, readerClosed, chan, dockerVars,
                   peerVars, chanClosed, writeVars, tailVars, taskVars>>

ReaderReturns ==
    /\ rpc' = "done"
    /\ chanClosed' = TRUE
    /\ UNCHANGED <<follow, pc, conn, ctxDone, readerClosed, chan, dockerVars,
                   peerVars, readPos, writeVars, tailVars, taskVars>>

\* Mutant of ReadError: the end of the response overtakes lines still buffered.
ReadErrorEarly == rpc = "read" /\ (readerClosed \/ source # "open") /\ ReaderReturns

ReadError ==
    /\ rpc = "read"
    /\ \/ readerClosed
       \/ source = "failed"
       \/ source = "eof" /\ readPos = emitted
    /\ ReaderReturns

\* Mutants of SendLine: the channel has no bound; a full channel loses the line.
SendLineUnbounded ==
    /\ rpc = "send"
    /\ chan' = Append(chan, readPos)
    /\ rpc' = "read"
    /\ UNCHANGED <<follow, pc, conn, ctxDone, readerClosed, dockerVars,
                   peerVars, readPos, chanClosed, writeVars, tailVars, taskVars>>

SendLineOrLose ==
    /\ rpc = "send"
    /\ chan' = IF Len(chan) < ChanSize THEN Append(chan, readPos) ELSE chan
    /\ rpc' = "read"
    /\ UNCHANGED <<follow, pc, conn, ctxDone, readerClosed, dockerVars,
                   peerVars, readPos, chanClosed, writeVars, tailVars, taskVars>>

SendLine ==
    /\ rpc = "send"
    /\ Len(chan) < ChanSize
    /\ chan' = Append(chan, readPos)
    /\ rpc' = "read"
    /\ UNCHANGED <<follow, pc, conn, ctxDone, readerClosed, dockerVars,
                   peerVars, readPos, chanClosed, writeVars, tailVars, taskVars>>

\* Mutant of DropLine: a cancelled reader does not notice.
DropLineNever == rpc = "send" /\ FALSE /\ ReaderReturns

DropLine == rpc = "send" /\ ctxDone /\ ReaderReturns

-----------------------------------------------------------------------------
(* The closer and the watcher.                                             *)

CloseReader ==
    /\ closer = "waiting"
    /\ ctxDone
    /\ readerClosed' = TRUE
    /\ closer' = "done"
    /\ UNCHANGED <<follow, pc, conn, ctxDone, chan, dockerVars, peerVars,
                   readerVars, writeVars, tailVars, watcher>>

\* Mutant of WatcherSees: the context is cancelled and the connection left open.
WatcherOnlyCancels(cond) ==
    /\ watcher = "reading"
    /\ cond
    /\ ctxDone' = TRUE
    /\ watcher' = "cancelling"
    /\ UNCHANGED <<follow, pc, conn, readerClosed, chan, dockerVars,
                   peerVars, readerVars, writeVars, tailVars, closer>>

WatcherSees(cond) ==
    /\ watcher = "reading"
    /\ cond
    /\ conn' = "closed"
    /\ watcher' = "cancelling"
    /\ UNCHANGED <<follow, pc, ctxDone, readerClosed, chan, dockerVars,
                   peerVars, readerVars, writeVars, tailVars, closer>>

\* ReadMessage fails: the peer left, or another goroutine closed the connection.
ReadMessageFails == WatcherSees(peer = "gone" \/ conn = "closed")

\* Mutant of ReadDeadlinePasses: no read deadline is set.
NoReadDeadline == WatcherSees(FALSE)

\* pongWait passes without a pong; only streamLogs sets a read deadline.
ReadDeadlinePasses == WatcherSees(follow /\ peer = "stalled")

WatcherCancel ==
    /\ watcher = "cancelling"
    /\ ctxDone' = TRUE
    /\ watcher' = "done"
    /\ UNCHANGED <<follow, pc, conn, readerClosed, chan, dockerVars, peerVars,
                   readerVars, writeVars, tailVars, closer>>

-----------------------------------------------------------------------------
(* The environment: the Docker engine and the browser.                     *)

Emit ==
    /\ rpc \in {"read", "send"}
    /\ source = "open"
    /\ emitted < MaxLines
    /\ emitted' = emitted + 1
    /\ UNCHANGED <<follow, pc, conn, ctxDone, readerClosed, chan, source,
                   peerVars, readerVars, writeVars, tailVars, taskVars>>

SourceEnds ==
    /\ rpc \in {"read", "send"}
    /\ source = "open"
    /\ source' \in {"eof", "failed"}
    /\ UNCHANGED <<follow, pc, conn, ctxDone, readerClosed, chan, emitted,
                   peerVars, readerVars, writeVars, tailVars, taskVars>>

PeerReads ==
    /\ peer = "reading"
    /\ unread > 0
    /\ unread' = unread - 1
    /\ UNCHANGED <<follow, pc, conn, peer, ctxDone, readerClosed, chan,
                   dockerVars, readerVars, writeVars, tailVars, taskVars>>

\* A stalled browser neither reads nor answers pings within the deadlines; one
\* that recovers earlier is only a slow reader.
PeerChanges ==
    /\ conn = "open"
    /\ \/ peer = "reading" /\ peer' = "stalled"
       \/ peer # "gone" /\ peer' = "gone"
    /\ UNCHANGED <<follow, pc, conn, unread, ctxDone, readerClosed, chan,
                   dockerVars, readerVars, writeVars, tailVars, taskVars>>

-----------------------------------------------------------------------------

Handler ==
    \/ Upgrade \/ GetCli \/ ReportError
    \/ TakeLine \/ WriteLine \/ WriteLineFails \/ PingFails
    \/ ChannelEnds \/ SendClose
    \/ CollectLine \/ CollectEnds \/ CollectCancelled
    \/ SendTailLine \/ SendTailFails \/ TailSent
    \/ DeferCloseReader \/ DeferCancel \/ DeferCloseConn

Reader  == ReadLine \/ ReadError \/ SendLine \/ DropLine
Closer  == CloseReader
Watcher == ReadMessageFails \/ WatcherCancel

Environment == Emit \/ SourceEnds \/ PeerReads \/ PeerChanges

\* The goroutines have ended; only the socket may still hold messages.
AllDone == pc = "returned" /\ {rpc, watcher, closer} \subseteq {"idle", "done"}

Terminated == AllDone /\ UNCHANGED vars

Next ==
    \/ Handler \/ ServiceLogs \/ Ping \/ CollectIdle
    \/ Reader \/ Closer \/ Watcher \/ ReadDeadlinePasses \/ WriteDeadlinePasses
    \/ Environment \/ Terminated

Spec == Init /\ [][Next]_vars

\* The Go scheduler runs every runnable goroutine, timers fire, and a browser
\* that is "reading" reads.  Nothing is assumed of when Docker emits or ends.
Fairness ==
    /\ WF_vars(Handler)
    /\ WF_vars(Reader)
    /\ WF_vars(Closer)
    /\ WF_vars(Watcher)
    /\ WF_vars(CollectIdle)
    /\ WF_vars(ReadDeadlinePasses)
    /\ WF_vars(PeerReads)

DockerAnswers == WF_vars(ServiceLogs)

FairSpec == Spec /\ Fairness /\ DockerAnswers
-----------------------------------------------------------------------------
(* Properties.                                                             *)

\* Every variable holds a value of its type; no line that Docker has not sent is
\* anywhere in the program, and the channel never exceeds its capacity.
TypeOK ==
    /\ follow \in BOOLEAN
    /\ pc \in {"upgrade", "getCli", "serviceLogs", "reportError", "stream",
               "write", "sendClose", "collect", "tail", "closeReader",
               "cancel", "closeConn", "returned"}
    /\ conn \in {"none", "open", "closed"}
    /\ peer \in {"reading", "stalled", "gone"}
    /\ unread \in 0..SockCap
    /\ ctxDone \in BOOLEAN
    /\ readerClosed \in BOOLEAN
    /\ source \in {"open", "eof", "failed"}
    /\ emitted \in 0..MaxLines
    /\ readPos \in (IF rpc = "send" THEN 1 ELSE 0)..emitted
    /\ rpc \in {"idle", "read", "send", "done"}
    /\ chan \in Seq(1..emitted) /\ Len(chan) <= ChanSize
    /\ chanClosed \in BOOLEAN
    /\ cur \in (IF pc = "write" THEN 1 ELSE 0)..emitted
    /\ wdl \in {"none", "fresh", "expired"}
    /\ wire \in Seq(1..emitted)
    /\ closeFrame \in {"none", "normal", "error"}
    /\ watcher \in {"idle", "reading", "cancelling", "done"}
    /\ closer \in {"idle", "waiting", "done"}
    /\ collected \in Seq(1..emitted)
    /\ timer \in {"off", "armed"}

\* A follow client sees lines 1, 2, 3, ... of the response: across the channel,
\* the two goroutines and a failing connection no line is lost, repeated or
\* overtaken (readLogLines and writeLogPipeToClient).
FollowInOrder == follow => \A i \in 1..Len(wire) : wire[i] = i

\* The normal close frame tells a follow client that it has everything: every
\* line read from Docker was sent before it, although a cancelled reader drops
\* the line it holds and closes the same channel.
NormalCloseIsComplete ==
    follow /\ closeFrame = "normal" => Len(wire) = readPos

\* Lines m..n of the response that have a payload, and the sequence s of them
\* as the response has them: each once, and in order.
PayloadLines(m, n) == {k \in m..n : k \notin Blank}
Enumerates(s, S) ==
    /\ {s[i] : i \in 1..Len(s)} = S
    /\ \A i, j \in 1..Len(s) : i < j => s[i] < s[j]

\* A one-shot client sees a gap-free run of the lines taken from the response
\* (blank lines aside), never more than it asked for.  When the answer is closed
\* normally these are the last ones: the run ends with the line at which
\* collecting ended, cur, and only starts after the first line when it is as long
\* as was asked for (collectLogLines and sendLogTail).
TailIsRecent ==
    ~follow =>
      /\ Len(wire) <= TailCount
      /\ \E m \in 1..(cur + 1), n \in 0..cur : Enumerates(wire, PayloadLines(m, n))
      /\ closeFrame = "normal" =>
            \E m \in 1..(cur + 1) :
              /\ Enumerates(wire, PayloadLines(m, cur))
              /\ m = 1 \/ Len(wire) = TailCount

\* A one-shot answer that is closed normally without a line says that none was
\* there to send: the lines taken are all blank, and if none was taken Docker has
\* ended its response and, unless that failed, sent no line at all.  Neither a
\* slow first line (the idle timer starts with the first line) nor a disconnect
\* passes for an empty log.
EmptyAnswerIsTrue ==
    ~follow /\ closeFrame = "normal" /\ wire = <<>> =>
        /\ PayloadLines(1, cur) = {}
        /\ cur = 0 => /\ source # "open" /\ readPos = 0
                      /\ source = "eof" => emitted = 0

\* Backpressure: at most logChannelSize lines wait in the channel, one in the
\* hands of the reader and one in those of the writer, however slow the client
\* and whatever ends the stream.
BoundedReadAhead == follow => readPos <= Len(wire) + ChanSize + 2

\* The context of a running stream is cancelled only after its connection was
\* closed, so that the end of a cancelled stream is never announced as normal.
CancelAfterClose ==
    ctxDone /\ pc \in {"stream", "write", "sendClose", "collect", "tail"} =>
        conn = "closed"

\* The request keeps the promise of LogDelivery.
Delivery == INSTANCE LogDelivery WITH
    produced <- readPos, delivered <- wire, closed <- closeFrame
DeliverySpec == Delivery!Spec

\* Once the handler has returned, or the client has gone, every goroutine of the
\* request ends and the Docker reader is closed: nothing leaks, provided that
\* Docker answers the ServiceLogs call.
EverythingEnds == pc = "returned" \/ peer = "gone" ~> AllDone

\* A follow client that stops reading and answering pings is dropped, by the
\* read deadline or by the write deadline.
StalledClientIsDropped == follow /\ peer = "stalled" ~> AllDone

\* While a follow client keeps reading, everything Docker sent before it ended
\* the response is delivered.
EofIsDelivered ==
    [](peer = "reading") =>
        (follow /\ source = "eof" ~> Len(wire) = emitted)

\* A one-shot request that has received a line is answered, whether or not
\* Docker ever ends the response.
CollectionEnds == pc = "collect" /\ timer = "armed" ~> AllDone

-----------------------------------------------------------------------------
(* The inductive invariant behind the safety properties, in named parts.   *)

InStream  == pc \in {"stream", "write", "sendClose"}
InCollect == pc \in {"collect", "tail"}
Unwinding == pc \in {"closeReader", "cancel", "closeConn", "returned"}

HoldsLine(g, state) == IF g = state THEN 1 ELSE 0

\* Lines the writer of a follow request has taken from the channel.
Taken == Len(wire) + HoldsLine(pc, "write")

\* Nothing has been read before the reader starts, and the reader has started
\* wherever its channel is used.
NotStarted ==
    /\ rpc = "idle" =>
          /\ readPos = 0 /\ wire = <<>> /\ chan = <<>> /\ ~chanClosed
          /\ closeFrame # "normal" /\ ~readerClosed
          /\ collected = <<>> /\ timer = "off" /\ cur = 0
          /\ watcher = "idle" /\ closer = "idle"
    /\ InStream \/ InCollect \/ pc = "closeReader" => rpc # "idle"
    /\ pc \in {"upgrade", "getCli", "serviceLogs", "reportError"} =>
          rpc = "idle" /\ ~ctxDone

\* The watcher closes the connection, then cancels; the handler cancels last.
CancelOrder ==
    /\ watcher \in {"cancelling", "done"} => conn = "closed"
    /\ ctxDone /\ pc \notin {"closeConn", "returned"} => watcher = "done"
    /\ readerClosed /\ pc \notin {"cancel", "closeConn", "returned"} => ctxDone

\* Close frames end the request; the reader closes the channel when it ends.
Ends ==
    /\ closeFrame # "none" => Unwinding
    /\ closeFrame = "error" => rpc = "idle"
    /\ chanClosed <=> rpc = "done"
    /\ pc = "sendClose" => chan = <<>> /\ chanClosed

\* Where the lines of a follow request are: sent, in the hands of the writer, in
\* the channel, in the hands of the reader; none is missing while it can matter.
Pipeline ==
    follow =>
      /\ ~InCollect
      /\ \A i \in 1..Len(wire) : wire[i] = i
      /\ pc = "write" => cur = Len(wire) + 1
      /\ InStream =>
            /\ \A i \in 1..Len(chan) : chan[i] = Taken + i
            /\ Taken + Len(chan) + HoldsLine(rpc, "send") <= readPos
            /\ rpc # "done" \/ conn = "open" =>
                  Taken + Len(chan) + HoldsLine(rpc, "send") = readPos
      /\ readPos <= Len(wire) + Len(chan)
                      + (IF pc = "write" \/ Unwinding THEN 1 ELSE 0)
                      + (IF rpc \in {"send", "done"} THEN 1 ELSE 0)
      /\ closeFrame = "normal" => rpc = "done" /\ Len(wire) = readPos

\* No skipped line but blank ones: n is the next line with a payload after m.
NextLine(m, n) == m < n /\ \A k \in (m + 1)..(n - 1) : k \in Blank

\* The same for a one-shot request: the lines collected are a gap-free run that
\* ends at the line taken last, and a prefix of their tail is on the wire.
Collection ==
    ~follow =>
      /\ ~InStream
      /\ \A i \in 1..Len(chan) : chan[i] = cur + i
      /\ ~Unwinding /\ ~InCollect => collected = <<>>
      /\ cur + Len(chan) + HoldsLine(rpc, "send") <= readPos
      /\ rpc # "done" => cur + Len(chan) + HoldsLine(rpc, "send") = readPos
      /\ \A i \in 1..Len(collected) : collected[i] \in 1..cur
      /\ \A i \in 1..(Len(collected) - 1) : NextLine(collected[i], collected[i + 1])
      /\ collected # <<>> => NextLine(collected[Len(collected)], cur + 1)
      /\ pc \notin {"tail", "closeReader", "cancel", "closeConn", "returned"} =>
            wire = <<>>
      /\ Len(wire) <= Len(Answer)
      /\ \A i \in 1..Len(wire) : wire[i] = Answer[i]

IInv == NotStarted /\ CancelOrder /\ Ends /\ Pipeline /\ Collection

-----------------------------------------------------------------------------
(* What comments of the source say and the code does not do; each has a    *)
(* counterexample (see README.md).                                         *)

\* "Channel closed - send normal close and exit": a follow client that is
\* connected and reads is sent the normal close frame when the stream ends.
CloseIsAnnounced ==
    follow /\ pc = "closeReader" /\ conn = "open" /\ peer = "reading" =>
        closeFrame = "normal"

\* A one-shot request of a client that reads is answered whether or not Docker
\* keeps the response open.
OneShotEnds == [](peer = "reading") => (pc = "collect" ~> AllDone)
=============================================================================
