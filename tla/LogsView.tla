------------------------------ MODULE LogsView ------------------------------
(***************************************************************************)
(* The Logs view of the browser: LogsComponent, LogsSetupForm,             *)
(* LogsActiveControls and handleShowLogsInternal of ServiceName            *)
(* (src/app-src/src/components), around useWebSocket.                      *)
(*                                                                         *)
(* A session is what the user asked for, one service; each websocket of a  *)
(* session is a connection, to which the server sends what LogDelivery     *)
(* says: the i-th message of a connection is number i, and a close frame   *)
(* comes after all of them.  The user's clicks are handled in one step,    *)
(* with the effects React runs before it lets another event in.            *)
(***************************************************************************)
EXTENDS Naturals, Sequences

CONSTANTS
    Services,
    MaxConns,     \* bound: connections opened
    MaxLine,      \* bound: messages sent on a connection
    Cap,          \* the lines kept, twice logsNumberOfLines and at least 20
    None

ASSUME ViewAssumption ==
    /\ MaxConns \in Nat
    /\ MaxLine \in Nat
    /\ Cap \in Nat \ {0}
    /\ None \notin Services

Conns == 1..MaxConns

VARIABLES
    mounted,      \* the Logs view is the one on display
    showing,      \* logsShowLogs
    config,       \* logsConfig: the service and whether to follow it
    lines,        \* logsLines
    error,        \* logsError, by the connection it came from; 0 for null
    conn,         \* the connection useWebSocket holds; 0 for none
    retry,        \* useWebSocket's timer for the next attempt is set
    opened,       \* the connections 1..opened exist
    service,      \* the service of each connection
    sock,         \* where each connection is in the browser
    sent,         \* what the server has sent on each connection
    closeFrame,   \* the server's close frame: "none", "normal" or "error"
    got           \* the messages of each connection that were handled

session == <<mounted, showing, config>>
output  == <<lines, error>>
server  == <<sent, closeFrame>>
vars == <<session, output, conn, retry, opened, service, sock, server, got>>

NoConfig == [service |-> None, follow |-> FALSE]

Init ==
    /\ mounted = FALSE /\ showing = FALSE /\ config = NoConfig
    /\ lines = <<>> /\ error = 0
    /\ conn = 0 /\ retry = FALSE /\ opened = 0
    /\ service = [c \in Conns |-> None]
    /\ sock = [c \in Conns |-> "unused"]
    /\ sent = [c \in Conns |-> 0]
    /\ closeFrame = [c \in Conns |-> "none"]
    /\ got = [c \in Conns |-> 0]

-----------------------------------------------------------------------------
(* useWebSocket(url, options, connect).                                    *)

\* A new connection for a service; useWebSocket holds it.
Connect(s) ==
    /\ opened < MaxConns
    /\ opened' = opened + 1
    /\ conn' = opened + 1
    /\ retry' = FALSE
    /\ service' = [service EXCEPT ![opened + 1] = s]
    /\ sock' = [sock EXCEPT ![opened + 1] = "connecting"]
    /\ UNCHANGED <<server, got>>

NoConnect == UNCHANGED <<conn, retry, opened, service, sock, server, got>>

\* Where close() takes a connection; one that is not open yet fails.
LeftBehind(place) ==
    CASE place = "connecting" -> "aborted"
      [] place = "open"       -> "closing"
      [] OTHER                -> place

\* The effect's cleanup: the timer is cleared and the connection closed; its
\* handlers stay, for the close event that follows.
Disconnect ==
    /\ conn' = 0
    /\ retry' = FALSE
    /\ sock' = [c \in Conns |-> IF c = conn THEN LeftBehind(sock[c]) ELSE sock[c]]
    /\ UNCHANGED <<opened, service, server, got>>

\* The timer of shouldReconnect fires.
Reconnect ==
    /\ retry
    /\ Connect(config.service)
    /\ UNCHANGED <<session, output>>

-----------------------------------------------------------------------------
(* The user.                                                               *)

\* showLogs of the form, which is on display until logs are shown.
Show(s, follow) ==
    /\ mounted /\ ~showing
    /\ showing' = TRUE
    /\ config' = [service |-> s, follow |-> follow]
    /\ error' = 0
    /\ Connect(s)
    /\ UNCHANGED <<mounted, lines>>

\* Mutants of Hide: the connection, or the timer of the next attempt, survives.
HideKeepsSocket ==
    /\ mounted /\ showing
    /\ lines' = <<>> /\ error' = 0 /\ config' = NoConfig /\ showing' = FALSE
    /\ NoConnect
    /\ UNCHANGED mounted

HideKeepsTimer ==
    /\ mounted /\ showing
    /\ lines' = <<>> /\ error' = 0 /\ config' = NoConfig /\ showing' = FALSE
    /\ conn' = 0
    /\ sock' = [c \in Conns |-> IF c = conn THEN LeftBehind(sock[c]) ELSE sock[c]]
    /\ UNCHANGED <<mounted, retry, opened, service, server, got>>

\* hideLogs of the controls.
Hide ==
    /\ mounted /\ showing
    /\ lines' = <<>> /\ error' = 0 /\ config' = NoConfig /\ showing' = FALSE
    /\ Disconnect
    /\ UNCHANGED mounted

\* Another view is opened: the component is unmounted and its atoms stay.
Leave ==
    /\ mounted
    /\ mounted' = FALSE
    /\ Disconnect
    /\ UNCHANGED <<showing, config, output>>

\* The Logs view is opened again: a session that is still shown connects anew.
Return ==
    /\ ~mounted
    /\ mounted' = TRUE
    /\ IF showing THEN Connect(config.service) ELSE NoConnect
    /\ UNCHANGED <<showing, config, output>>

\* Mutant of OpenLogs: the lines of the session that ends are kept.
OpenLogsKeepsLines ==
    /\ ~mounted
    /\ mounted' = TRUE /\ showing' = FALSE
    /\ config' = IF showing THEN NoConfig ELSE config
    /\ NoConnect
    /\ UNCHANGED output

\* handleShowLogsInternal: the logs button of a service, in another view.
OpenLogs ==
    /\ ~mounted
    /\ mounted' = TRUE
    /\ showing' = FALSE
    /\ config' = IF showing THEN NoConfig ELSE config
    /\ lines' = IF showing THEN <<>> ELSE lines
    /\ NoConnect
    /\ UNCHANGED error

-----------------------------------------------------------------------------
(* The events of a connection c.                                           *)

Goes(c, place) == sock' = [sock EXCEPT ![c] = place]

Opened(c) ==
    /\ sock[c] = "connecting"
    /\ Goes(c, "open")
    /\ error' = 0
    /\ UNCHANGED <<session, lines, conn, retry, opened, service, server, got>>

LastOf(s) == SubSeq(s, IF Len(s) > Cap THEN Len(s) - Cap + 1 ELSE 1, Len(s))

\* Mutant of Message: only the last message of a burst is kept, as it was with
\* lastMessage.
MessageLastOfBurst(c) ==
    /\ sock[c] = "open" /\ got[c] < sent[c]
    /\ lines' = LastOf(Append(lines, [conn |-> c, line |-> sent[c]]))
    /\ got' = [got EXCEPT ![c] = sent[c]]
    /\ UNCHANGED <<session, error, conn, retry, opened, service, sock, server>>

\* handleMessage; a connection that was told to close delivers nothing more.
Message(c) ==
    /\ sock[c] = "open" /\ got[c] < sent[c]
    /\ lines' = LastOf(Append(lines, [conn |-> c, line |-> got[c] + 1]))
    /\ got' = [got EXCEPT ![c] = @ + 1]
    /\ UNCHANGED <<session, error, conn, retry, opened, service, sock, server>>

\* handleClose, then shouldReconnect.  A close frame of the server comes after
\* its messages, unless the browser has closed already; a connection may break
\* at any time, and one that never opened ends as if broken (code 1006).
Closed(c) ==
    /\ sock[c] \in {"connecting", "open", "closing", "aborted"}
    /\ Goes(c, "closed")
    /\ \/ error' = c
       \/ /\ sock[c] = "open"
          /\ got[c] = sent[c] /\ closeFrame[c] = "normal"
          /\ UNCHANGED error
       \/ sock[c] = "closing" /\ closeFrame[c] # "error" /\ UNCHANGED error
    /\ retry' = IF c = conn THEN showing /\ config.follow ELSE retry
    /\ UNCHANGED <<session, lines, conn, opened, service, server, got>>

-----------------------------------------------------------------------------
(* The server, as LogDelivery describes it.                                *)

Send(c) ==
    /\ sock[c] \in {"open", "closing"} /\ closeFrame[c] = "none"
    /\ sent[c] < MaxLine
    /\ sent' = [sent EXCEPT ![c] = @ + 1]
    /\ UNCHANGED <<session, output, conn, retry, opened, service, sock, closeFrame, got>>

\* With an error only when nothing was sent.
SendClose(c, frame) ==
    /\ sock[c] \in {"open", "closing"} /\ closeFrame[c] = "none"
    /\ frame = "error" => sent[c] = 0
    /\ closeFrame' = [closeFrame EXCEPT ![c] = frame]
    /\ UNCHANGED <<session, output, conn, retry, opened, service, sock, sent, got>>

User ==
    \/ \E s \in Services, follow \in BOOLEAN : Show(s, follow)
    \/ Hide \/ Leave \/ Return \/ OpenLogs

Connection(c) ==
    \/ Opened(c) \/ Message(c) \/ Closed(c)
    \/ Send(c)
    \/ \E frame \in {"normal", "error"} : SendClose(c, frame)

Next == User \/ Reconnect \/ \E c \in Conns : Connection(c)

Spec == Init /\ [][Next]_vars

-----------------------------------------------------------------------------
(* Properties.                                                             *)

Places == {"unused", "connecting", "open", "closing", "aborted", "closed"}
Configs == [service : Services \cup {None}, follow : BOOLEAN]
Lines == [conn : Conns, line : 1..MaxLine]

\* Every variable has its type; no more lines are kept than the cap.
TypeOK ==
    /\ mounted \in BOOLEAN /\ showing \in BOOLEAN /\ retry \in BOOLEAN
    /\ config \in Configs
    /\ lines \in Seq(Lines) /\ Len(lines) <= Cap
    /\ opened \in 0..MaxConns /\ error \in 0..opened /\ conn \in 0..opened
    /\ service \in [Conns -> Services \cup {None}]
    /\ sock \in [Conns -> Places]
    /\ sent \in [Conns -> 0..MaxLine] /\ got \in [Conns -> 0..MaxLine]
    /\ closeFrame \in [Conns -> {"none", "normal", "error"}]

\* The output never mixes the lines of two services, whatever connections of an
\* earlier session still do, and is empty when no session is shown.
NoForeignLines ==
    \A i \in 1..Len(lines) : showing /\ service[lines[i].conn] = config.service

\* No line of a burst is lost and none changes places: on display are the last
\* messages of the connection, and those of an earlier one of the session only
\* before all of them.
BurstIsKept ==
    \A i \in 1..Len(lines) :
        LET c == lines[i].conn
        IN  IF i < Len(lines) /\ lines[i + 1].conn = c
            THEN lines[i + 1].line = lines[i].line + 1
            ELSE /\ lines[i].line = got[c]
                 /\ i < Len(lines) => /\ lines[i + 1].conn > c
                                      /\ lines[i + 1].line = 1

\* Only the session on display has a live connection, and only one: leaving or
\* hiding it, or a retry, never leaves a second stream running on the server.
OneLiveConnection ==
    \A c \in Conns :
        sock[c] \in {"connecting", "open"} =>
            c = conn /\ mounted /\ showing /\ service[c] = config.service

\* A pending retry belongs to a follow session on display whose connection has
\* closed; a session that came later never inherits it.
RetryIsForFollow ==
    retry => mounted /\ showing /\ config.follow /\ conn # 0 /\ sock[conn] = "closed"

-----------------------------------------------------------------------------
(* The inductive invariant behind them.                                    *)

\* The connection that useWebSocket holds is the newest and the session's; a
\* connection that has delivered a message still has its last line on display.
Held ==
    /\ conn # 0 => conn = opened /\ mounted /\ showing /\ service[conn] = config.service
    /\ conn # 0 /\ got[conn] > 0 => lines # <<>> /\ lines[Len(lines)].conn = conn

\* Nothing was received on a connection that does not exist yet.
NotYetOpened ==
    /\ \A c \in Conns : c > opened => sock[c] = "unused" /\ got[c] = 0
    /\ \A i \in 1..Len(lines) : lines[i].conn <= opened

IInv ==
    /\ TypeOK
    /\ Held /\ NotYetOpened
    /\ NoForeignLines /\ BurstIsKept /\ OneLiveConnection /\ RetryIsForFollow
=============================================================================
