--------------------------- MODULE LogsViewProofs ---------------------------
(***************************************************************************)
(* Proofs of the safety properties of LogsView, for any services, any      *)
(* number of connections and messages and any cap.                         *)
(***************************************************************************)
EXTENDS LogsView, TLAPS

\* What the types say of single elements.
LEMMA TypeFacts ==
    ASSUME TypeOK
    PROVE  /\ MaxConns \in Nat /\ MaxLine \in Nat /\ Cap \in Nat \ {0}
           /\ opened \in Nat /\ opened <= MaxConns
           /\ conn \in Nat /\ conn <= opened
           /\ conn # 0 => conn \in Conns
           /\ \A c \in Conns : c \in Nat /\ c # 0 /\ c <= MaxConns
           /\ \A c \in Conns : sock[c] \in Places /\ got[c] \in Nat
           /\ \A c \in Conns : sent[c] \in Nat /\ sent[c] <= MaxLine
           /\ Len(lines) \in Nat
           /\ \A i \in 1..Len(lines) :
                 lines[i].conn \in Conns /\ lines[i].line \in 1..MaxLine
<1>1. MaxConns \in Nat /\ MaxLine \in Nat /\ Cap \in Nat \ {0}
  BY ViewAssumption DEF ViewAssumption
<1>2. \A i \in 1..Len(lines) : lines[i] \in Lines
  BY DEF TypeOK
<1>3. \A i \in 1..Len(lines) : lines[i].conn \in Conns /\ lines[i].line \in 1..MaxLine
  BY <1>2 DEF Lines
<1> QED BY <1>1, <1>3 DEF TypeOK, Conns

\* The initial state satisfies the inductive invariant.
LEMMA IInvInit == Init => IInv
<1> SUFFICES ASSUME Init PROVE IInv
  OBVIOUS
<1>1. MaxConns \in Nat /\ MaxLine \in Nat /\ Cap \in Nat \ {0}
  BY ViewAssumption DEF ViewAssumption
<1>2. lines = <<>> /\ lines \in Seq(Lines) /\ Len(lines) = 0
  BY DEF Init
<1>3. TypeOK
  <2>1. lines \in Seq(Lines) /\ Len(lines) <= Cap
    BY <1>1, <1>2
  <2>2. NoConfig \in Configs
    <3>1. None \in Services \cup {None} /\ FALSE \in BOOLEAN
      OBVIOUS
    <3>2. [service |-> None, follow |-> FALSE] \in [service : Services \cup {None}, follow : BOOLEAN]
      BY <3>1
    <3> QED BY <3>2 DEF NoConfig, Configs
  <2>3. opened \in 0..MaxConns /\ error \in 0..opened /\ conn \in 0..opened
    BY <1>1 DEF Init
  <2>4. /\ service \in [Conns -> Services \cup {None}]
        /\ sock \in [Conns -> Places]
        /\ sent \in [Conns -> 0..MaxLine] /\ got \in [Conns -> 0..MaxLine]
        /\ closeFrame \in [Conns -> {"none", "normal", "error"}]
    BY <1>1 DEF Init, Places
  <2>5. mounted \in BOOLEAN /\ showing \in BOOLEAN /\ retry \in BOOLEAN /\ config = NoConfig
    BY DEF Init
  <2> QED BY <2>1, <2>2, <2>3, <2>4, <2>5 DEF TypeOK
<1> QED
  BY <1>1, <1>2, <1>3
     DEF Init, IInv, Held, NotYetOpened, NoForeignLines, BurstIsKept,
         OneLiveConnection, RetryIsForFollow, Conns

\* LastOf keeps the end of a sequence, at most Cap of it and not nothing.
LEMMA LastOfKeepsTheEnd ==
    ASSUME NEW S, NEW s \in Seq(S)
    PROVE  /\ LastOf(s) \in Seq(S)
           /\ Len(LastOf(s)) <= Cap
           /\ s # <<>> => LastOf(s) # <<>>
           /\ \E d \in Nat :
                 /\ Len(s) = Len(LastOf(s)) + d
                 /\ \A i \in 1..Len(LastOf(s)) : LastOf(s)[i] = s[i + d]
<1>1. Cap \in Nat \ {0} /\ Len(s) \in Nat
  BY ViewAssumption DEF ViewAssumption
<1>2. CASE Len(s) > Cap
  <2> DEFINE d == Len(s) - Cap
  <2>1. LastOf(s) = SubSeq(s, d + 1, Len(s))
    BY <1>2 DEF LastOf
  <2>2. d \in Nat /\ d + 1 \in 1..Len(s)
    BY <1>1, <1>2
  <2>3. LastOf(s) \in Seq(S) /\ Len(LastOf(s)) = Cap
    BY <1>1, <1>2, <2>1, <2>2
  <2>4. \A i \in 1..Len(LastOf(s)) : LastOf(s)[i] = s[i + d]
    <3> SUFFICES ASSUME NEW i \in 1..Cap PROVE LastOf(s)[i] = s[i + d]
      BY <2>3
    <3>1. SubSeq(s, d + 1, Len(s))[i] = s[i + d]
      BY <1>1, <1>2, <2>2
    <3> QED BY <2>1, <3>1
  <2>5. Len(s) = Len(LastOf(s)) + d
    BY <1>1, <2>3
  <2>6. LastOf(s) # <<>>
    BY <1>1, <2>3
  <2> HIDE DEF d
  <2> QED BY <1>1, <2>2, <2>3, <2>4, <2>5, <2>6
<1>3. CASE ~(Len(s) > Cap)
  <2>1. LastOf(s) = SubSeq(s, 1, Len(s))
    BY <1>3 DEF LastOf
  <2>2. /\ LastOf(s) \in Seq(S)
        /\ Len(LastOf(s)) = Len(s)
        /\ \A i \in 1..Len(LastOf(s)) : LastOf(s)[i] = s[i]
    BY <1>1, <2>1
  <2>3. \A i \in 1..Len(LastOf(s)) : LastOf(s)[i] = s[i + 0]
    BY <1>1, <2>2
  <2>4. 0 \in Nat /\ Len(s) = Len(LastOf(s)) + 0
    BY <1>1, <2>2
  <2>5. \E d \in Nat :
           /\ Len(s) = Len(LastOf(s)) + d
           /\ \A i \in 1..Len(LastOf(s)) : LastOf(s)[i] = s[i + d]
    BY ONLY <2>3, <2>4
  <2>6. Len(LastOf(s)) <= Cap /\ (s # <<>> => LastOf(s) # <<>>)
    BY <1>1, <1>3, <2>2
  <2> QED BY ONLY <2>2, <2>5, <2>6
<1> QED BY <1>2, <1>3

\* A new connection for the service on display keeps the invariant.
LEMMA ConnectStep ==
    ASSUME IInv, NEW s \in Services \cup {None}, Connect(s),
           conn = 0 \/ sock[conn] = "closed",
           mounted', showing', config'.service = s,
           config' \in Configs,
           showing => config' = config, lines' = lines, error' \in 0..opened
    PROVE  IInv'
<1>1. TypeOK
  BY DEF IInv
<1>a. MaxConns \in Nat /\ MaxLine \in Nat /\ Cap \in Nat \ {0} /\ opened \in Nat
  BY <1>1, TypeFacts
<1> DEFINE n == opened + 1
<1>2. n \in Conns /\ opened \in Nat /\ opened' = n
  BY <1>a DEF Connect, Conns
<1>3. /\ service' \in [Conns -> Services \cup {None}] /\ service'[n] = s
      /\ \A c \in Conns : c # n => service'[c] = service[c]
      /\ sock'[n] = "connecting" /\ \A c \in Conns : c # n => sock'[c] = sock[c]
  BY <1>2 DEF IInv, TypeOK, Connect
<1>4. TypeOK'
  <2>1. sock' \in [Conns -> Places]
    BY <1>2 DEF IInv, TypeOK, Connect, Places
  <2>2. error' \in 0..opened' /\ conn' \in 0..opened' /\ opened' \in 0..MaxConns
    BY <1>a, <1>2 DEF Conns, Connect
  <2> QED BY <1>1, <1>3, <2>1, <2>2 DEF TypeOK, Connect, server
<1>4a. got' = got /\ lines' = lines /\ conn' = n
  BY DEF Connect
<1>4b. got[n] = 0 /\ n > opened
  BY <1>a, <1>2 DEF IInv, NotYetOpened
<1>5. Held'
  BY <1>2, <1>3, <1>4a, <1>4b DEF Held
<1>6. NotYetOpened'
  <2>1. ASSUME NEW c \in Conns, c > n PROVE sock'[c] = "unused" /\ got[c] = 0
    <3>1. c > opened /\ c # n
      BY <1>1, <1>a, <2>1, TypeFacts
    <3> QED BY <1>3, <3>1 DEF IInv, NotYetOpened
  <2>2. ASSUME NEW i \in 1..Len(lines) PROVE lines[i].conn <= n
    <3>1. lines[i].conn \in Nat /\ lines[i].conn <= opened
      BY <1>1, TypeFacts DEF IInv, NotYetOpened
    <3> QED BY <1>a, <3>1
  <2> QED BY <1>2, <1>4a, <2>1, <2>2 DEF NotYetOpened
<1>7. NoForeignLines'
  <2> SUFFICES ASSUME NEW i \in 1..Len(lines)
               PROVE  service'[lines[i].conn] = config'.service
    BY DEF NoForeignLines
  <2>1. lines[i].conn \in Conns /\ lines[i].conn # n
    <3>1. lines[i].conn \in Conns /\ lines[i].conn \in Nat /\ lines[i].conn <= opened
      BY <1>1, TypeFacts DEF IInv, NotYetOpened
    <3> QED BY <1>a, <3>1
  <2> QED BY <1>3, <2>1 DEF IInv, NoForeignLines
<1>8. BurstIsKept'
  BY DEF IInv, BurstIsKept, Connect
<1>9. OneLiveConnection'
  <2> SUFFICES ASSUME NEW c \in Conns, sock'[c] \in {"connecting", "open"}
               PROVE  c = n
    BY <1>3, <1>4a DEF OneLiveConnection
  <2> SUFFICES ASSUME c # n PROVE FALSE
    OBVIOUS
  <2>1. c = conn
    BY <1>3 DEF IInv, OneLiveConnection
  <2>2. c # 0
    BY <1>1, TypeFacts
  <2>3. sock[c] \in {"connecting", "open"}
    BY <1>3
  <2> QED BY <2>1, <2>2, <2>3
<1>10. RetryIsForFollow'
  BY DEF RetryIsForFollow, Connect
<1> QED BY <1>4, <1>5, <1>6, <1>7, <1>8, <1>9, <1>10 DEF IInv

\* Closing the connection of the session that was on display.
LEMMA DisconnectStep ==
    ASSUME IInv, Disconnect,
           mounted' \in BOOLEAN, showing' \in BOOLEAN,
           config' \in Configs,
           error' \in 0..opened,
           \/ lines' = lines /\ showing' = showing /\ config' = config
           \/ lines' = <<>>
    PROVE  IInv'
<1>1. TypeOK
  BY DEF IInv
<1>a. MaxConns \in Nat /\ MaxLine \in Nat /\ Cap \in Nat \ {0} /\ opened \in Nat
  BY <1>1, TypeFacts
<1>b. opened' = opened /\ got' = got /\ service' = service /\ conn' = 0
  BY DEF Disconnect
<1>2. /\ sock' \in [Conns -> Places]
      /\ \A c \in Conns : sock'[c] \notin {"connecting", "open"}
      /\ \A c \in Conns : sock[c] = "unused" => sock'[c] = "unused"
  <2> SUFFICES ASSUME NEW c \in Conns
               PROVE  /\ sock'[c] \in {"unused", "closing", "aborted", "closed"}
                      /\ sock[c] = "unused" => sock'[c] = "unused"
    BY DEF Disconnect, Places
  <2>1. sock'[c] = IF c = conn THEN LeftBehind(sock[c]) ELSE sock[c]
    BY DEF Disconnect
  <2>2. sock[c] \in {"unused", "connecting", "open", "closing", "aborted", "closed"}
    BY DEF IInv, TypeOK, Places
  <2>3. CASE sock[c] \in {"connecting", "open"}
    <3>1. c = conn
      BY <2>3 DEF IInv, OneLiveConnection
    <3> QED BY <2>1, <2>3, <3>1 DEF LeftBehind
  <2>4. CASE sock[c] \in {"unused", "closing", "aborted", "closed"}
    BY <2>1, <2>4 DEF LeftBehind
  <2> QED BY <2>2, <2>3, <2>4
<1>3. TypeOK'
  <2>1. lines' \in Seq(Lines) /\ Len(lines') <= Cap
    <3>1. CASE lines' = lines
      BY <1>1, <3>1 DEF TypeOK
    <3>2. CASE lines' = <<>>
      BY <1>a, <3>2
    <3> QED BY <3>1, <3>2
  <2>2. conn' \in 0..opened' /\ error' \in 0..opened'
    BY <1>a, <1>b
  <2> QED BY <1>1, <1>2, <2>1, <2>2 DEF TypeOK, Disconnect, server
<1>3a. NotYetOpened'
  <2>1. \A c \in Conns : c > opened => sock'[c] = "unused" /\ got[c] = 0
    BY <1>2 DEF IInv, NotYetOpened
  <2>2. \A i \in 1..Len(lines') : lines'[i].conn <= opened
    <3>1. CASE lines' = lines
      BY <3>1 DEF IInv, NotYetOpened
    <3>2. CASE lines' = <<>>
      BY <3>2
    <3> QED BY <3>1, <3>2
  <2> QED BY <1>b, <2>1, <2>2 DEF NotYetOpened
<1>3b. NoForeignLines' /\ BurstIsKept'
  <2>1. CASE lines' = lines /\ showing' = showing /\ config' = config
    BY <1>b, <2>1 DEF IInv, NoForeignLines, BurstIsKept
  <2>2. CASE lines' = <<>>
    BY <2>2 DEF NoForeignLines, BurstIsKept
  <2> QED BY <2>1, <2>2
<1>4. Held' /\ OneLiveConnection' /\ RetryIsForFollow'
  BY <1>2 DEF Held, OneLiveConnection, RetryIsForFollow, Disconnect
<1> QED BY <1>3, <1>3a, <1>3b, <1>4 DEF IInv

\* A message: the only step that adds to the output.
LEMMA MessageStep ==
    ASSUME IInv, NEW c \in Conns, Message(c)
    PROVE  IInv'
<1> DEFINE e == [conn |-> c, line |-> got[c] + 1]
<1> DEFINE s == Append(lines, e)
<1>1. TypeOK
  BY DEF IInv
<1>2. /\ MaxLine \in Nat /\ Cap \in Nat /\ opened \in Nat /\ Len(lines) \in Nat
      /\ got[c] \in Nat /\ got[c] + 1 <= MaxLine
  BY <1>1, TypeFacts DEF Message
<1>3. c = conn /\ c = opened /\ c # 0 /\ showing /\ service[c] = config.service
  BY <1>1, TypeFacts DEF IInv, OneLiveConnection, Held, Message
<1>4. e \in Lines
  BY <1>2 DEF Lines
<1>4a. lines \in Seq(Lines)
  BY <1>1 DEF TypeOK
<1> HIDE DEF e
<1>5. /\ s \in Seq(Lines) /\ s # <<>> /\ Len(s) = Len(lines) + 1 /\ s[Len(s)] = e
      /\ \A i \in 1..Len(lines) : s[i] = lines[i]
  BY <1>4, <1>4a
<1>6. /\ lines' = LastOf(s) /\ got' \in [Conns -> 0..MaxLine] /\ got'[c] = got[c] + 1
      /\ \A d \in Conns : d # c => got'[d] = got[d]
  BY <1>1, <1>2 DEF Message, TypeOK, e
<1> HIDE DEF s
<1>7. lines' \in Seq(Lines) /\ Len(lines') <= Cap /\ lines' # <<>>
  BY <1>5, <1>6, LastOfKeepsTheEnd
<1>8. PICK d \in Nat : /\ Len(s) = Len(lines') + d
                       /\ \A i \in 1..Len(lines') : lines'[i] = s[i + d]
  <2>1. \E d \in Nat :
           /\ Len(s) = Len(LastOf(s)) + d
           /\ \A i \in 1..Len(LastOf(s)) : LastOf(s)[i] = s[i + d]
    BY <1>5, LastOfKeepsTheEnd
  <2> QED BY <1>6, <2>1
<1>9. Len(lines') \in Nat /\ Len(lines') # 0
  BY <1>7
<1>10. \A i \in 1..Len(lines') :
          /\ i + d \in 1..Len(s) /\ lines'[i] = s[i + d]
          /\ i = Len(lines') <=> i + d = Len(s)
          /\ i < Len(lines') => i + 1 \in 1..Len(lines') /\ lines'[i + 1] = s[(i + d) + 1]
  <2> SUFFICES ASSUME NEW i \in 1..Len(lines')
               PROVE  /\ i + d \in 1..Len(s) /\ lines'[i] = s[i + d]
                      /\ i = Len(lines') <=> i + d = Len(s)
                      /\ i < Len(lines') =>
                            i + 1 \in 1..Len(lines') /\ lines'[i + 1] = s[(i + d) + 1]
    OBVIOUS
  <2>a. Len(s) \in Nat /\ d \in Nat /\ i \in Nat /\ Len(lines') \in Nat
    BY <1>2, <1>5, <1>9
  <2>1. i + d \in 1..Len(s) /\ (i = Len(lines') <=> i + d = Len(s))
    BY <1>8, <2>a
  <2>2. ASSUME i < Len(lines') PROVE i + 1 \in 1..Len(lines') /\ (i + 1) + d = (i + d) + 1
    BY <1>9, <2>2
  <2> QED BY <1>8, <2>1, <2>2
<1>11. \A j \in 1..Len(s) :
          IF j < Len(s) /\ s[j + 1].conn = s[j].conn
          THEN s[j + 1].line = s[j].line + 1
          ELSE /\ s[j].line = got'[s[j].conn]
               /\ j < Len(s) => s[j + 1].conn > s[j].conn /\ s[j + 1].line = 1
  <2> SUFFICES ASSUME NEW j \in 1..Len(s)
               PROVE  IF j < Len(s) /\ s[j + 1].conn = s[j].conn
                      THEN s[j + 1].line = s[j].line + 1
                      ELSE /\ s[j].line = got'[s[j].conn]
                           /\ j < Len(s) => s[j + 1].conn > s[j].conn /\ s[j + 1].line = 1
    OBVIOUS
  <2>a. j \in Nat /\ j # 0 /\ e.conn = c /\ e.line = got[c] + 1
    BY <1>2, <1>5 DEF e
  <2>1. CASE j = Len(s)
    BY <1>5, <1>6, <2>1, <2>a
  <2>2. CASE j = Len(lines)
    <3>1. j \in 1..Len(lines) /\ s[j] = lines[j] /\ s[j + 1] = e /\ j < Len(s)
      BY <1>2, <1>5, <2>2, <2>a
    <3>2. lines[j].line = got[lines[j].conn]
      BY <1>2, <2>2, <3>1 DEF IInv, BurstIsKept
    <3>3. CASE lines[j].conn = c
      BY <2>a, <3>1, <3>2, <3>3
    <3>4. CASE lines[j].conn # c
      <4>1. lines[j].conn \in Conns /\ lines[j].conn \in Nat /\ lines[j].conn <= opened
        BY <1>1, <3>1, TypeFacts DEF IInv, NotYetOpened
      <4>2. c > lines[j].conn
        BY <1>2, <1>3, <3>4, <4>1
      <4>3. got[c] = 0
        <5>1. ASSUME got[c] > 0 PROVE FALSE
          BY <1>3, <2>2, <3>4, <5>1 DEF IInv, Held
        <5> QED BY <1>2, <5>1
      <4> QED BY <1>6, <2>a, <3>1, <3>2, <3>4, <4>1, <4>2, <4>3
    <3> QED BY <3>3, <3>4
  <2>3. CASE j < Len(lines)
    <3>1. /\ j \in 1..Len(lines) /\ j + 1 \in 1..Len(lines) /\ j < Len(s)
          /\ s[j] = lines[j] /\ s[j + 1] = lines[j + 1]
      BY <1>2, <1>5, <2>3, <2>a
    <3>2. lines[j].conn \in Conns /\ lines[j].conn \in Nat
          /\ lines[j + 1].conn \in Nat /\ lines[j + 1].conn <= opened
      BY <1>1, <3>1, TypeFacts DEF IInv, NotYetOpened
    <3>3. IF lines[j + 1].conn = lines[j].conn
          THEN lines[j + 1].line = lines[j].line + 1
          ELSE /\ lines[j].line = got[lines[j].conn]
               /\ lines[j + 1].conn > lines[j].conn /\ lines[j + 1].line = 1
      BY <2>3, <3>1 DEF IInv, BurstIsKept
    <3>4. CASE lines[j + 1].conn = lines[j].conn
      BY <3>1, <3>3, <3>4
    <3>5. CASE lines[j + 1].conn # lines[j].conn
      <4>1. lines[j].conn # c
        BY <1>2, <1>3, <3>2, <3>3, <3>5
      <4> QED BY <1>6, <3>1, <3>2, <3>3, <3>5, <4>1
    <3> QED BY <3>4, <3>5
  <2> QED BY <1>2, <1>5, <2>1, <2>2, <2>3, <2>a
<1>12. \A j \in 1..Len(s) : s[j].conn <= opened /\ service[s[j].conn] = config.service
  <2> SUFFICES ASSUME NEW j \in 1..Len(s)
               PROVE  s[j].conn <= opened /\ service[s[j].conn] = config.service
    OBVIOUS
  <2>1. CASE j = Len(s)
    BY <1>2, <1>3, <1>5, <2>1 DEF e
  <2>2. CASE j # Len(s)
    <3>1. j \in 1..Len(lines) /\ s[j] = lines[j]
      BY <1>2, <1>5, <2>2
    <3> QED BY <3>1 DEF IInv, NotYetOpened, NoForeignLines
  <2> QED BY <2>1, <2>2
<1>13. TypeOK'
  BY <1>1, <1>6, <1>7 DEF TypeOK, Message, session, server
<1>14. Held'
  <2>1. lines'[Len(lines')] = e
    BY <1>5, <1>9, <1>10
  <2>2. e.conn = c
    BY DEF e
  <2> QED BY <1>3, <1>7, <2>1, <2>2 DEF IInv, Held, Message, session
<1>15. NotYetOpened'
  <2>1. ASSUME NEW k \in Conns, k > opened PROVE sock[k] = "unused" /\ got'[k] = 0
    <3>1. k # c
      BY <1>2, <1>3, <2>1
    <3> QED BY <1>6, <2>1, <3>1 DEF IInv, NotYetOpened
  <2>2. \A i \in 1..Len(lines') : lines'[i].conn <= opened
    BY <1>10, <1>12
  <2> QED BY <2>1, <2>2 DEF NotYetOpened, Message
<1>16. NoForeignLines'
  BY <1>3, <1>10, <1>12 DEF NoForeignLines, Message, session
<1>17. BurstIsKept'
  <2> SUFFICES ASSUME NEW i \in 1..Len(lines')
               PROVE  IF i < Len(lines') /\ lines'[i + 1].conn = lines'[i].conn
                      THEN lines'[i + 1].line = lines'[i].line + 1
                      ELSE /\ lines'[i].line = got'[lines'[i].conn]
                           /\ i < Len(lines') => /\ lines'[i + 1].conn > lines'[i].conn
                                                  /\ lines'[i + 1].line = 1
    BY DEF BurstIsKept
  <2> DEFINE j == i + d
  <2>1. j \in 1..Len(s) /\ lines'[i] = s[j]
    BY <1>10
  <2>2. CASE i < Len(lines')
    <3>1. j < Len(s) /\ lines'[i + 1] = s[j + 1]
      BY <1>8, <1>9, <1>10, <2>2
    <3> HIDE DEF j
    <3> QED BY <1>11, <2>1, <2>2, <3>1
  <2>3. CASE ~(i < Len(lines'))
    <3>1. ~(j < Len(s))
      BY <1>8, <1>9, <2>3
    <3> HIDE DEF j
    <3> QED BY <1>11, <2>1, <2>3, <3>1
  <2> QED BY <2>2, <2>3
<1>18. OneLiveConnection' /\ RetryIsForFollow'
  BY DEF IInv, OneLiveConnection, RetryIsForFollow, Message, session
<1> QED BY <1>13, <1>14, <1>15, <1>16, <1>17, <1>18 DEF IInv

\* The other events of a connection leave the output's lines alone.
LEMMA ConnectionStep ==
    ASSUME IInv, NEW c \in Conns, Connection(c)
    PROVE  IInv'
<1>1. TypeOK
  BY DEF IInv
<1>2. /\ MaxLine \in Nat /\ opened \in Nat /\ sock[c] \in Places /\ c \in Nat
      /\ sent[c] \in Nat
  BY <1>1, TypeFacts
<1>3. sock[c] # "unused" => c \in 0..opened
  BY <1>1, <1>2, TypeFacts DEF IInv, NotYetOpened
<1>4. CASE Opened(c)
  <2>1. TypeOK'
    BY <1>1, <1>4 DEF TypeOK, Opened, Goes, Places, session, server
  <2>2. NotYetOpened' /\ Held' /\ NoForeignLines' /\ BurstIsKept'
    BY <1>1, <1>4 DEF TypeOK, IInv, NotYetOpened, Held, NoForeignLines, BurstIsKept, Opened, Goes,
                     session, server
  <2>3. OneLiveConnection' /\ RetryIsForFollow'
    BY <1>1, <1>4 DEF TypeOK, IInv, OneLiveConnection, RetryIsForFollow, Opened, Goes, session
  <2> QED BY <2>1, <2>2, <2>3 DEF IInv
<1>5. CASE Closed(c)
  <2>1. error' \in 0..opened
    BY <1>1, <1>3, <1>5 DEF TypeOK, Closed
  <2>2. retry' \in BOOLEAN
    <3>1. config.follow \in BOOLEAN
      BY <1>1 DEF TypeOK, Configs
    <3> QED BY <1>1, <1>5, <3>1 DEF TypeOK, Closed
  <2>3. TypeOK'
    BY <1>1, <1>5, <2>1, <2>2 DEF TypeOK, Closed, Goes, Places, session, server
  <2>4. NotYetOpened' /\ Held' /\ NoForeignLines' /\ BurstIsKept'
    BY <1>1, <1>5 DEF TypeOK, IInv, NotYetOpened, Held, NoForeignLines, BurstIsKept, Closed, Goes,
                     session, server
  <2>5. OneLiveConnection'
    BY <1>1, <1>5 DEF TypeOK, IInv, OneLiveConnection, Closed, Goes, session
  <2>6. RetryIsForFollow'
    <3>1. CASE c = conn
      BY <1>1, <1>2, <1>5, <3>1, TypeFacts
         DEF TypeOK, IInv, Held, RetryIsForFollow, Closed, Goes, session
    <3>2. CASE c # conn
      BY <1>1, <1>5, <3>2 DEF TypeOK, IInv, RetryIsForFollow, Closed, Goes, session
    <3> QED BY <3>1, <3>2
  <2> QED BY <2>3, <2>4, <2>5, <2>6 DEF IInv
<1>6. CASE Send(c)
  <2>1. TypeOK'
    BY <1>1, <1>2, <1>6 DEF TypeOK, Send, session, output
  <2> QED
    BY <1>6, <2>1 DEF IInv, NotYetOpened, Held, NoForeignLines, BurstIsKept, OneLiveConnection,
                     RetryIsForFollow, Send, session, output
<1>7. ASSUME NEW frame \in {"normal", "error"}, SendClose(c, frame) PROVE IInv'
  <2>1. TypeOK'
    BY <1>1, <1>7 DEF TypeOK, SendClose, session, output
  <2> QED
    BY <1>7, <2>1 DEF IInv, NotYetOpened, Held, NoForeignLines, BurstIsKept, OneLiveConnection,
                     RetryIsForFollow, SendClose, session, output
<1> QED BY <1>4, <1>5, <1>6, <1>7, MessageStep DEF Connection

\* Every step keeps the inductive invariant.
LEMMA IInvStep == IInv /\ [Next]_vars => IInv'
<1> SUFFICES ASSUME IInv, [Next]_vars PROVE IInv'
  OBVIOUS
<1>1. TypeOK
  BY DEF IInv
<1>2. config \in Configs /\ mounted \in BOOLEAN /\ showing \in BOOLEAN /\ error \in 0..opened
  BY <1>1 DEF TypeOK
<1>3. config.service \in Services \cup {None}
  BY <1>2 DEF Configs
<1>4. NoConfig \in Configs
  <2>1. [service |-> None, follow |-> FALSE] \in [service : Services \cup {None}, follow : BOOLEAN]
    OBVIOUS
  <2> QED BY <2>1 DEF NoConfig, Configs
<1>5. 0 \in 0..opened /\ opened \in Nat
  BY <1>1, TypeFacts
<1>6. ~showing => lines = <<>>
  <2>1. lines \in Seq(Lines)
    BY <1>1 DEF TypeOK
  <2>2. ~showing => Len(lines) = 0
    BY <1>1, TypeFacts DEF IInv, NoForeignLines
  <2> QED BY <2>1, <2>2
<1>7. ~(mounted /\ showing) => conn = 0
  BY DEF IInv, Held
<1>8. ASSUME NEW s \in Services, NEW f \in BOOLEAN, Show(s, f) PROVE IInv'
  <2>1. [service |-> s, follow |-> f] \in [service : Services \cup {None}, follow : BOOLEAN]
    OBVIOUS
  <2>2. /\ config' \in Configs /\ config'.service = s /\ mounted' /\ showing'
        /\ ~showing /\ lines' = lines /\ error' = 0 /\ Connect(s)
    BY <1>8, <2>1 DEF Show, Configs
  <2> QED BY <1>5, <1>7, <2>2, ConnectStep
<1>9. CASE Hide
  BY <1>2, <1>4, <1>5, <1>9, DisconnectStep DEF Hide
<1>10. CASE Leave
  BY <1>2, <1>10, DisconnectStep DEF Leave, output
<1>11. CASE Return
  <2>1. CASE showing
    BY <1>2, <1>3, <1>7, <1>11, <2>1, ConnectStep DEF Return, output
  <2>2. CASE ~showing
    <3>1. TypeOK'
      BY <1>1, <1>11, <2>2 DEF TypeOK, Return, NoConnect, output, server
    <3> QED
      BY <1>11, <2>2, <3>1
         DEF IInv, Held, NotYetOpened, NoForeignLines, BurstIsKept, OneLiveConnection,
             RetryIsForFollow, Return, NoConnect, output, server
  <2> QED BY <2>1, <2>2
<1>12. CASE OpenLogs
  <2>1. lines' = <<>> /\ config' \in Configs /\ mounted' /\ ~showing'
    BY <1>2, <1>4, <1>6, <1>12 DEF OpenLogs
  <2>2. lines' \in Seq(Lines) /\ Len(lines') = 0
    BY <2>1
  <2>3. conn = 0 /\ ~mounted
    BY <1>7, <1>12 DEF OpenLogs
  <2>4. TypeOK'
    <3>1. mounted' \in BOOLEAN /\ showing' \in BOOLEAN
      BY <1>12 DEF OpenLogs
    <3>2. Len(lines') <= Cap
      BY <1>1, <2>2, TypeFacts
    <3> QED BY <1>1, <1>12, <2>1, <2>2, <3>1, <3>2 DEF TypeOK, OpenLogs, NoConnect, server
  <2>5. NoForeignLines' /\ BurstIsKept' /\ NotYetOpened'
    BY <1>12, <2>2 DEF IInv, NoForeignLines, BurstIsKept, NotYetOpened, OpenLogs, NoConnect
  <2>6. Held' /\ RetryIsForFollow' /\ OneLiveConnection'
    BY <1>12, <2>3
       DEF IInv, Held, RetryIsForFollow, OneLiveConnection, OpenLogs, NoConnect
  <2> QED BY <2>4, <2>5, <2>6 DEF IInv
<1>13. CASE Reconnect
  <2>1. mounted /\ showing /\ sock[conn] = "closed"
    BY <1>13 DEF IInv, RetryIsForFollow, Reconnect
  <2> QED BY <1>2, <1>3, <1>13, <2>1, ConnectStep DEF Reconnect, session, output
<1>14. ASSUME NEW c \in Conns, Connection(c) PROVE IInv'
  BY <1>14, ConnectionStep
<1>15. CASE UNCHANGED vars
  BY <1>15
     DEF IInv, TypeOK, Held, NotYetOpened, NoForeignLines, BurstIsKept, OneLiveConnection,
         RetryIsForFollow, vars, session, output, server
<1> QED
  BY <1>8, <1>9, <1>10, <1>11, <1>12, <1>13, <1>14, <1>15 DEF Next, User

\* The inductive invariant of the Logs view: what every state of the page
\* satisfies, whatever the user and the connections do.
THEOREM Invariance == Spec => []IInv
<1> QED BY IInvInit, IInvStep, PTL DEF Spec

\* The variables keep their types and the output its cap.
THEOREM TypeCorrect == Spec => []TypeOK
<1>1. IInv => TypeOK
  BY DEF IInv
<1> QED BY <1>1, Invariance, PTL

\* The output never mixes the lines of two services (resetLogsLines in
\* hideLogs and handleShowLogsInternal).
THEOREM NoForeignLinesHolds == Spec => []NoForeignLines
<1>1. IInv => NoForeignLines
  BY DEF IInv
<1> QED BY <1>1, Invariance, PTL

\* handleMessage keeps every line of a burst, in order, up to the cap.
THEOREM BurstIsKeptHolds == Spec => []BurstIsKept
<1>1. IInv => BurstIsKept
  BY DEF IInv
<1> QED BY <1>1, Invariance, PTL

\* At most one connection is live, and it is the one of the session on display.
THEOREM OneLiveConnectionHolds == Spec => []OneLiveConnection
<1>1. IInv => OneLiveConnection
  BY DEF IInv
<1> QED BY <1>1, Invariance, PTL

\* A pending retry belongs to the follow session on display.
THEOREM RetryIsForFollowHolds == Spec => []RetryIsForFollow
<1>1. IInv => RetryIsForFollow
  BY DEF IInv
<1> QED BY <1>1, Invariance, PTL
=============================================================================
