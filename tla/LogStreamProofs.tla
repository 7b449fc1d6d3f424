-------------------------- MODULE LogStreamProofs --------------------------
(***************************************************************************)
(* Theorems about LogStream for every number of lines, channel size, tail  *)
(* length, socket capacity and set of blank lines.                         *)
(***************************************************************************)
EXTENDS LogStream, SequenceTheorems, TLAPS

-----------------------------------------------------------------------------
(* Type correctness.                                                       *)

\* The last lines of a sequence are elements of it, as many as were asked for
\* and in the same order.
LEMMA LastLinesType ==
    ASSUME NEW S, NEW s \in Seq(S), NEW n \in Nat \ {0}
    PROVE  /\ LastLines(s, n) \in Seq(S)
           /\ Len(LastLines(s, n)) = IF Len(s) > n THEN n ELSE Len(s)
           /\ \A i \in 1..Len(LastLines(s, n)) :
                 LastLines(s, n)[i] = s[i + Len(s) - Len(LastLines(s, n))]
PROOF
<1> DEFINE k == Len(s)
<1>1. k \in Nat
  BY LenProperties
<1>2. CASE k > n
  <2>1. \A i \in (k - n + 1)..k : s[i] \in S
    BY <1>1, <1>2, ElementOfSeq
  <2>2. k - n + 1 \in Int /\ k \in Int
    BY <1>1
  <2> DEFINE a == k - n + 1
  <2>3. /\ SubSeq(s, a, k) \in Seq(S)
        /\ Len(SubSeq(s, a, k)) = IF a <= k THEN k - a + 1 ELSE 0
        /\ \A i \in 1..(k - a + 1) : SubSeq(s, a, k)[i] = s[a + i - 1]
    <3> HIDE DEF k, a
    <3> QED
      BY <2>1, <2>2, SubSeqProperties DEF a
  <2>4. LastLines(s, n) = SubSeq(s, a, k)
    BY <1>2 DEF LastLines
  <2>5. k - a + 1 = n /\ a <= k
    BY <1>1, <1>2
  <2>6. LastLines(s, n) \in Seq(S) /\ Len(LastLines(s, n)) = n
    BY <2>3, <2>4, <2>5
  <2>7. ASSUME NEW i \in 1..n PROVE LastLines(s, n)[i] = s[i + k - n]
    <3>1. a + i - 1 = i + k - n
      BY <1>1
    <3>2. SubSeq(s, a, k)[i] = s[a + i - 1]
      BY <2>3, <2>5
    <3> QED
      BY <2>4, <3>1, <3>2
  <2> QED
    BY <1>2, <2>6, <2>7
<1>3. CASE ~(k > n)
  BY <1>1, <1>3 DEF LastLines
<1> QED
  BY <1>2, <1>3

LEMMA AnswerType ==
    ASSUME NEW S, collected \in Seq(S)
    PROVE  Answer \in Seq(S) /\ Len(Answer) <= TailCount
PROOF
<1> QED
  BY LastLinesType, LenProperties, ConstantsAssumption
  DEF Answer, ConstantsAssumption

LEMMA TypeInit == Init => TypeOK
PROOF
<1> SUFFICES ASSUME Init PROVE TypeOK
  OBVIOUS
<1>1. unread \in 0..SockCap /\ emitted \in 0..MaxLines
  BY ConstantsAssumption DEF ConstantsAssumption, Init
<1>2. chan \in Seq(1..emitted) /\ wire \in Seq(1..emitted)
      /\ collected \in Seq(1..emitted)
  BY EmptySeq DEF Init
<1>3. Len(chan) <= ChanSize
  BY EmptySeq, ConstantsAssumption DEF Init, ConstantsAssumption
<1>4. /\ readPos \in (IF rpc = "send" THEN 1 ELSE 0)..emitted
      /\ cur \in (IF pc = "write" THEN 1 ELSE 0)..emitted
  BY DEF Init
<1>5. follow \in BOOLEAN /\ ctxDone \in BOOLEAN /\ readerClosed \in BOOLEAN
      /\ chanClosed \in BOOLEAN
  BY DEF Init
<1> QED
  BY <1>1, <1>2, <1>3, <1>4, <1>5 DEF Init, TypeOK

LEMMA TypeNext == TypeOK /\ [Next]_vars => TypeOK'
PROOF
<1> SUFFICES ASSUME TypeOK, [Next]_vars PROVE TypeOK'
  OBVIOUS
<1> USE ConstantsAssumption DEF ConstantsAssumption, TypeOK, dockerVars,
        peerVars, readerVars, writeVars, tailVars, taskVars
<1>1. CASE Upgrade
  BY <1>1 DEF Upgrade
<1>2. CASE GetCli
  BY <1>2 DEF GetCli
<1>3. CASE ServiceLogs
  BY <1>3 DEF ServiceLogs
<1>4. CASE ReportError
  BY <1>4 DEF ReportError, WriteClose
<1>5. CASE TakeLine
  <2>1. /\ Head(chan) \in 1..emitted
        /\ Tail(chan) \in Seq(1..emitted)
        /\ Len(Tail(chan)) = Len(chan) - 1
    BY <1>5, HeadTailProperties DEF TakeLine
  <2>2. Len(chan) \in Nat
    BY LenProperties
  <2> QED
    BY <1>5, <2>1, <2>2 DEF TakeLine
<1>6. CASE WriteLine
  <2>1. Append(wire, cur) \in Seq(1..emitted)
    BY <1>6, AppendProperties DEF WriteLine
  <2>2. unread + 1 \in 0..SockCap
    BY <1>6 DEF WriteLine, SendText, CanWrite
  <2> QED
    BY <1>6, <2>1, <2>2 DEF WriteLine, SendText
<1>7. CASE WriteLineFails
  BY <1>7 DEF WriteLineFails, AbandonStream
<1>8. CASE Ping
  BY <1>8 DEF Ping
<1>9. CASE PingFails
  BY <1>9 DEF PingFails, AbandonStream
<1>10. CASE ChannelEnds
  BY <1>10 DEF ChannelEnds
<1>11. CASE SendClose
  BY <1>11 DEF SendClose, WriteClose
<1>12. CASE WriteDeadlinePasses
  BY <1>12 DEF WriteDeadlinePasses
<1>13. CASE CollectLine
  <2>1. /\ Head(chan) \in 1..emitted
        /\ Tail(chan) \in Seq(1..emitted)
        /\ Len(Tail(chan)) = Len(chan) - 1
    BY <1>13, HeadTailProperties DEF CollectLine
  <2>2. Len(chan) \in Nat
    BY LenProperties
  <2>3. collected' \in Seq(1..emitted)
    BY <1>13, <2>1, AppendProperties DEF CollectLine
  <2> QED
    BY <1>13, <2>1, <2>2, <2>3 DEF CollectLine
<1>14. CASE CollectEnds
  BY <1>14 DEF CollectEnds, CollectReturns
<1>15. CASE CollectIdle
  BY <1>15 DEF CollectIdle, CollectReturns
<1>16. CASE CollectCancelled
  BY <1>16 DEF CollectCancelled, CollectReturns
<1>17. CASE SendTailLine
  <2>1. Answer \in Seq(1..emitted)
    BY AnswerType
  <2>2. Len(wire) + 1 \in 1..Len(Answer)
    BY <1>17, <2>1, LenProperties DEF SendTailLine
  <2>3. Append(wire, Answer[Len(wire) + 1]) \in Seq(1..emitted)
    BY <2>1, <2>2, AppendProperties, ElementOfSeq
  <2>4. unread + 1 \in 0..SockCap
    BY <1>17 DEF SendTailLine, SendText, CanWrite
  <2> QED
    BY <1>17, <2>3, <2>4 DEF SendTailLine, SendText
<1>18. CASE SendTailFails
  BY <1>18 DEF SendTailFails
<1>19. CASE TailSent
  BY <1>19 DEF TailSent, WriteClose
<1>20. CASE DeferCloseReader
  BY <1>20 DEF DeferCloseReader
<1>21. CASE DeferCancel
  BY <1>21 DEF DeferCancel
<1>22. CASE DeferCloseConn
  BY <1>22 DEF DeferCloseConn
<1>23. CASE ReadLine
  BY <1>23 DEF ReadLine
<1>24. CASE ReadError
  BY <1>24 DEF ReadError, ReaderReturns
<1>25. CASE SendLine
  <2>1. /\ Append(chan, readPos) \in Seq(1..emitted)
        /\ Len(Append(chan, readPos)) = Len(chan) + 1
    BY <1>25, AppendProperties DEF SendLine
  <2>2. Len(chan) \in Nat
    BY LenProperties
  <2> QED
    BY <1>25, <2>1, <2>2 DEF SendLine
<1>26. CASE DropLine
  BY <1>26 DEF DropLine, ReaderReturns
<1>27. CASE CloseReader
  BY <1>27 DEF CloseReader
<1>28. CASE ReadMessageFails
  BY <1>28 DEF ReadMessageFails, WatcherSees
<1>29. CASE ReadDeadlinePasses
  BY <1>29 DEF ReadDeadlinePasses, WatcherSees
<1>30. CASE WatcherCancel
  BY <1>30 DEF WatcherCancel
<1>31. CASE Emit
  <2>1. 1..emitted \subseteq 1..(emitted + 1)
    OBVIOUS
  <2>2. /\ chan \in Seq(1..(emitted + 1))
        /\ wire \in Seq(1..(emitted + 1))
        /\ collected \in Seq(1..(emitted + 1))
    BY <2>1, SeqMonotonic
  <2> QED
    BY <1>31, <2>2 DEF Emit
<1>32. CASE SourceEnds
  BY <1>32 DEF SourceEnds
<1>33. CASE PeerReads
  BY <1>33 DEF PeerReads
<1>34. CASE PeerChanges
  BY <1>34 DEF PeerChanges
<1>35. CASE UNCHANGED vars
  BY <1>35 DEF vars
<1> QED
  BY <1>1, <1>2, <1>3, <1>4, <1>5, <1>6, <1>7, <1>8, <1>9, <1>10, <1>11,
     <1>12, <1>13, <1>14, <1>15, <1>16, <1>17, <1>18, <1>19, <1>20, <1>21,
     <1>22, <1>23, <1>24, <1>25, <1>26, <1>27, <1>28, <1>29, <1>30, <1>31,
     <1>32, <1>33, <1>34, <1>35 DEF Next, Handler, Reader, Closer, Watcher,
     Environment, Terminated

\* Every reachable state is well typed.
THEOREM TypeCorrect == Spec => []TypeOK
PROOF
<1> QED
  BY TypeInit, TypeNext, PTL DEF Spec

-----------------------------------------------------------------------------
(* The inductive invariant.                                                *)

\* The numbers and sequences of a well-typed state.
LEMMA TypeFacts ==
    ASSUME TypeOK
    PROVE  /\ chan \in Seq(Nat) /\ wire \in Seq(Nat) /\ collected \in Seq(Nat)
           /\ Len(chan) \in Nat /\ Len(wire) \in Nat /\ Len(collected) \in Nat
           /\ readPos \in Nat /\ cur \in Nat /\ emitted \in Nat
PROOF
<1>1. emitted \in Nat /\ readPos \in Nat /\ cur \in Nat
  BY ConstantsAssumption DEF TypeOK, ConstantsAssumption
<1>2. 1..emitted \subseteq Nat
  BY <1>1
<1>3. chan \in Seq(Nat) /\ wire \in Seq(Nat) /\ collected \in Seq(Nat)
  BY <1>2, SeqMonotonic DEF TypeOK
<1> QED
  BY <1>1, <1>3, LenProperties

\* What is left in the channel when its first line is received.
LEMMA Receive ==
    ASSUME NEW c \in Seq(Nat), c # <<>>
    PROVE  /\ Len(c) \in Nat \ {0}
           /\ Head(c) = c[1]
           /\ Tail(c) \in Seq(Nat)
           /\ Len(Tail(c)) = Len(c) - 1
           /\ \A i \in 1..(Len(c) - 1) : Tail(c)[i] = c[i + 1]
PROOF
<1>1. Len(c) \in Nat \ {0}
  BY EmptySeq
<1>2. Head(c) = c[1]
  OBVIOUS
<1> QED
  BY <1>1, <1>2, HeadTailProperties

\* A channel that holds consecutive lines still does when the next one is sent.
LEMMA SendKeepsRun ==
    ASSUME NEW c \in Seq(Nat), NEW b \in Nat, NEW n \in Nat,
           \A i \in 1..Len(c) : c[i] = b + i,
           b + Len(c) + 1 = n
    PROVE  \A i \in 1..Len(Append(c, n)) : Append(c, n)[i] = b + i
PROOF
<1>1. /\ Len(c) \in Nat
      /\ Len(Append(c, n)) = Len(c) + 1
      /\ Append(c, n)[Len(c) + 1] = n
      /\ \A i \in 1..Len(c) : Append(c, n)[i] = c[i]
  BY LenProperties, AppendProperties
<1>2. TAKE i \in 1..Len(Append(c, n))
<1>3. CASE i = Len(c) + 1
  BY <1>1, <1>3
<1>4. CASE i # Len(c) + 1
  <2>1. i \in 1..Len(c)
    BY <1>1, <1>2, <1>4
  <2> QED
    BY <1>1, <2>1
<1> QED
  BY <1>3, <1>4

\* The steps that move a line, one lemma each.
LEMMA TakeLinePipeline ==
    ASSUME TypeOK, IInv, TakeLine
    PROVE  Pipeline'
PROOF
<1> USE DEF InStream, InCollect, Unwinding, HoldsLine, Taken
<1>0. chan \in Seq(Nat) /\ Len(chan) \in Nat /\ Len(wire) \in Nat /\ readPos \in Nat
  BY TypeFacts
<1>1. /\ pc = "stream" /\ pc' = "write" /\ chan # <<>>
      /\ chan' = Tail(chan) /\ cur' = Head(chan)
      /\ UNCHANGED <<follow, conn, wire, closeFrame, rpc, readPos>>
  BY DEF TakeLine, readerVars
<1>2. Len(chan') = Len(chan) - 1 /\ \A i \in 1..(Len(chan) - 1) : chan'[i] = chan[i + 1]
  BY <1>0, <1>1, Receive
<1>3. Head(chan) = chan[1] /\ Len(chan) \in Nat \ {0}
  BY <1>0, <1>1, Receive
<1>4. Pipeline
  BY DEF IInv
<1>5. CASE follow
  <2>0. Taken = Len(wire)
    BY <1>0, <1>1
  <2>1. \A i \in 1..Len(chan) : chan[i] = Len(wire) + i
    <3> HIDE DEF Taken
    <3> QED
      BY <1>1, <1>4, <1>5, <2>0 DEF Pipeline
  <2>2. cur' = Len(wire) + 1
    BY <1>1, <1>3, <2>1
  <2>3. \A i \in 1..Len(chan') : chan'[i] = Len(wire) + 1 + i
    BY <1>0, <1>2, <1>3, <2>1
  <2>5. Taken' + Len(chan') = Taken + Len(chan) /\ Taken' = Len(wire) + 1
    BY <1>0, <1>1, <1>2, <1>3
  <2>4. closeFrame = "none"
    BY <1>1 DEF IInv, Ends, TypeOK
  <2> QED
    BY <1>0, <1>1, <1>2, <1>4, <1>5, <2>2, <2>3, <2>4, <2>5 DEF Pipeline
<1>6. CASE ~follow
  BY <1>1, <1>6 DEF Pipeline
<1> QED
  BY <1>5, <1>6

LEMMA CollectLineCollection ==
    ASSUME TypeOK, IInv, CollectLine
    PROVE  Collection'
PROOF
<1> USE DEF InStream, InCollect, Unwinding, HoldsLine
<1>0. /\ chan \in Seq(Nat) /\ Len(chan) \in Nat /\ readPos \in Nat /\ cur \in Nat
      /\ collected \in Seq(Nat) /\ Len(collected) \in Nat
  BY TypeFacts
<1>1. /\ pc = "collect" /\ pc' = "collect" /\ chan # <<>>
      /\ chan' = Tail(chan) /\ cur' = Head(chan)
      /\ collected' = IF cur' \in Blank THEN collected ELSE Append(collected, cur')
      /\ UNCHANGED <<follow, wire, rpc, readPos>>
  BY DEF CollectLine, readerVars
<1>2. Len(chan') = Len(chan) - 1 /\ \A i \in 1..(Len(chan) - 1) : chan'[i] = chan[i + 1]
  BY <1>0, <1>1, Receive
<1>3. Head(chan) = chan[1] /\ Len(chan) \in Nat \ {0}
  BY <1>0, <1>1, Receive
<1>4. Collection
  BY DEF IInv
<1>5. CASE ~follow
  <2>1. \A i \in 1..Len(chan) : chan[i] = cur + i
    BY <1>4, <1>5 DEF Collection
  <2>2. cur' = cur + 1
    BY <1>1, <1>3, <2>1
  <2>3. \A i \in 1..Len(chan') : chan'[i] = cur' + i
    BY <1>0, <1>2, <1>3, <2>1, <2>2
  <2>4. cur' + Len(chan') = cur + Len(chan)
    BY <1>0, <1>2, <1>3, <2>2
  <2>5. wire' = <<>> /\ Len(wire') = 0
    BY <1>1, <1>4, <1>5, EmptySeq DEF Collection
  <2>6. \A i \in 1..(Len(collected) - 1) : NextLine(collected[i], collected[i + 1])
    BY <1>4, <1>5 DEF Collection
  <2>7. collected # <<>> => NextLine(collected[Len(collected)], cur + 1)
    BY <1>4, <1>5 DEF Collection
  <2>8. \A i \in 1..Len(collected') : collected'[i] \in 1..cur'
    <3>1. \A i \in 1..Len(collected) : collected[i] \in 1..cur
      BY <1>4, <1>5 DEF Collection
    <3>2. CASE cur' \in Blank
      <4>1. collected' = collected
        BY <1>1, <3>2
      <4>2. ASSUME NEW i \in 1..Len(collected) PROVE collected[i] \in 1..(cur + 1)
        BY <1>0, <3>1
      <4> QED
        BY <2>2, <4>1, <4>2
    <3>3. CASE cur' \notin Blank
      <4>1. /\ Len(collected') = Len(collected) + 1
            /\ collected'[Len(collected) + 1] = cur + 1
            /\ \A i \in 1..Len(collected) : collected'[i] = collected[i]
        BY <1>0, <1>1, <2>2, <3>3, AppendProperties
      <4>2. TAKE i \in 1..Len(collected')
      <4>3. i \in 1..Len(collected) \/ i = Len(collected) + 1
        BY <1>0, <4>1
      <4>4. collected'[i] = cur + 1 \/ collected'[i] \in 1..cur
        BY <3>1, <4>1, <4>3
      <4> QED
        BY <1>0, <2>2, <4>4
    <3> QED
      BY <3>2, <3>3
  <2>9. /\ \A i \in 1..(Len(collected') - 1) : NextLine(collected'[i], collected'[i + 1])
        /\ collected' # <<>> => NextLine(collected'[Len(collected')], cur' + 1)
    <3>1. CASE cur' \in Blank
      <4>1. collected' = collected
        BY <1>1, <3>1
      <4>2. collected # <<>> => collected[Len(collected)] \in Nat
        BY <1>0, EmptySeq, ElementOfSeq
      <4> QED
        BY <1>0, <2>2, <2>6, <2>7, <3>1, <4>1, <4>2 DEF NextLine
    <3>2. CASE cur' \notin Blank
      <4>1. /\ Len(collected') = Len(collected) + 1
            /\ collected'[Len(collected) + 1] = cur + 1
            /\ \A i \in 1..Len(collected) : collected'[i] = collected[i]
        BY <1>0, <1>1, <2>2, <3>2, AppendProperties
      <4>2. NextLine(cur + 1, cur' + 1)
        BY <1>0, <2>2 DEF NextLine
      <4>3. collected # <<>> <=> Len(collected) >= 1
        BY <1>0, EmptySeq
      <4>4. ASSUME NEW i \in 1..Len(collected)
            PROVE  NextLine(collected'[i], collected'[i + 1])
        <5>1. CASE i = Len(collected)
          BY <1>0, <2>7, <4>1, <4>3, <5>1
        <5>2. CASE i # Len(collected)
          <6>1. i \in 1..(Len(collected) - 1) /\ i + 1 \in 1..Len(collected)
            BY <1>0, <5>2
          <6> QED
            BY <2>6, <4>1, <6>1
        <5> QED
          BY <5>1, <5>2
      <4> QED
        BY <1>0, <4>1, <4>2, <4>4
    <3> QED
      BY <3>1, <3>2
  <2>10. Len(Answer') \in Nat
    <3>1. collected' \in Seq(Nat)
      BY <1>0, <1>1, <2>2, AppendProperties
    <3> QED
      BY <3>1, LastLinesType, LenProperties, ConstantsAssumption
      DEF Answer, ConstantsAssumption
  <2>11. Len(wire') <= Len(Answer') /\ \A i \in 1..Len(wire') : wire'[i] = Answer'[i]
    BY <2>5, <2>10
  <2> QED
    BY <1>0, <1>1, <1>4, <1>5, <2>3, <2>4, <2>5, <2>8, <2>9, <2>11
    DEF Collection
<1>6. CASE follow
  BY <1>1, <1>6 DEF Collection
<1> QED
  BY <1>5, <1>6

LEMMA SendLineParts ==
    ASSUME TypeOK, IInv, SendLine
    PROVE  Pipeline' /\ Collection'
PROOF
<1>0. /\ chan \in Seq(Nat) /\ Len(chan) \in Nat /\ readPos \in Nat
      /\ Len(wire) \in Nat /\ cur \in Nat /\ Taken \in Nat
  BY TypeFacts DEF Taken, HoldsLine
<1>1. /\ rpc = "send" /\ rpc' = "read"
      /\ UNCHANGED <<follow, pc, conn, readPos, cur, wire, closeFrame, collected,
                     Answer, Taken, InStream, InCollect, Unwinding>>
  BY DEF SendLine, readerVars, writeVars, tailVars, Answer, Taken, HoldsLine,
         InStream, InCollect, Unwinding
<1>2. /\ Len(chan') = Len(chan) + 1
      /\ chan'[Len(chan) + 1] = readPos
      /\ \A i \in 1..Len(chan) : chan'[i] = chan[i]
  BY <1>0, AppendProperties DEF SendLine
<1>3. HoldsLine(rpc, "send") = 1 /\ HoldsLine(rpc, "send")' = 0
  BY <1>1 DEF HoldsLine
<1>4. Pipeline'
  <2>1. SUFFICES ASSUME follow PROVE Pipeline'
    BY <1>1 DEF Pipeline
  <2>2. Pipeline
    BY DEF IInv
  <2>3. InStream => Taken + Len(chan) + 1 = readPos
    BY <1>0, <1>1, <1>3, <2>1, <2>2 DEF Pipeline
  <2>4. InStream => \A i \in 1..Len(chan') : chan'[i] = Taken + i
    <3>1. InStream => \A i \in 1..Len(chan) : chan[i] = Taken + i
      BY <2>1, <2>2 DEF Pipeline
    <3>2. chan' = Append(chan, readPos)
      BY DEF SendLine
    <3>3. chan \in Seq(Nat) /\ Taken \in Nat /\ readPos \in Nat
      BY <1>0
    <3> QED
      BY ONLY <2>3, <3>1, <3>2, <3>3, SendKeepsRun
  <2>5. InStream => Taken + Len(chan') + 0 = readPos
    BY <1>0, <1>2, <2>3
  <2>6. /\ ~InCollect /\ \A i \in 1..Len(wire) : wire[i] = i
        /\ pc = "write" => cur = Len(wire) + 1
        /\ closeFrame # "normal"
        /\ readPos <= Len(wire) + Len(chan)
                      + (IF pc = "write" \/ Unwinding THEN 1 ELSE 0) + 1
    BY <1>1, <2>1, <2>2 DEF Pipeline
  <2> QED
    BY <1>0, <1>1, <1>2, <1>3, <2>1, <2>4, <2>5, <2>6 DEF Pipeline
<1>5. Collection'
  <2>1. SUFFICES ASSUME ~follow PROVE Collection'
    BY <1>1 DEF Collection
  <2>2. Collection
    BY DEF IInv
  <2>3. cur + Len(chan) + 1 = readPos
    BY <1>1, <1>3, <2>1, <2>2 DEF Collection
  <2>4. \A i \in 1..Len(chan') : chan'[i] = cur + i
    <3>1. \A i \in 1..Len(chan) : chan[i] = cur + i
      BY <2>1, <2>2 DEF Collection
    <3>2. chan' = Append(chan, readPos)
      BY DEF SendLine
    <3>3. chan \in Seq(Nat) /\ cur \in Nat /\ readPos \in Nat
      BY <1>0
    <3> QED
      BY ONLY <2>3, <3>1, <3>2, <3>3, SendKeepsRun
  <2>5. cur + Len(chan') + 0 = readPos
    BY <1>0, <1>2, <2>3
  <2> QED
    BY <1>0, <1>1, <1>3, <2>1, <2>2, <2>4, <2>5 DEF Collection
<1> QED
  BY <1>4, <1>5

LEMMA SendTailLineCollection ==
    ASSUME TypeOK, IInv, SendTailLine
    PROVE  Collection'
PROOF
<1> USE DEF InStream, InCollect, Unwinding, HoldsLine
<1>0. wire \in Seq(Nat) /\ Len(wire) \in Nat
  BY TypeFacts
<1>1. /\ pc = "tail" /\ Len(wire) < Len(Answer)
      /\ wire' = Append(wire, Answer[Len(wire) + 1])
      /\ UNCHANGED <<follow, pc, chan, cur, rpc, readPos, collected, Answer>>
  BY DEF SendTailLine, SendText, readerVars, tailVars, Answer
<1>2. CASE ~follow
  <2>1. Collection
    BY DEF IInv
  <2>3. Answer \in Seq(Nat) /\ Len(Answer) \in Nat
    BY TypeFacts, AnswerType, LenProperties
  <2>2. /\ Len(wire') = Len(wire) + 1
        /\ wire'[Len(wire) + 1] = Answer[Len(wire) + 1]
        /\ \A i \in 1..Len(wire) : wire'[i] = wire[i]
    <3>1. Answer[Len(wire) + 1] \in Nat
      BY <1>0, <1>1, <2>3, ElementOfSeq
    <3> QED
      BY <1>0, <1>1, <3>1, AppendProperties
  <2>4. Len(wire') <= Len(Answer)
    BY <1>0, <1>1, <2>2, <2>3
  <2>5. ASSUME NEW i \in 1..(Len(wire) + 1) PROVE wire'[i] = Answer[i]
    <3>1. i \in 1..Len(wire) \/ i = Len(wire) + 1
      BY <1>0
    <3>2. \A j \in 1..Len(wire) : wire[j] = Answer[j]
      BY <1>2, <2>1 DEF Collection
    <3> QED
      BY <2>2, <3>1, <3>2
  <2> QED
    BY <1>1, <1>2, <2>1, <2>2, <2>4, <2>5 DEF Collection
<1>3. CASE follow
  BY <1>1, <1>3 DEF Collection
<1> QED
  BY <1>2, <1>3

LEMMA ReadLinePipeline ==
    ASSUME TypeOK, IInv, ReadLine
    PROVE  Pipeline'
PROOF
<1>0. /\ Len(chan) \in Nat /\ Len(wire) \in Nat /\ readPos \in Nat
      /\ Taken \in Nat
  BY TypeFacts DEF Taken, HoldsLine
<1>1. /\ rpc = "read" /\ rpc' = "send" /\ readPos' = readPos + 1
      /\ UNCHANGED <<follow, pc, conn, chan, cur, wire, closeFrame,
                     Taken, InStream, InCollect, Unwinding>>
  BY DEF ReadLine, writeVars, Taken, HoldsLine, InStream, InCollect, Unwinding
<1>2. HoldsLine(rpc, "send") = 0 /\ HoldsLine(rpc, "send")' = 1
  BY <1>1 DEF HoldsLine
<1>3. Pipeline
  BY DEF IInv
<1>4. follow => /\ InStream => Taken + Len(chan) = readPos
                /\ readPos <= Len(wire) + Len(chan)
                       + (IF pc = "write" \/ Unwinding THEN 1 ELSE 0)
  BY <1>0, <1>1, <1>2, <1>3 DEF Pipeline
<1> QED
  BY <1>0, <1>1, <1>2, <1>3, <1>4 DEF Pipeline

\* A step that moves no line and opens no connection keeps where the lines are.
LEMMA NoLineMoves ==
    ASSUME IInv, (NotStarted /\ CancelOrder /\ Ends)',
           UNCHANGED <<follow, pc, rpc, readPos, chan, cur, wire, closeFrame, collected>>,
           conn' = "open" => conn = "open"
    PROVE  IInv'
PROOF
<1>1. /\ InStream' = InStream /\ InCollect' = InCollect /\ Unwinding' = Unwinding
      /\ Taken' = Taken /\ Answer' = Answer
      /\ HoldsLine(rpc, "send")' = HoldsLine(rpc, "send")
  BY DEF InStream, InCollect, Unwinding, Taken, Answer, HoldsLine
<1>2. Pipeline'
  BY <1>1 DEF IInv, Pipeline
<1>3. Collection'
  BY <1>1 DEF IInv, Collection
<1> QED
  BY <1>2, <1>3 DEF IInv

LEMMA IInvInit == Init => IInv
PROOF
<1> SUFFICES ASSUME Init PROVE IInv
  OBVIOUS
<1> USE DEF Init, InStream, InCollect, Unwinding, HoldsLine, Taken
<1>1. Len(wire) = 0 /\ Len(chan) = 0 /\ Len(collected) = 0
  BY EmptySeq
<1>2. Answer \in Seq(Nat) /\ Len(Answer) \in Nat
  BY EmptySeq, AnswerType, LenProperties
<1>3. NotStarted /\ CancelOrder /\ Ends
  BY DEF NotStarted, CancelOrder, Ends
<1>4. Pipeline
  BY <1>1 DEF Pipeline
<1>5. Collection
  BY <1>1, <1>2 DEF Collection
<1> QED
  BY <1>3, <1>4, <1>5 DEF IInv

LEMMA IInvNext == TypeOK /\ IInv /\ [Next]_vars => IInv'
PROOF
<1> SUFFICES ASSUME TypeOK, IInv, [Next]_vars PROVE IInv'
  OBVIOUS
<1> USE DEF IInv, NotStarted, CancelOrder, Ends, Pipeline, Collection,
        InStream, InCollect, Unwinding, HoldsLine, Taken, NextLine,
        Answer, dockerVars, peerVars, readerVars, writeVars, tailVars, taskVars
<1>0. /\ chan \in Seq(Nat) /\ wire \in Seq(Nat) /\ collected \in Seq(Nat)
      /\ Len(chan) \in Nat /\ Len(wire) \in Nat /\ Len(collected) \in Nat
      /\ readPos \in Nat /\ cur \in Nat
  BY TypeFacts
<1>1. CASE Upgrade
  BY <1>0, <1>1 DEF Upgrade
<1>2. CASE GetCli
  BY <1>0, <1>2 DEF GetCli
<1>3. CASE ServiceLogs
  BY <1>0, <1>3 DEF ServiceLogs
<1>4. CASE ReportError
  BY <1>0, <1>4 DEF ReportError, WriteClose
<1>5. CASE TakeLine
  <2>1. Pipeline'
    BY ONLY <1>5, TypeOK, IInv, TakeLinePipeline
  <2>2. (NotStarted /\ CancelOrder /\ Ends /\ Collection)'
    BY <1>0, <1>5 DEF TakeLine
  <2> QED
    BY <2>1, <2>2
<1>6. CASE WriteLine
  BY <1>0, <1>6 DEF WriteLine, SendText, CanWrite
<1>7. CASE WriteLineFails
  BY <1>0, <1>7 DEF WriteLineFails, AbandonStream
<1>8. CASE Ping
  BY <1>0, <1>8 DEF Ping
<1>9. CASE PingFails
  BY <1>0, <1>9 DEF PingFails, AbandonStream
<1>10. CASE ChannelEnds
  BY <1>0, <1>10 DEF ChannelEnds
<1>11. CASE SendClose
  BY <1>0, <1>11 DEF SendClose, WriteClose, CanWrite
<1>12. CASE WriteDeadlinePasses
  BY <1>0, <1>12 DEF WriteDeadlinePasses
<1>13. CASE CollectLine
  <2>1. Collection'
    BY ONLY <1>13, TypeOK, IInv, CollectLineCollection
  <2>2. (NotStarted /\ CancelOrder /\ Ends /\ Pipeline)'
    BY <1>0, <1>13 DEF CollectLine
  <2> QED
    BY <2>1, <2>2
<1>14. CASE CollectEnds
  BY <1>0, <1>14 DEF CollectEnds, CollectReturns
<1>15. CASE CollectIdle
  BY <1>0, <1>15 DEF CollectIdle, CollectReturns
<1>16. CASE CollectCancelled
  BY <1>0, <1>16 DEF CollectCancelled, CollectReturns
<1>17. CASE SendTailLine
  <2>1. (NotStarted /\ CancelOrder /\ Ends /\ Pipeline)'
    BY <1>0, <1>17 DEF SendTailLine, SendText, CanWrite
  <2>2. Collection'
    BY ONLY <1>17, TypeOK, IInv, SendTailLineCollection
  <2> QED
    BY <2>1, <2>2
<1>18. CASE SendTailFails
  BY <1>0, <1>18 DEF SendTailFails
<1>19. CASE TailSent
  BY <1>0, <1>19 DEF TailSent, WriteClose, CanWrite
<1>20. CASE DeferCloseReader
  BY <1>0, <1>20 DEF DeferCloseReader
<1>21. CASE DeferCancel
  BY <1>0, <1>21 DEF DeferCancel
<1>22. CASE DeferCloseConn
  BY <1>0, <1>22 DEF DeferCloseConn
<1>23. CASE ReadLine
  <2>1. Pipeline'
    BY ONLY <1>23, TypeOK, IInv, ReadLinePipeline
  <2>2. (NotStarted /\ CancelOrder /\ Ends /\ Collection)'
    BY <1>0, <1>23 DEF ReadLine
  <2> QED
    BY <2>1, <2>2
<1>25. CASE SendLine
  <2>1. Pipeline' /\ Collection'
    BY ONLY <1>25, TypeOK, IInv, SendLineParts
  <2>2. (NotStarted /\ CancelOrder /\ Ends)'
    BY <1>0, <1>25 DEF SendLine
  <2> QED
    BY <2>1, <2>2
<1> HIDE DEF IInv, NotStarted, CancelOrder, Ends, Pipeline, Collection
<1>a. NotStarted /\ CancelOrder /\ Ends
  BY DEF IInv
<1>24. CASE ReadError
  <2>1. (NotStarted /\ CancelOrder /\ Ends)'
    BY <1>a, <1>24 DEF ReadError, ReaderReturns, NotStarted, CancelOrder, Ends
  <2>2. Pipeline'
    BY <1>0, <1>24 DEF IInv, Pipeline, ReadError, ReaderReturns
  <2>3. Collection'
    BY <1>0, <1>24 DEF IInv, Collection, ReadError, ReaderReturns
  <2> QED
    BY <2>1, <2>2, <2>3 DEF IInv
<1>26. CASE DropLine
  <2>1. (NotStarted /\ CancelOrder /\ Ends)'
    BY <1>a, <1>26 DEF DropLine, ReaderReturns, NotStarted, CancelOrder, Ends
  <2>2. Pipeline'
    BY <1>0, <1>a, <1>26 DEF IInv, Pipeline, CancelOrder, Ends, DropLine, ReaderReturns
  <2>3. Collection'
    BY <1>0, <1>26 DEF IInv, Collection, DropLine, ReaderReturns
  <2> QED
    BY <2>1, <2>2, <2>3 DEF IInv
<1>27. CASE CloseReader
  <2>1. (NotStarted /\ CancelOrder /\ Ends)'
    BY <1>a, <1>27 DEF CloseReader, NotStarted, CancelOrder, Ends
  <2> QED
    BY <1>27, <2>1, NoLineMoves DEF CloseReader
<1>28. CASE ReadMessageFails
  <2>1. (NotStarted /\ CancelOrder /\ Ends)'
    BY <1>a, <1>28 DEF ReadMessageFails, WatcherSees, NotStarted, CancelOrder, Ends
  <2> QED
    BY <1>28, <2>1, NoLineMoves DEF ReadMessageFails, WatcherSees
<1>29. CASE ReadDeadlinePasses
  <2>1. (NotStarted /\ CancelOrder /\ Ends)'
    BY <1>a, <1>29 DEF ReadDeadlinePasses, WatcherSees, NotStarted, CancelOrder, Ends
  <2> QED
    BY <1>29, <2>1, NoLineMoves DEF ReadDeadlinePasses, WatcherSees
<1>30. CASE WatcherCancel
  <2>1. (NotStarted /\ CancelOrder /\ Ends)'
    BY <1>a, <1>30 DEF WatcherCancel, NotStarted, CancelOrder, Ends
  <2> QED
    BY <1>30, <2>1, NoLineMoves DEF WatcherCancel
<1>31. CASE Emit
  <2>1. (NotStarted /\ CancelOrder /\ Ends)'
    BY <1>a, <1>31 DEF Emit, NotStarted, CancelOrder, Ends
  <2> QED
    BY <1>31, <2>1, NoLineMoves DEF Emit
<1>32. CASE SourceEnds
  <2>1. (NotStarted /\ CancelOrder /\ Ends)'
    BY <1>a, <1>32 DEF SourceEnds, NotStarted, CancelOrder, Ends
  <2> QED
    BY <1>32, <2>1, NoLineMoves DEF SourceEnds
<1>33. CASE PeerReads
  <2>1. (NotStarted /\ CancelOrder /\ Ends)'
    BY <1>a, <1>33 DEF PeerReads, NotStarted, CancelOrder, Ends
  <2> QED
    BY <1>33, <2>1, NoLineMoves DEF PeerReads
<1>34. CASE PeerChanges
  <2>1. (NotStarted /\ CancelOrder /\ Ends)'
    BY <1>a, <1>34 DEF PeerChanges, NotStarted, CancelOrder, Ends
  <2> QED
    BY <1>34, <2>1, NoLineMoves DEF PeerChanges
<1>35. CASE UNCHANGED vars
  <2>1. (NotStarted /\ CancelOrder /\ Ends)'
    BY <1>a, <1>35 DEF vars, NotStarted, CancelOrder, Ends
  <2> QED
    BY <1>35, <2>1, NoLineMoves DEF vars
<1> QED
  BY <1>1, <1>2, <1>3, <1>4, <1>5, <1>6, <1>7, <1>8, <1>9, <1>10, <1>11,
     <1>12, <1>13, <1>14, <1>15, <1>16, <1>17, <1>18, <1>19, <1>20, <1>21,
     <1>22, <1>23, <1>24, <1>25, <1>26, <1>27, <1>28, <1>29, <1>30, <1>31,
     <1>32, <1>33, <1>34, <1>35 DEF Next, Handler, Reader, Closer, Watcher,
     Environment, Terminated

\* The inductive invariant holds in every reachable state.
THEOREM Invariance == Spec => []IInv
PROOF
<1> QED
  BY TypeCorrect, IInvInit, IInvNext, PTL DEF Spec

-----------------------------------------------------------------------------
(* What a one-shot request gathers, over the inductive invariant.          *)

\* What a one-shot request has collected is every line with a payload of those
\* it has taken, and it goes on to the answer when the idle timer runs, when
\* Docker has ended the response or when the connection is closed.
Gathered ==
    ~follow =>
      /\ Enumerates(collected, PayloadLines(1, cur))
      /\ timer = "armed" => cur > 0
      /\ rpc = "done" => source # "open" \/ ctxDone \/ readerClosed
      /\ pc = "tail" => source # "open" \/ timer = "armed" \/ conn = "closed"
      /\ closeFrame = "normal" =>
            /\ Len(wire) = Len(Answer)
            /\ source # "open" \/ timer = "armed"

\* The enumeration of the lines up to n goes on with line n + 1, if that has a
\* payload, and is complete as it is otherwise.
LEMMA EnumerationGoesOn ==
    ASSUME NEW n \in Nat, NEW s \in Seq(Nat), Enumerates(s, PayloadLines(1, n))
    PROVE  /\ n + 1 \in Blank => Enumerates(s, PayloadLines(1, n + 1))
           /\ n + 1 \notin Blank => Enumerates(Append(s, n + 1), PayloadLines(1, n + 1))
PROOF
<1>1. Len(s) \in Nat
  BY LenProperties
<1>2. CASE n + 1 \in Blank
  <2>1. PayloadLines(1, n + 1) = PayloadLines(1, n)
    BY <1>2 DEF PayloadLines
  <2> QED
    BY <1>2, <2>1
<1>3. CASE n + 1 \notin Blank
  <2> DEFINE t == Append(s, n + 1)
  <2>1. /\ Len(t) = Len(s) + 1 /\ t[Len(s) + 1] = n + 1
        /\ \A i \in 1..Len(s) : t[i] = s[i]
    BY <1>1, AppendProperties
  <2>2. PayloadLines(1, n + 1) = PayloadLines(1, n) \cup {n + 1}
    BY <1>3 DEF PayloadLines
  <2>3. {s[i] : i \in 1..Len(s)} = PayloadLines(1, n)
    BY DEF Enumerates
  <2>4. \A i \in 1..Len(s) : s[i] \in 1..n
    BY <2>3 DEF PayloadLines
  <2> HIDE DEF t
  <2>5. {t[i] : i \in 1..Len(t)} = PayloadLines(1, n) \cup {n + 1}
    <3>1. ASSUME NEW i \in 1..Len(t) PROVE t[i] \in PayloadLines(1, n) \cup {n + 1}
      <4>1. i \in 1..Len(s) \/ i = Len(s) + 1
        BY <1>1, <2>1
      <4> QED
        BY <2>1, <2>3, <4>1
    <3>2. ASSUME NEW k \in PayloadLines(1, n) PROVE \E i \in 1..Len(t) : t[i] = k
      <4>1. PICK i \in 1..Len(s) : s[i] = k
        BY <2>3, <3>2
      <4> QED
        BY <1>1, <2>1, <4>1
    <3>3. \E i \in 1..Len(t) : t[i] = n + 1
      BY <1>1, <2>1
    <3> QED
      BY <3>1, <3>2, <3>3
  <2>6. ASSUME NEW i \in 1..Len(t), NEW j \in 1..Len(t), i < j PROVE t[i] < t[j]
    <3>1. i \in 1..Len(s) /\ (j \in 1..Len(s) \/ j = Len(s) + 1)
      <4>1. i \in 1..(Len(s) + 1) /\ j \in 1..(Len(s) + 1)
        BY <2>1
      <4> QED
        BY <1>1, <2>6, <4>1
    <3>2. CASE j \in 1..Len(s)
      BY <2>1, <2>6, <3>1, <3>2 DEF Enumerates
    <3>3. CASE j = Len(s) + 1
      <4>1. t[i] = s[i] /\ t[j] = n + 1
        BY <2>1, <3>1, <3>3
      <4>2. s[i] \in 1..n
        BY <2>4, <3>1
      <4> QED
        BY <4>1, <4>2
    <3> QED
      BY <3>1, <3>2, <3>3
  <2>7. Enumerates(t, PayloadLines(1, n + 1))
    BY <2>2, <2>5, <2>6 DEF Enumerates
  <2> QED
    BY <1>3, <2>7 DEF t
<1> QED
  BY <1>2, <1>3

\* A line collected keeps the enumeration.
LEMMA CollectLineGathers ==
    ASSUME TypeOK, IInv, Gathered, CollectLine, ~follow
    PROVE  Enumerates(collected, PayloadLines(1, cur))' /\ cur' > 0
PROOF
<1>1. /\ chan \in Seq(Nat) /\ collected \in Seq(Nat) /\ cur \in Nat
      /\ chan # <<>> /\ cur' = Head(chan)
      /\ collected' = IF cur' \in Blank THEN collected ELSE Append(collected, cur')
  BY TypeFacts DEF CollectLine
<1>2. Len(chan) \in Nat \ {0} /\ Head(chan) = chan[1]
  BY <1>1, Receive
<1>3. cur' = cur + 1
  BY <1>1, <1>2 DEF IInv, Collection
<1>4. Enumerates(collected, PayloadLines(1, cur))
  BY DEF Gathered
<1> QED
  BY <1>1, <1>3, <1>4, EnumerationGoesOn

LEMMA GatheredInit == Init => Gathered
PROOF
<1> SUFFICES ASSUME Init PROVE Gathered
  OBVIOUS
<1>1. Len(collected) = 0 /\ cur = 0
  BY EmptySeq DEF Init
<1>2. {collected[i] : i \in 1..Len(collected)} = {} /\ PayloadLines(1, cur) = {}
  BY <1>1 DEF PayloadLines
<1>3. Enumerates(collected, PayloadLines(1, cur))
  BY <1>1, <1>2 DEF Enumerates
<1> QED
  BY <1>3 DEF Init, Gathered

LEMMA GatheredNext == TypeOK /\ IInv /\ Gathered /\ [Next]_vars => Gathered'
PROOF
<1> SUFFICES ASSUME TypeOK, IInv, Gathered, [Next]_vars, ~follow PROVE Gathered'
  <2>1. [Next]_vars => follow' = follow
    BY DEF Next, Handler, Reader, Closer, Watcher, Environment, Terminated, vars, Upgrade, GetCli,
           ServiceLogs, ReportError, WriteClose, TakeLine, WriteLine, SendText, WriteLineFails,
           AbandonStream, Ping, PingFails, ChannelEnds, SendClose, WriteDeadlinePasses, CollectLine,
           CollectEnds, CollectReturns, CollectIdle, CollectCancelled, SendTailLine, SendTailFails,
           TailSent, DeferCloseReader, DeferCancel, DeferCloseConn, ReadLine, ReadError,
           ReaderReturns, SendLine, DropLine, CloseReader, ReadMessageFails, WatcherSees,
           ReadDeadlinePasses, WatcherCancel, Emit, SourceEnds, PeerReads, PeerChanges
  <2> QED
    BY <2>1 DEF Gathered
<1> USE DEF dockerVars, peerVars, readerVars, writeVars, tailVars, taskVars
<1>0. /\ pc \notin {"stream", "write", "sendClose"}
      /\ ctxDone /\ pc \in {"collect", "tail"} => conn = "closed"
      /\ readerClosed /\ pc \in {"collect", "tail"} => ctxDone
      /\ closeFrame # "none" => pc \in {"closeReader", "cancel", "closeConn", "returned"}
      /\ chanClosed <=> rpc = "done"
      /\ pc = "getCli" \/ pc = "serviceLogs" \/ pc = "upgrade" => rpc = "idle" /\ timer = "off"
  BY DEF IInv, Collection, CancelOrder, Ends, NotStarted, InStream, Unwinding
<1> DEFINE Kept == Enumerates(collected, PayloadLines(1, cur))
<1>a. Kept
  BY DEF Gathered
<1>b. UNCHANGED <<collected, cur>> => Kept'
  BY <1>a
<1>c. UNCHANGED collected => Answer' = Answer
  BY DEF Answer
<1> HIDE DEF Kept
<1> SUFFICES Kept' /\ ((timer = "armed" => cur > 0)')
             /\ (rpc = "done" => source # "open" \/ ctxDone \/ readerClosed)'
             /\ (pc = "tail" => source # "open" \/ timer = "armed" \/ conn = "closed")'
             /\ (closeFrame = "normal" => Len(wire) = Len(Answer)
                                          /\ (source # "open" \/ timer = "armed"))'
  BY DEF Gathered, Kept
<1> USE <1>0, <1>a, <1>b, <1>c DEF Gathered
<1>1. CASE Upgrade
  BY <1>1 DEF Upgrade
<1>2. CASE GetCli
  BY <1>2 DEF GetCli
<1>3. CASE ServiceLogs
  BY <1>3 DEF ServiceLogs
<1>4. CASE ReportError
  BY <1>4 DEF ReportError, WriteClose
<1>5. CASE TakeLine
  BY <1>5 DEF TakeLine
<1>6. CASE WriteLine
  BY <1>6 DEF WriteLine
<1>7. CASE WriteLineFails
  BY <1>7 DEF WriteLineFails
<1>8. CASE Ping
  BY <1>8 DEF Ping
<1>9. CASE PingFails
  BY <1>9 DEF PingFails
<1>10. CASE ChannelEnds
  BY <1>10 DEF ChannelEnds
<1>11. CASE SendClose
  BY <1>11 DEF SendClose
<1>12. CASE WriteDeadlinePasses
  BY <1>12 DEF WriteDeadlinePasses
<1>13. CASE CollectLine
  <2>1. Kept' /\ cur' > 0
    BY ONLY <1>13, TypeOK, IInv, Gathered, ~follow, CollectLineGathers DEF Kept
  <2> QED
    BY <1>13, <2>1 DEF CollectLine
<1>14. CASE CollectEnds
  BY <1>14 DEF CollectEnds, CollectReturns
<1>15. CASE CollectIdle
  BY <1>15 DEF CollectIdle, CollectReturns
<1>16. CASE CollectCancelled
  BY <1>16 DEF CollectCancelled, CollectReturns
<1>17. CASE SendTailLine
  BY <1>17 DEF SendTailLine, SendText
<1>18. CASE SendTailFails
  BY <1>18 DEF SendTailFails
<1>19. CASE TailSent
  BY <1>19 DEF TailSent, WriteClose, CanWrite
<1>20. CASE DeferCloseReader
  BY <1>20 DEF DeferCloseReader
<1>21. CASE DeferCancel
  BY <1>21 DEF DeferCancel
<1>22. CASE DeferCloseConn
  BY <1>22 DEF DeferCloseConn
<1>23. CASE ReadLine
  BY <1>23 DEF ReadLine
<1>24. CASE ReadError
  BY <1>24 DEF ReadError, ReaderReturns
<1>25. CASE SendLine
  BY <1>25 DEF SendLine
<1>26. CASE DropLine
  BY <1>26 DEF DropLine, ReaderReturns
<1>27. CASE CloseReader
  BY <1>27 DEF CloseReader
<1>28. CASE ReadMessageFails
  BY <1>28 DEF ReadMessageFails, WatcherSees
<1>29. CASE ReadDeadlinePasses
  BY <1>29 DEF ReadDeadlinePasses, WatcherSees
<1>30. CASE WatcherCancel
  BY <1>30 DEF WatcherCancel
<1>31. CASE Emit
  BY <1>31 DEF Emit
<1>32. CASE SourceEnds
  BY <1>32 DEF SourceEnds
<1>33. CASE PeerReads
  BY <1>33 DEF PeerReads
<1>34. CASE PeerChanges
  BY <1>34 DEF PeerChanges
<1>35. CASE UNCHANGED vars
  BY <1>35 DEF vars
<1> QED
  BY <1>1, <1>2, <1>3, <1>4, <1>5, <1>6, <1>7, <1>8, <1>9, <1>10,
     <1>11, <1>12, <1>13, <1>14, <1>15, <1>16, <1>17, <1>18, <1>19, <1>20,
     <1>21, <1>22, <1>23, <1>24, <1>25, <1>26, <1>27, <1>28, <1>29, <1>30,
     <1>31, <1>32, <1>33, <1>34, <1>35
  DEF Next, Handler, Reader, Closer, Watcher, Environment, Terminated

\* Where a one-shot request stands with the response once its reader has ended:
\* while the connection is open every line read is taken or in the channel, and
\* Docker ended the response; and an answer that no idle timer has allowed comes
\* when nothing is left.
AllRead == source # "open" /\ (source = "eof" => readPos = emitted)

Exhausted ==
    ~follow =>
      /\ timer = "armed" <=> cur > 0
      /\ rpc = "done" /\ InCollect /\ conn # "closed" =>
            cur + Len(chan) = readPos /\ AllRead
      /\ timer = "off" /\ ((pc = "tail" /\ conn # "closed") \/ closeFrame = "normal") =>
            rpc = "done" /\ cur = readPos /\ AllRead

LEMMA ExhaustedInit == Init => Exhausted
PROOF
<1> QED
  BY DEF Init, Exhausted, InCollect

\* The steps that read no line, take none and end nothing.
LEMMA ExhaustedStays ==
    ASSUME Exhausted, follow' = follow,
           UNCHANGED <<timer, cur, chan, readPos, source, emitted, rpc>>,
           InCollect' => InCollect /\ pc' = pc, conn = "closed" => conn' = "closed",
           closeFrame' = "normal" => closeFrame = "normal"
    PROVE  Exhausted'
PROOF
<1>1. AllRead' = AllRead
  BY DEF AllRead
<1> QED
  BY <1>1 DEF Exhausted, InCollect

LEMMA ExhaustedNext == TypeOK /\ IInv /\ Exhausted /\ [Next]_vars => Exhausted'
PROOF
<1> SUFFICES ASSUME TypeOK, IInv, Exhausted, [Next]_vars, ~follow PROVE Exhausted'
  <2>1. [Next]_vars => follow' = follow
    BY DEF Next, Handler, Reader, Closer, Watcher, Environment, Terminated, vars, Upgrade, GetCli,
           ServiceLogs, ReportError, WriteClose, TakeLine, WriteLine, SendText, WriteLineFails,
           AbandonStream, Ping, PingFails, ChannelEnds, SendClose, WriteDeadlinePasses, CollectLine,
           CollectEnds, CollectReturns, CollectIdle, CollectCancelled, SendTailLine, SendTailFails,
           TailSent, DeferCloseReader, DeferCancel, DeferCloseConn, ReadLine, ReadError,
           ReaderReturns, SendLine, DropLine, CloseReader, ReadMessageFails, WatcherSees,
           ReadDeadlinePasses, WatcherCancel, Emit, SourceEnds, PeerReads, PeerChanges
  <2> QED
    BY <2>1 DEF Exhausted
<1> USE DEF dockerVars, peerVars, readerVars, writeVars, tailVars, taskVars
<1>0. /\ pc \notin {"stream", "write", "sendClose"}
      /\ ctxDone /\ InCollect => conn = "closed"
      /\ readerClosed /\ InCollect => ctxDone
      /\ closeFrame # "none" => ~InCollect
      /\ chanClosed <=> rpc = "done"
      /\ pc \in {"getCli", "serviceLogs", "upgrade", "reportError"} =>
            rpc = "idle" /\ timer = "off" /\ cur = 0 /\ closeFrame # "normal"
  BY DEF IInv, Collection, CancelOrder, Ends, NotStarted, InStream, InCollect, Unwinding
<1>a. /\ Len(chan) \in Nat /\ cur \in Nat /\ readPos \in Nat /\ chan \in Seq(Nat)
      /\ timer \in {"off", "armed"}
  BY TypeFacts DEF TypeOK
<1>b. rpc # "done" => cur + Len(chan) + HoldsLine(rpc, "send") = readPos
  BY DEF IInv, Collection
<1>c. chan # <<>> => Head(chan) = cur + 1 /\ Len(chan) \in Nat \ {0} /\ Len(Tail(chan)) = Len(chan) - 1
  <2> SUFFICES ASSUME chan # <<>>
               PROVE  Head(chan) = cur + 1 /\ Len(chan) \in Nat \ {0} /\ Len(Tail(chan)) = Len(chan) - 1
    OBVIOUS
  <2>1. Len(chan) \in Nat \ {0} /\ Head(chan) = chan[1] /\ Len(Tail(chan)) = Len(chan) - 1
    BY <1>a, Receive
  <2>2. \A i \in 1..Len(chan) : chan[i] = cur + i
    BY DEF IInv, Collection
  <2> QED
    BY <2>1, <2>2
<1>1. CASE Upgrade \/ GetCli \/ ReportError
  <2>1. /\ rpc = "idle" /\ timer = "off" /\ cur = 0
        /\ ~InCollect' /\ closeFrame' # "normal"
        /\ UNCHANGED <<rpc, timer, cur>>
    BY <1>0, <1>1 DEF Upgrade, GetCli, ReportError, WriteClose, InCollect
  <2> QED
    BY <2>1 DEF Exhausted, InCollect
<1>2. CASE ServiceLogs
  BY <1>0, <1>2 DEF ServiceLogs, Exhausted, InCollect
<1>3. CASE TakeLine \/ WriteLine \/ WriteLineFails \/ Ping \/ PingFails \/ ChannelEnds
           \/ SendClose \/ WriteDeadlinePasses
  BY <1>0, <1>3 DEF TakeLine, WriteLine, WriteLineFails, Ping, PingFails, ChannelEnds,
                    SendClose, WriteDeadlinePasses
<1>4. CASE CollectLine
  <2>1. /\ pc = "collect" /\ pc' = "collect" /\ timer' = "armed" /\ cur' = cur + 1
        /\ chan # <<>> /\ Len(chan') = Len(chan) - 1
        /\ UNCHANGED <<follow, conn, closeFrame, rpc, readPos, source, emitted>>
    BY <1>4, <1>c DEF CollectLine
  <2>2. AllRead' = AllRead
    BY <2>1 DEF AllRead
  <2>3. closeFrame # "normal" /\ InCollect
    BY <1>0, <2>1 DEF InCollect
  <2>4. cur' + Len(chan') = cur + Len(chan) /\ cur' > 0
    BY <1>a, <1>c, <2>1
  <2> QED
    BY <2>1, <2>2, <2>3, <2>4 DEF Exhausted
<1>5. CASE CollectEnds \/ CollectIdle \/ CollectCancelled
  <2>1. /\ pc = "collect" /\ pc' = "tail"
        /\ (chan = <<>> /\ chanClosed) \/ timer = "armed" \/ ctxDone
        /\ UNCHANGED <<follow, conn, closeFrame, rpc, readPos, source, emitted, timer, cur, chan>>
    BY <1>5 DEF CollectEnds, CollectIdle, CollectCancelled, CollectReturns
  <2>2. AllRead' = AllRead
    BY <2>1 DEF AllRead
  <2>3. closeFrame # "normal" /\ InCollect
    BY <1>0, <2>1 DEF InCollect
  <2>4. chan = <<>> => cur + Len(chan) = cur
    BY <1>a, EmptySeq
  <2> QED
    BY <1>0, <2>1, <2>2, <2>3, <2>4 DEF Exhausted
<1>6. CASE SendTailLine \/ SendTailFails
  BY <1>6, ExhaustedStays DEF SendTailLine, SendText, SendTailFails, InCollect
<1>7. CASE TailSent
  <2>1. /\ pc = "tail" /\ pc' = "closeReader"
        /\ conn = "open" \/ closeFrame' = closeFrame
        /\ UNCHANGED <<follow, conn, rpc, readPos, source, emitted, timer, cur, chan>>
    BY <1>7 DEF TailSent, WriteClose, CanWrite
  <2>2. AllRead' = AllRead
    BY <2>1 DEF AllRead
  <2> QED
    BY <2>1, <2>2 DEF Exhausted, InCollect
<1>8. CASE DeferCloseReader \/ DeferCancel \/ DeferCloseConn
  BY <1>8, ExhaustedStays DEF DeferCloseReader, DeferCancel, DeferCloseConn, InCollect
<1>9. CASE ReadLine \/ SendLine
  <2>1. /\ rpc # "done" /\ rpc' # "done"
        /\ UNCHANGED <<follow, pc, conn, closeFrame, timer, cur>>
    BY <1>9 DEF ReadLine, SendLine
  <2> QED
    BY <2>1 DEF Exhausted
<1>10. CASE ReadError
  <2>1. /\ rpc = "read" /\ rpc' = "done" /\ (readerClosed \/ AllRead)
        /\ UNCHANGED <<follow, pc, conn, closeFrame, readPos, source, emitted, timer, cur, chan>>
    BY <1>10 DEF ReadError, ReaderReturns, AllRead
  <2>2. AllRead' = AllRead /\ InCollect' = InCollect
    BY <2>1 DEF AllRead, InCollect
  <2>3. cur + Len(chan) = readPos
    BY <1>a, <1>b, <2>1 DEF HoldsLine
  <2>4. InCollect /\ conn # "closed" => AllRead
    BY <1>0, <2>1
  <2> QED
    BY <2>1, <2>2, <2>3, <2>4 DEF Exhausted
<1>11. CASE DropLine
  <2>1. /\ rpc # "done" /\ ctxDone
        /\ UNCHANGED <<follow, pc, conn, closeFrame, readPos, source, emitted, timer, cur, chan>>
    BY <1>11 DEF DropLine, ReaderReturns
  <2> QED
    BY <1>0, <2>1 DEF Exhausted, InCollect
<1>12. CASE CloseReader \/ ReadMessageFails \/ ReadDeadlinePasses \/ WatcherCancel
            \/ PeerReads \/ PeerChanges \/ UNCHANGED vars
  BY <1>12, ExhaustedStays
     DEF CloseReader, ReadMessageFails, ReadDeadlinePasses, WatcherSees, WatcherCancel,
         PeerReads, PeerChanges, vars, InCollect
<1>13. CASE Emit \/ SourceEnds
  <2>1. /\ rpc # "done"
        /\ UNCHANGED <<follow, pc, conn, closeFrame, rpc, timer, cur, chan, readPos>>
    BY <1>13 DEF Emit, SourceEnds
  <2> QED
    BY <2>1 DEF Exhausted
<1> QED
  BY <1>1, <1>2, <1>3, <1>4, <1>5, <1>6, <1>7, <1>8, <1>9, <1>10, <1>11, <1>12, <1>13
  DEF Next, Handler, Reader, Closer, Watcher, Environment, Terminated

\* An increasing list is ordered as its positions are.
LEMMA Increasing ==
    ASSUME NEW k \in Nat, NEW f, \A i \in 1..k : f[i] \in Nat,
           \A i, j \in 1..k : i < j => f[i] < f[j]
    PROVE  \A i, j \in 1..k : i <= j <=> f[i] <= f[j]
PROOF
<1>1. TAKE i, j \in 1..k
<1>2. f[i] \in Nat /\ f[j] \in Nat
  OBVIOUS
<1>3. (i < j => f[i] < f[j]) /\ (j < i => f[j] < f[i])
  OBVIOUS
<1> QED
  BY <1>2, <1>3

\* The lines with a payload from a to b are some of those up to n.
LEMMA PayloadPart ==
    ASSUME NEW n \in Nat, NEW a \in 1..n, NEW b \in 1..n, NEW x \in PayloadLines(a, b)
    PROVE  x \in PayloadLines(1, n) /\ a <= x /\ x <= b /\ x \in Nat
PROOF
<1> QED
  BY DEF PayloadLines

LEMMA PayloadIn ==
    ASSUME NEW n \in Nat, NEW a \in 1..n, NEW b \in 1..n, NEW x \in Nat,
           a <= x, x <= b, x \notin Blank
    PROVE  x \in PayloadLines(a, b)
PROOF
<1> QED
  BY DEF PayloadLines

\* A part s[a..b] of an enumeration of lines enumerates the lines between.
LEMMA EnumerationPart ==
    ASSUME NEW n \in Nat, NEW s \in Seq(Nat), Enumerates(s, PayloadLines(1, n)),
           NEW w \in Seq(Nat), NEW d \in Nat, d + Len(w) <= Len(s), Len(w) > 0,
           \A i \in 1..Len(w) : w[i] = s[i + d]
    PROVE  /\ s[d + 1] \in 1..n /\ s[d + Len(w)] \in s[d + 1]..n
           /\ Enumerates(w, PayloadLines(s[d + 1], s[d + Len(w)]))
PROOF
<1> DEFINE l == Len(w)
           k == Len(s)
           a == s[d + 1]
           b == s[d + l]
<1>1. k \in Nat /\ l \in Nat \ {0} /\ d + 1 \in 1..k /\ d + l \in 1..k
  BY LenProperties
<1>a. /\ {s[i] : i \in 1..k} = PayloadLines(1, n)
      /\ \A i \in 1..l : w[i] = s[i + d]
      /\ \A i, j \in 1..k : i < j => s[i] < s[j]
  BY DEF Enumerates
<1> HIDE DEF l, k
<1>2. \A i \in 1..k : s[i] \in 1..n /\ s[i] \notin Blank
  BY <1>a DEF PayloadLines
<1>3. \A i, j \in 1..k : i < j => s[i] < s[j]
  BY <1>a
<1>4. a \in 1..n /\ b \in 1..n
  BY <1>1, <1>2
<1>5. \A i, j \in 1..k : i <= j <=> s[i] <= s[j]
  <2>1. \A i \in 1..k : s[i] \in Nat
    BY <1>2
  <2> QED
    BY <1>1, <1>3, <2>1, Increasing
<1>6. a <= b
  BY <1>1, <1>5
<1>7. {w[i] : i \in 1..l} = PayloadLines(a, b)
  <2>1. ASSUME NEW i \in 1..l PROVE w[i] \in PayloadLines(a, b)
    <3>1. i + d \in 1..k /\ d + 1 <= i + d /\ i + d <= d + l /\ w[i] = s[i + d]
      BY <1>1, <1>a
    <3>2. a <= s[i + d] /\ s[i + d] <= b
      <4>1. d + 1 \in 1..k /\ i + d \in 1..k /\ d + l \in 1..k
        BY <1>1, <3>1
      <4>2. (d + 1 <= i + d => s[d + 1] <= s[i + d]) /\ (i + d <= d + l => s[i + d] <= s[d + l])
        BY ONLY <1>5, <4>1
      <4> QED
        BY <3>1, <4>2
    <3>3. s[i + d] \in Nat /\ s[i + d] \notin Blank /\ w[i] = s[i + d]
      BY <1>2, <3>1
    <3> HIDE DEF a, b
    <3> QED
      BY <1>4, <3>2, <3>3, PayloadIn
  <2>2. ASSUME NEW n0 \in PayloadLines(a, b) PROVE \E i \in 1..l : w[i] = n0
    <3>1. n0 \in PayloadLines(1, n) /\ a <= n0 /\ n0 <= b /\ n0 \in Nat
      <4> HIDE DEF a, b
      <4> QED
        BY <1>4, <2>2, PayloadPart
    <3>2. PICK j \in 1..k : s[j] = n0
      BY <1>a, <3>1
    <3>3. d + 1 <= j /\ j <= d + l
      <4>1. (s[d + 1] <= s[j] => d + 1 <= j) /\ (s[j] <= s[d + l] => j <= d + l)
        BY ONLY <1>1, <1>5, <3>2
      <4> QED
        BY <3>1, <3>2, <4>1
    <3>4. j - d \in 1..l /\ w[j - d] = s[j]
      <4>1. j - d \in 1..l /\ (j - d) + d = j
        BY <1>1, <3>3
      <4> QED
        BY <1>a, <4>1
    <3> QED
      BY <3>2, <3>4
  <2> QED
    BY <2>1, <2>2
<1>8. ASSUME NEW i \in 1..l, NEW j \in 1..l, i < j PROVE w[i] < w[j]
  <2>1. i + d \in 1..k /\ j + d \in 1..k /\ i + d < j + d
    BY <1>1, <1>8
  <2> QED
    BY <1>3, <1>a, <2>1
<1>9. Enumerates(w, PayloadLines(a, b))
  BY <1>7, <1>8 DEF Enumerates, l
<1>10. b \in a..n
  <2> HIDE DEF a, b
  <2> QED
    BY <1>4, <1>6
<1> QED
  BY <1>4, <1>9, <1>10, Zenon DEF l

\* No line with a payload comes after the last one enumerated.
LEMMA EnumerationEnd ==
    ASSUME NEW n \in Nat, NEW s \in Seq(Nat), Enumerates(s, PayloadLines(1, n)), Len(s) > 0,
           NEW a \in Nat \ {0}
    PROVE  PayloadLines(a, s[Len(s)]) = PayloadLines(a, n)
PROOF
<1> DEFINE k == Len(s)
<1>1. k \in Nat \ {0}
  BY LenProperties
<1>2. {s[i] : i \in 1..k} = PayloadLines(1, n) /\ \A i, j \in 1..k : i < j => s[i] < s[j]
  BY DEF Enumerates
<1> HIDE DEF k
<1>3. s[k] \in 1..n
  BY <1>1, <1>2 DEF PayloadLines
<1>4. ASSUME NEW x \in PayloadLines(a, n) PROVE x <= s[k]
  <2>1. x \in PayloadLines(1, n)
    BY <1>4 DEF PayloadLines
  <2>2. PICK i \in 1..k : s[i] = x
    BY <1>2, <2>1
  <2>3. i = k \/ i < k
    BY <1>1
  <2>4. x \in Nat
    BY <1>4 DEF PayloadLines
  <2> QED
    BY <1>1, <1>2, <1>3, <2>2, <2>3, <2>4
<1>5. PayloadLines(a, n) \subseteq PayloadLines(a, s[k])
  BY <1>3, <1>4 DEF PayloadLines
<1>6. PayloadLines(a, s[k]) \subseteq PayloadLines(a, n)
  BY <1>3 DEF PayloadLines
<1> QED
  BY <1>5, <1>6 DEF k

\* The answer on the wire, as far as it has come, is a part of what was gathered.
LEMMA WireIsPart ==
    ASSUME TypeOK, IInv, Gathered, ~follow
    PROVE  /\ Len(collected) - Len(Answer) \in Nat
           /\ Len(wire) <= Len(Answer) /\ Len(Answer) <= TailCount
           /\ Len(Answer) < TailCount => Len(Answer) = Len(collected)
           /\ \A i \in 1..Len(wire) : wire[i] = collected[i + (Len(collected) - Len(Answer))]
PROOF
<1>1. /\ collected \in Seq(Nat) /\ wire \in Seq(Nat) /\ Len(collected) \in Nat /\ Len(wire) \in Nat
      /\ TailCount \in Nat \ {0}
  BY TypeFacts, ConstantsAssumption DEF ConstantsAssumption
<1>2. /\ Len(Answer) = IF Len(collected) > TailCount THEN TailCount ELSE Len(collected)
      /\ \A i \in 1..Len(Answer) : Answer[i] = collected[i + Len(collected) - Len(Answer)]
  BY <1>1, LastLinesType DEF Answer
<1>3. Len(wire) <= Len(Answer) /\ \A i \in 1..Len(wire) : wire[i] = Answer[i]
  BY DEF IInv, Collection
<1>4. Len(Answer) \in Nat
  BY <1>1, <1>2
<1>5. ASSUME NEW i \in 1..Len(wire)
      PROVE  wire[i] = collected[i + (Len(collected) - Len(Answer))]
  <2>1. i \in 1..Len(Answer)
    BY <1>1, <1>3, <1>4
  <2>2. wire[i] = Answer[i] /\ Answer[i] = collected[i + Len(collected) - Len(Answer)]
    BY <1>2, <1>3, <2>1
  <2>3. i + Len(collected) - Len(Answer) = i + (Len(collected) - Len(Answer))
    BY <1>1, <1>4
  <2> QED
    BY <2>2, <2>3
<1>6. /\ Len(collected) - Len(Answer) \in Nat /\ Len(Answer) <= TailCount
      /\ Len(Answer) < TailCount => Len(Answer) = Len(collected)
  BY <1>1, <1>2
<1> QED
  BY <1>3, <1>5, <1>6

\* Whatever a one-shot request has on the wire comes from what it has gathered.
THEOREM GatheredAlways == Spec => []Gathered
PROOF
<1> QED
  BY TypeCorrect, Invariance, GatheredInit, GatheredNext, PTL DEF Spec

\* Where the request stands with the response once its reader has ended.
THEOREM ExhaustedAlways == Spec => []Exhausted
PROOF
<1> QED
  BY TypeCorrect, Invariance, ExhaustedInit, ExhaustedNext, PTL DEF Spec

-----------------------------------------------------------------------------
(* The safety properties.                                                  *)

\* A follow client sees the lines 1, 2, 3, ... of the response.
THEOREM FollowInOrderHolds == Spec => []FollowInOrder
PROOF
<1>1. IInv => FollowInOrder
  BY DEF IInv, Pipeline, FollowInOrder
<1> QED
  BY <1>1, Invariance, PTL

\* A follow request is closed normally only after every line read was sent.
THEOREM NormalCloseIsCompleteHolds == Spec => []NormalCloseIsComplete
PROOF
<1>1. IInv => NormalCloseIsComplete
  BY DEF IInv, Pipeline, NormalCloseIsComplete
<1> QED
  BY <1>1, Invariance, PTL

\* Backpressure bounds the lines read ahead of a follow client by the size of
\* the channel and the two goroutines at its ends.
THEOREM BoundedReadAheadHolds == Spec => []BoundedReadAhead
PROOF
<1>1. TypeOK /\ IInv => BoundedReadAhead
  <2> SUFFICES ASSUME TypeOK, IInv, follow PROVE readPos <= Len(wire) + ChanSize + 2
    BY DEF BoundedReadAhead
  <2>1. Len(wire) \in Nat /\ Len(chan) \in Nat /\ readPos \in Nat /\ ChanSize \in Nat
    BY TypeFacts, ConstantsAssumption DEF ConstantsAssumption
  <2>2. Len(chan) <= ChanSize
    BY DEF TypeOK
  <2>3. readPos <= Len(wire) + Len(chan)
                      + (IF pc = "write" \/ Unwinding THEN 1 ELSE 0)
                      + (IF rpc \in {"send", "done"} THEN 1 ELSE 0)
    BY DEF IInv, Pipeline
  <2> QED
    BY <2>1, <2>2, <2>3
<1> QED
  BY <1>1, TypeCorrect, Invariance, PTL

\* A one-shot client sees a gap-free run of the lines taken, blank lines aside and
\* no longer than asked for; when the answer is closed normally the run ends with
\* the line taken last, and starts with the first line if it is shorter.
THEOREM TailIsRecentHolds == Spec => []TailIsRecent
PROOF
<1>1. TypeOK /\ IInv /\ Gathered => TailIsRecent
  <2> SUFFICES ASSUME TypeOK, IInv, Gathered, ~follow
               PROVE  /\ Len(wire) <= TailCount
                      /\ \E m \in 1..(cur + 1), n \in 0..cur :
                            Enumerates(wire, PayloadLines(m, n))
                      /\ closeFrame = "normal" =>
                            \E m \in 1..(cur + 1) :
                              /\ Enumerates(wire, PayloadLines(m, cur))
                              /\ m = 1 \/ Len(wire) = TailCount
    BY DEF TailIsRecent
  <2> DEFINE d == Len(collected) - Len(Answer)
  <2>1. /\ collected \in Seq(Nat) /\ Len(collected) \in Nat /\ cur \in Nat
        /\ wire \in Seq(Nat) /\ Len(wire) \in Nat /\ TailCount \in Nat \ {0}
        /\ Enumerates(collected, PayloadLines(1, cur))
    BY TypeFacts, ConstantsAssumption DEF Gathered, ConstantsAssumption
  <2>2. /\ d \in Nat /\ Len(wire) <= Len(Answer) /\ Len(Answer) <= TailCount
        /\ Len(Answer) < TailCount => Len(Answer) = Len(collected)
        /\ \A i \in 1..Len(wire) : wire[i] = collected[i + d]
    BY WireIsPart
  <2>3. Len(Answer) \in Nat
    BY <2>1, LastLinesType DEF Answer
  <2>4. Len(wire) <= TailCount /\ d + Len(wire) <= Len(collected)
    BY <2>1, <2>2, <2>3
  <2>5. CASE Len(wire) = 0
    <3>1. Enumerates(wire, {})
      BY <2>5 DEF Enumerates
    <3>2. PayloadLines(1, 0) = {}
      BY DEF PayloadLines
    <3>3. \E m \in 1..(cur + 1), n \in 0..cur : Enumerates(wire, PayloadLines(m, n))
      <4>1. 1 \in 1..(cur + 1) /\ 0 \in 0..cur
        BY <2>1
      <4>2. Enumerates(wire, PayloadLines(1, 0))
        BY <3>1, <3>2
      <4> QED
        BY <4>1, <4>2
    <3>4. ASSUME closeFrame = "normal"
          PROVE  Enumerates(wire, PayloadLines(1, cur))
      <4>1. Len(wire) = Len(Answer)
        BY <3>4 DEF Gathered
      <4>2. Len(collected) = 0
        BY <2>1, <2>2, <2>5, <4>1
      <4>3. PayloadLines(1, cur) = {}
        BY <2>1, <4>2 DEF Enumerates
      <4> QED
        BY <3>1, <4>3
    <3> QED
      BY <2>1, <2>4, <3>3, <3>4
  <2>6. CASE Len(wire) # 0
    <3> DEFINE a == collected[d + 1]
    <3>1. /\ a \in 1..cur /\ collected[d + Len(wire)] \in a..cur
          /\ Enumerates(wire, PayloadLines(a, collected[d + Len(wire)]))
      <4> HIDE DEF d
      <4>1. Len(wire) > 0
        BY <2>1, <2>6
      <4> QED
        BY <2>1, <2>2, <2>4, <4>1, EnumerationPart
    <3>2. a \in 1..(cur + 1) /\ collected[d + Len(wire)] \in 0..cur
      <4>1. ASSUME NEW x \in 1..cur, NEW y \in x..cur
            PROVE  x \in 1..(cur + 1) /\ y \in 0..cur
        BY <2>1
      <4> HIDE DEF a, d
      <4> QED
        BY <3>1, <4>1
    <3>3. ASSUME closeFrame = "normal"
          PROVE  \E m \in 1..(cur + 1) : /\ Enumerates(wire, PayloadLines(m, cur))
                                         /\ m = 1 \/ Len(wire) = TailCount
      <4>1. Len(wire) = Len(Answer) /\ d + Len(wire) = Len(collected)
        <5>1. Len(wire) = Len(Answer)
          BY <3>3 DEF Gathered
        <5> QED
          BY <2>1, <2>3, <5>1
      <4>2. Enumerates(wire, PayloadLines(a, cur)) /\ a \in 1..(cur + 1)
        <5>1. Len(collected) > 0 /\ a \in Nat \ {0}
          <6>1. Len(wire) > 0 /\ Len(collected) = d + Len(wire)
            BY <2>1, <2>6, <4>1
          <6> HIDE DEF a, d
          <6>2. Len(collected) > 0
            BY <2>1, <2>2, <6>1
          <6> QED
            BY <2>1, <3>1, <6>2
        <5>2. PayloadLines(a, collected[Len(collected)]) = PayloadLines(a, cur)
          <6> HIDE DEF a
          <6> QED
            BY <2>1, <5>1, EnumerationEnd
        <5> QED
          BY <2>1, <3>1, <4>1, <5>2
      <4>3. CASE Len(wire) = TailCount
        BY <4>2, <4>3
      <4>4. CASE Len(wire) # TailCount
        <5>1. Len(wire) = Len(collected) /\ d = 0
          BY <2>1, <2>2, <2>3, <4>1, <4>4
        <5>2. \A i \in 1..Len(wire) : wire[i] = collected[i]
          BY <2>2, <5>1
        <5>3. Enumerates(wire, PayloadLines(1, cur))
          BY <2>1, <5>1, <5>2 DEF Enumerates
        <5> QED
          BY <2>1, <5>3
      <4> QED
        BY <4>3, <4>4
    <3>4. \E m \in 1..(cur + 1), n \in 0..cur : Enumerates(wire, PayloadLines(m, n))
      BY <3>1, <3>2
    <3> QED
      BY <2>4, <3>3, <3>4
  <2> QED
    BY <2>5, <2>6
<1> QED
  BY <1>1, TypeCorrect, Invariance, GatheredAlways, PTL

\* A one-shot answer that is closed normally without a line is no guess: all lines
\* taken are blank, and if none was taken the response has ended without any.
THEOREM EmptyAnswerIsTrueHolds == Spec => []EmptyAnswerIsTrue
PROOF
<1>1. TypeOK /\ IInv /\ Gathered /\ Exhausted => EmptyAnswerIsTrue
  <2> SUFFICES ASSUME TypeOK, IInv, Gathered, Exhausted,
                      ~follow, closeFrame = "normal", wire = <<>>
               PROVE  /\ PayloadLines(1, cur) = {}
                      /\ cur = 0 => /\ source # "open" /\ readPos = 0
                                    /\ source = "eof" => emitted = 0
    BY DEF EmptyAnswerIsTrue
  <2>1. /\ Len(wire) = 0 /\ Len(collected) \in Nat /\ cur \in Nat
        /\ TailCount \in Nat \ {0} /\ timer \in {"off", "armed"}
    BY TypeFacts, EmptySeq, ConstantsAssumption DEF ConstantsAssumption, TypeOK
  <2>2. Len(wire) = Len(Answer) /\ Enumerates(collected, PayloadLines(1, cur))
    BY DEF Gathered
  <2>3. Len(collected) = 0
    BY <2>1, <2>2, WireIsPart
  <2>4. PayloadLines(1, cur) = {}
    BY <2>2, <2>3 DEF Enumerates
  <2>5. cur = 0 => timer = "off"
    BY <2>1 DEF Exhausted
  <2>6. cur = 0 => readPos = 0 /\ AllRead
    BY <2>5 DEF Exhausted
  <2> QED
    BY <2>4, <2>6 DEF AllRead
<1> QED
  BY <1>1, TypeCorrect, Invariance, GatheredAlways, ExhaustedAlways, PTL

\* A running stream is cancelled only after its connection was closed.
THEOREM CancelAfterCloseHolds == Spec => []CancelAfterClose
PROOF
<1>1. IInv => CancelAfterClose
  BY DEF IInv, CancelOrder, CancelAfterClose
<1> QED
  BY <1>1, Invariance, PTL

-----------------------------------------------------------------------------
(* LogStream implements LogDelivery.                                       *)

LEMMA DeliveryInit == Init => Delivery!Init
PROOF
<1> QED
  BY DEF Init, Delivery!Init

\* The writer of a follow request sends the line after the last one.
LEMMA WriteLineDelivers ==
    ASSUME TypeOK, IInv, WriteLine
    PROVE  \E n \in 1..readPos : Delivery!Deliver(n)
PROOF
<1>0. /\ wire \in Seq(Nat) /\ Len(wire) \in Nat /\ Len(chan) \in Nat
      /\ readPos \in Nat
  BY TypeFacts
<1>1. /\ pc = "write" /\ wire' = Append(wire, cur)
      /\ UNCHANGED <<follow, readPos, closeFrame>>
  BY DEF WriteLine, SendText, readerVars
<1>2. follow
  BY <1>1 DEF IInv, Collection, InStream
<1>3. /\ cur = Len(wire) + 1
      /\ Taken + Len(chan) + HoldsLine(rpc, "send") <= readPos
      /\ \A i \in 1..Len(wire) : wire[i] = i
  BY <1>1, <1>2 DEF IInv, Pipeline, InStream
<1>4. cur \in 1..readPos
  BY <1>0, <1>1, <1>3 DEF Taken, HoldsLine
<1>5. closeFrame = "none"
  BY <1>1 DEF IInv, Ends, Unwinding
<1>6. CASE wire = <<>>
  <2>1. cur = 1
    BY <1>3, <1>6, EmptySeq
  <2> QED
    BY <1>1, <1>4, <1>5, <1>6, <2>1 DEF Delivery!Deliver
<1>7. CASE wire # <<>>
  <2>1. Len(wire) \in Nat \ {0}
    BY <1>0, <1>7, EmptySeq
  <2>2. wire[Len(wire)] = Len(wire)
    BY <1>3, <2>1
  <2>3. Delivery!Succeeds(wire[Len(wire)], cur)
    BY <1>3, <2>1, <2>2 DEF Delivery!Succeeds
  <2> QED
    BY <1>1, <1>4, <1>5, <1>7, <2>3 DEF Delivery!Deliver
<1> QED
  BY <1>6, <1>7

\* The one-shot answer is sent in the order it was collected.
LEMMA SendTailLineDelivers ==
    ASSUME TypeOK, IInv, SendTailLine
    PROVE  \E n \in 1..readPos : Delivery!Deliver(n)
PROOF
<1> DEFINE n == Answer[Len(wire) + 1]
           d == Len(collected) - Len(Answer)
<1>0. /\ wire \in Seq(Nat) /\ collected \in Seq(Nat)
      /\ Len(wire) \in Nat /\ Len(chan) \in Nat /\ Len(collected) \in Nat
      /\ readPos \in Nat /\ cur \in Nat
  BY TypeFacts
<1>1. /\ pc = "tail" /\ Len(wire) < Len(Answer) /\ wire' = Append(wire, n)
      /\ UNCHANGED <<follow, readPos, closeFrame>>
  BY DEF SendTailLine, SendText, readerVars
<1>2. ~follow
  BY <1>1 DEF IInv, Pipeline, InCollect
<1>3. /\ Answer \in Seq(Nat) /\ Len(Answer) \in Nat /\ d \in Nat
      /\ \A i \in 1..Len(Answer) : Answer[i] = collected[i + d]
  <2>1. /\ Answer \in Seq(Nat)
        /\ Len(Answer) = IF Len(collected) > TailCount THEN TailCount ELSE Len(collected)
        /\ \A i \in 1..Len(Answer) :
              Answer[i] = collected[i + Len(collected) - Len(Answer)]
    BY <1>0, LastLinesType, ConstantsAssumption DEF Answer, ConstantsAssumption
  <2>2. Len(Answer) \in Nat /\ d \in Nat
    BY <1>0, <2>1, ConstantsAssumption DEF ConstantsAssumption
  <2>3. \A i \in 1..Len(Answer) : i + Len(collected) - Len(Answer) = i + d
    BY <1>0, <2>2
  <2> QED
    BY <2>1, <2>2, <2>3
<1>4. /\ \A i \in 1..(Len(collected) - 1) : NextLine(collected[i], collected[i + 1])
      /\ collected # <<>> => NextLine(collected[Len(collected)], cur + 1)
      /\ cur + Len(chan) + HoldsLine(rpc, "send") <= readPos
      /\ \A i \in 1..Len(wire) : wire[i] = Answer[i]
  BY <1>2 DEF IInv, Collection
<1>5. cur <= readPos
  BY <1>0, <1>4 DEF HoldsLine
<1>6. n \in 1..readPos
  <2>1. \A i \in 1..Len(collected) : collected[i] \in 1..cur
    BY <1>2 DEF IInv, Collection
  <2>2. Len(wire) + 1 \in 1..Len(Answer) /\ Len(wire) + 1 + d \in 1..Len(collected)
    BY <1>0, <1>1, <1>3
  <2>3. n \in 1..cur
    BY <1>3, <2>1, <2>2
  <2> QED
    BY <1>0, <1>5, <2>3
<1>7. closeFrame = "none"
  BY <1>1 DEF IInv, Ends, Unwinding
<1>8. CASE wire = <<>>
  BY <1>1, <1>2, <1>6, <1>7, <1>8 DEF Delivery!Deliver
<1>9. CASE wire # <<>>
  <2>1. Len(wire) \in Nat \ {0}
    BY <1>0, <1>9, EmptySeq
  <2>2. wire[Len(wire)] = collected[Len(wire) + d] /\ n = collected[Len(wire) + 1 + d]
    <3>1. Len(wire) \in 1..Len(wire) /\ Len(wire) \in 1..Len(Answer)
          /\ Len(wire) + 1 \in 1..Len(Answer)
      <4> HIDE DEF n, d
      <4> QED
        BY <1>1, <1>3, <2>1
    <3>2. wire[Len(wire)] = Answer[Len(wire)]
      BY <1>4, <3>1
    <3> QED
      BY <1>3, <3>1, <3>2
  <2>3. Len(wire) + d \in 1..(Len(collected) - 1) /\ Len(wire) + 1 + d = (Len(wire) + d) + 1
    <3>1. d + Len(Answer) = Len(collected)
      BY <1>0, <1>3
    <3>2. /\ d \in Nat /\ Len(Answer) \in Nat /\ Len(collected) \in Nat
          /\ Len(wire) \in Nat \ {0} /\ Len(wire) < Len(Answer)
      BY <1>0, <1>1, <1>3, <2>1
    <3> HIDE DEF n, d
    <3> QED
      BY ONLY <3>1, <3>2
  <2>4. NextLine(wire[Len(wire)], n)
    BY <1>4, <2>2, <2>3
  <2>5. Delivery!Succeeds(wire[Len(wire)], n)
    BY <1>2, <2>4 DEF NextLine, Delivery!Succeeds
  <2> QED
    BY <1>1, <1>6, <1>7, <1>9, <2>5 DEF Delivery!Deliver
<1> QED
  BY <1>8, <1>9

\* Writing a close frame closes the delivery, or stutters if the write fails.
LEMMA CloseStep ==
    ASSUME TypeOK, IInv, ReportError \/ SendClose \/ TailSent
    PROVE  Delivery!CloseNormally \/ Delivery!CloseWithError \/ UNCHANGED Delivery!dvars
PROOF
<1>0. Len(wire) \in Nat /\ Len(chan) \in Nat /\ readPos \in Nat
  BY TypeFacts
<1>1. UNCHANGED <<follow, readPos, wire>>
  BY DEF ReportError, SendClose, TailSent, WriteClose, readerVars
<1>2. closeFrame = "none"
  BY DEF ReportError, SendClose, TailSent, IInv, Ends, Unwinding
<1>3. CASE ReportError
  <2>1. readPos = 0 /\ closeFrame' \in {"error", closeFrame}
    BY <1>3 DEF ReportError, WriteClose, IInv, NotStarted
  <2> QED
    BY <1>1, <1>2, <2>1 DEF Delivery!CloseWithError, Delivery!dvars
<1>4. CASE SendClose
  <2>1. CASE closeFrame' = closeFrame
    BY <1>1, <2>1 DEF Delivery!dvars
  <2>2. CASE closeFrame' # closeFrame
    <3>1. closeFrame' = "normal" /\ conn = "open" /\ pc = "sendClose"
      BY <1>4, <2>2 DEF SendClose, WriteClose, CanWrite
    <3>2. follow
      BY <3>1 DEF IInv, Collection, InStream
    <3>3. chan = <<>> /\ rpc = "done" /\ Len(chan) = 0
      BY <3>1, EmptySeq DEF IInv, Ends
    <3>4. Taken + Len(chan) + HoldsLine(rpc, "send") = readPos
      BY <3>1, <3>2 DEF IInv, Pipeline, InStream
    <3>5. Len(wire) = readPos
      BY <1>0, <3>1, <3>3, <3>4 DEF Taken, HoldsLine
    <3> QED
      BY <1>1, <1>2, <3>1, <3>5 DEF Delivery!CloseNormally
  <2> QED
    BY <2>1, <2>2
<1>5. CASE TailSent
  <2>1. ~follow
    BY <1>5 DEF TailSent, IInv, Pipeline, InCollect
  <2>2. closeFrame' \in {"normal", closeFrame}
    BY <1>5 DEF TailSent, WriteClose
  <2> QED
    BY <1>1, <1>2, <2>1, <2>2 DEF Delivery!CloseNormally, Delivery!dvars
<1> QED
  BY <1>3, <1>4, <1>5

\* Every step of LogStream is a step of LogDelivery or leaves it unchanged.
LEMMA DeliveryNext == TypeOK /\ IInv /\ [Next]_vars => [Delivery!Next]_(Delivery!dvars)
PROOF
<1> SUFFICES ASSUME TypeOK, IInv, [Next]_vars
             PROVE  Delivery!Next \/ UNCHANGED Delivery!dvars
  OBVIOUS
<1> USE DEF dockerVars, peerVars, readerVars, writeVars, tailVars, taskVars
<1>1. CASE WriteLine
  BY <1>1, WriteLineDelivers DEF Delivery!Next
<1>2. CASE SendTailLine
  BY <1>2, SendTailLineDelivers DEF Delivery!Next
<1>3. CASE ReportError \/ SendClose \/ TailSent
  BY <1>3, CloseStep DEF Delivery!Next
<1>4. CASE ReadLine
  <2>1. follow => closeFrame # "normal"
    BY <1>4 DEF ReadLine, IInv, Pipeline
  <2> QED
    BY <1>4, <2>1 DEF ReadLine, Delivery!Next, Delivery!Produce
<1>5. CASE Upgrade \/ GetCli \/ ServiceLogs
  BY <1>5 DEF Upgrade, GetCli, ServiceLogs, Delivery!dvars
<1>6. CASE TakeLine \/ WriteLineFails \/ Ping \/ PingFails \/ ChannelEnds \/ WriteDeadlinePasses
  BY <1>6 DEF TakeLine, WriteLineFails, Ping, PingFails, AbandonStream,
              ChannelEnds, WriteDeadlinePasses, Delivery!dvars
<1>7. CASE CollectLine \/ CollectEnds \/ CollectIdle \/ CollectCancelled \/ SendTailFails
  BY <1>7 DEF CollectLine, CollectEnds, CollectIdle, CollectCancelled,
              CollectReturns, SendTailFails, Delivery!dvars
<1>8. CASE DeferCloseReader \/ DeferCancel \/ DeferCloseConn
  BY <1>8 DEF DeferCloseReader, DeferCancel, DeferCloseConn, Delivery!dvars
<1>9. CASE ReadError \/ SendLine \/ DropLine
  BY <1>9 DEF ReadError, SendLine, DropLine, ReaderReturns, Delivery!dvars
<1>10. CASE CloseReader \/ ReadMessageFails \/ ReadDeadlinePasses \/ WatcherCancel
  BY <1>10 DEF CloseReader, ReadMessageFails, ReadDeadlinePasses, WatcherSees,
               WatcherCancel, Delivery!dvars
<1>11. CASE Environment
  BY <1>11 DEF Environment, Emit, SourceEnds, PeerReads, PeerChanges, Delivery!dvars
<1>12. CASE UNCHANGED vars
  BY <1>12 DEF vars, Delivery!dvars
<1> QED
  BY <1>1, <1>2, <1>3, <1>4, <1>5, <1>6, <1>7, <1>8, <1>9, <1>10, <1>11, <1>12
     DEF Next, Handler, Reader, Closer, Watcher, Terminated

\* A request keeps the promise of LogDelivery: a gap-free stretch of the log, in
\* order, and at most one close frame after it.
THEOREM Implementation == Spec => DeliverySpec
PROOF
<1> QED
  BY DeliveryInit, DeliveryNext, TypeCorrect, Invariance, PTL
     DEF Spec, DeliverySpec, Delivery!Spec
=============================================================================
