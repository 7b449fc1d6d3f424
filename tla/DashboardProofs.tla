--------------------------- MODULE DashboardProofs ---------------------------
(* What holds of every entry of a tab's history and of what is on display,   *)
(* for any swarm, any words typed, any defaults of the server and any number *)
(* of operations.                                                            *)
EXTENDS Dashboard, TLAPS

\* What is shown of each entry, one at a time.
Good(e) == EntryOK(e) /\ DetailMatches(e) /\ OneFilter(e)

\* A sequence of good entries, whatever they are.
GoodHistory(h) == \E T : h \in Seq(T) /\ \A e \in T : Good(e)

HistoryOK == GoodHistory(history) /\ here \in 1..Len(history)

BoxSet == [open : BOOLEAN, value : Words, type : {"service", "stack", ""}, service : Words, stack : Words]

CountersOK ==
    /\ shown \in Pages \cup {"none"} /\ pending \in {"no", "behind", "hidden"}
    /\ broken \in BOOLEAN /\ ops \in 0..MaxOps /\ versionRefresh \in 0..ops

IInv == HistoryOK /\ CountersOK /\ BoxOK

-----------------------------------------------------------------------------
(* Entries.                                                                *)

\* Writing another key, or the type of the filter, keeps an entry good.
LEMMA WriteGood ==
    ASSUME NEW e, Good(e), NEW key \in Preferences \cup {"filterType"}, NEW value,
           key = "filterType" => value \in {"service", "stack"}
    PROVE  Good(Write(e, key, value))
  <1> DEFINE w == Write(e, key, value)
  <1>1. w.keys = [e.keys EXCEPT ![key] = value] /\ key \in Replaced
    BY DEF Good, EntryOK, Write, Replaced, Filters
  <1>2. /\ w.keys["serviceNameFilter"] = e.keys["serviceNameFilter"]
        /\ w.keys["stackNameFilter"] = e.keys["stackNameFilter"]
        /\ w.keys["filterType"] \in {"service", "stack", Unset}
        /\ w.keys = [k \in Replaced |-> w.keys[k]]
    BY <1>1 DEF Good, EntryOK, Preferences, Replaced, Filters
  <1>3. EntryOK(w)
    BY <1>2 DEF Good, EntryOK, Write
  <1>4. DetailMatches(w)
    BY DEF Good, DetailMatches, Write, EntryOK
  <1> QED
    BY <1>2, <1>3, <1>4 DEF Good, OneFilter

\* Both filters are written together, and one of them is empty.
LEMMA WriteFilterGood ==
    ASSUME NEW e, Good(e), NEW type, NEW value \in Words
    PROVE  Good(WriteFilter(e, type, value))
  <1> DEFINE Both(service, stack) == Write(Write(e, "serviceNameFilter", service), "stackNameFilter", stack)
  <1>1. ASSUME NEW service \in Words, NEW stack \in Words, service = "" \/ stack = ""
        PROVE  Good(Both(service, stack))
    <2> DEFINE w == Both(service, stack)
    <2>1. w.keys = [[e.keys EXCEPT !["serviceNameFilter"] = service] EXCEPT !["stackNameFilter"] = stack]
      BY DEF Good, EntryOK, Write
    <2>2. /\ w.keys["serviceNameFilter"] = service /\ w.keys["stackNameFilter"] = stack
          /\ w.keys["filterType"] = e.keys["filterType"]
          /\ w.keys = [k \in Replaced |-> w.keys[k]]
      BY <2>1 DEF Good, EntryOK, Replaced, Filters
    <2>3. EntryOK(w)
      BY <2>2 DEF Good, EntryOK, Write
    <2>4. DetailMatches(w)
      BY DEF Good, DetailMatches, Write, EntryOK
    <2>5. OneFilter(w)
      BY <1>1, <2>2, ServedAssumption DEF OneFilter
    <2> QED
      BY <2>3, <2>4, <2>5 DEF Good
  <1>2. "" \in Words
    BY ServedAssumption
  <1> QED
    BY <1>1, <1>2 DEF WriteFilter

\* What is filtered by is a word, whether it is from the hash or from the server.
LEMMA FiltersAreWords ==
    ASSUME NEW e, Good(e)
    PROVE  /\ Value(e, "serviceNameFilter") \in Words /\ Value(e, "stackNameFilter") \in Words
           /\ Value(e, "filterType") \in {"service", "stack"}
  BY ServedAssumption DEF Good, EntryOK, Value

LEMMA EffectGood ==
    ASSUME NEW e, Good(e), NEW old, old.value \in Words
    PROVE  /\ Good(Effect(e, old).entry)
           /\ Effect(e, old).box \in BoxSet
  <1> DEFINE service == Value(e, "serviceNameFilter")
             stack == Value(e, "stackNameFilter")
             runs == ~old.open \/ old.service # service \/ old.stack # stack
             typed == IF runs /\ service # "" THEN Write(e, "filterType", "service")
                      ELSE IF runs /\ stack # "" THEN Write(e, "filterType", "stack") ELSE e
  <1>1. Good(Write(e, "filterType", "service")) /\ Good(Write(e, "filterType", "stack"))
    BY WriteGood
  <1>2. Good(typed)
    BY <1>1
  <1>3. service \in Words /\ stack \in Words
    BY FiltersAreWords
  <1>4. Value(typed, "filterType") \in {"service", "stack"}
    BY <1>2, FiltersAreWords
  <1>5. (IF ~runs THEN old.value ELSE IF service # "" THEN service ELSE stack) \in Words
    BY <1>3
  <1> HIDE DEF service, stack, runs, typed
  <1>6. /\ Effect(e, old).entry = typed
        /\ Effect(e, old).box =
              [open |-> TRUE, type |-> Value(typed, "filterType"), service |-> service, stack |-> stack,
               value |-> IF ~runs THEN old.value ELSE IF service # "" THEN service ELSE stack]
    BY DEF Effect, service, stack, runs, typed
  <1>7. Good(Effect(e, old).entry)
    BY <1>2, <1>6
  <1>8. ASSUME NEW v \in Words, NEW t \in {"service", "stack"}, NEW a \in Words, NEW b \in Words
        PROVE  [open |-> TRUE, type |-> t, service |-> a, stack |-> b, value |-> v] \in BoxSet
    BY DEF BoxSet
  <1>9. Effect(e, old).box \in BoxSet
    <2> DEFINE type == Value(typed, "filterType")
               word == IF ~runs THEN old.value ELSE IF service # "" THEN service ELSE stack
    <2>1. type \in {"service", "stack"} /\ word \in Words
      BY <1>4, <1>5
    <2>2. Effect(e, old).box = [open |-> TRUE, type |-> type, service |-> service, stack |-> stack, value |-> word]
      BY <1>6
    <2> HIDE DEF type, word
    <2> QED
      BY <1>3, <1>8, <2>1, <2>2
  <1> QED
    BY <1>7, <1>9

-----------------------------------------------------------------------------
(* Histories.                                                              *)

LEMMA EntryOfGood ==
    ASSUME NEW h, GoodHistory(h)
    PROVE  /\ Len(h) \in Nat /\ DOMAIN h = 1..Len(h)
           /\ \A i \in 1..Len(h) : Good(h[i])
           /\ h \in Seq({h[i] : i \in DOMAIN h})
  <1>1. PICK T : h \in Seq(T) /\ \A e \in T : Good(e)
    BY DEF GoodHistory
  <1>2. Len(h) \in Nat /\ DOMAIN h = 1..Len(h) /\ \A i \in 1..Len(h) : h[i] \in T
    BY <1>1
  <1>3. ASSUME NEW S, \A i \in DOMAIN h : h[i] \in S
        PROVE  h \in Seq(S)
    BY <1>1, <1>2, <1>3
  <1> QED
    BY <1>1, <1>2, <1>3

\* Another entry in the place of one there is.
LEMMA PutGood ==
    ASSUME NEW h, GoodHistory(h), NEW i \in 1..Len(h), NEW e, Good(e)
    PROVE  GoodHistory([h EXCEPT ![i] = e]) /\ Len([h EXCEPT ![i] = e]) = Len(h)
  <1>1. PICK T : h \in Seq(T) /\ \A x \in T : Good(x)
    BY DEF GoodHistory
  <1>2. PICK S : S = T \cup {e}
    OBVIOUS
  <1>3. h \in Seq(S) /\ e \in S
    BY <1>1, <1>2
  <1>4. [h EXCEPT ![i] = e] \in Seq(S) /\ Len([h EXCEPT ![i] = e]) = Len(h)
    BY <1>3
  <1> QED
    BY <1>1, <1>2, <1>4 DEF GoodHistory

\* An entry pushed after the first i.
LEMMA AppendGood ==
    ASSUME NEW h, GoodHistory(h), NEW i \in 1..Len(h), NEW e, Good(e)
    PROVE  GoodHistory(Append(SubSeq(h, 1, i), e)) /\ Len(Append(SubSeq(h, 1, i), e)) = i + 1
  <1>1. PICK T : h \in Seq(T) /\ \A x \in T : Good(x)
    BY DEF GoodHistory
  <1>2. PICK S : S = T \cup {e}
    OBVIOUS
  <1>3. h \in Seq(S) /\ e \in S /\ Len(h) \in Nat
    BY <1>1, <1>2
  <1>4. SubSeq(h, 1, i) \in Seq(S) /\ Len(SubSeq(h, 1, i)) = i
    BY <1>3
  <1>5. Append(SubSeq(h, 1, i), e) \in Seq(S) /\ Len(Append(SubSeq(h, 1, i), e)) = i + 1
    BY <1>3, <1>4
  <1> QED
    BY <1>1, <1>2, <1>5 DEF GoodHistory

LEMMA PushedGood ==
    ASSUME HistoryOK, NEW e, Good(e)
    PROVE  /\ GoodHistory(Pushed(e))
           /\ e = Entry => Pushed(e) = history
           /\ e # Entry => Len(Pushed(e)) = here + 1
           /\ (IF e = Entry THEN here ELSE here + 1) \in 1..Len(Pushed(e))
  BY AppendGood, EntryOfGood DEF HistoryOK, Pushed

LEMMA EntryGood ==
    ASSUME IInv PROVE Good(Entry) /\ Entry.keys = [key \in Replaced |-> Entry.keys[key]]
  <1>1. Good(Entry)
    BY EntryOfGood DEF IInv, HistoryOK, Entry
  <1>2. EntryOK(Entry)
    BY <1>1 DEF Good
  <1> QED
    BY <1>1, <1>2 DEF EntryOK

\* What a click or a tick counts.
LEMMA Counted ==
    ASSUME CountersOK, ops < MaxOps, ops' = ops + 1, versionRefresh' \in {versionRefresh, versionRefresh + 1},
           UNCHANGED <<shown, broken>>, pending' \in {"no", "behind", "hidden"}
    PROVE  CountersOK'
  <1>1. MaxOps \in Nat
    BY ServedAssumption
  <1>2. ops' \in 0..MaxOps /\ versionRefresh' \in 0..ops'
    BY <1>1 DEF CountersOK
  <1>3. shown' \in Pages \cup {"none"} /\ broken' \in BOOLEAN
    BY DEF CountersOK
  <1> QED
    BY <1>2, <1>3 DEF CountersOK

\* What is rendered is another entry where the tab is, and a box for it.
LEMMA RenderedGood ==
    ASSUME HistoryOK, NEW e, Good(e), NEW old, old.value \in Words,
           here' \in 1..Len(history), Rendered(e, old)
    PROVE  HistoryOK' /\ BoxOK'
  <1> DEFINE done == Effect(e, old)
  <1>1. Good(done.entry) /\ done.box \in BoxSet
    BY EffectGood
  <1> HIDE DEF done
  <1>2. history' = [history EXCEPT ![here'] = done.entry] /\ box' = done.box
    BY DEF Rendered, done
  <1>3. GoodHistory(history') /\ Len(history') = Len(history)
    BY <1>1, <1>2, PutGood DEF HistoryOK
  <1> QED
    BY <1>1, <1>2, <1>3 DEF HistoryOK, BoxOK, BoxSet

\* Another view of the same tab.
LEMMA SetViewGood ==
    ASSUME IInv, Does, NEW e, Good(e), NEW how \in {"behind", "hidden"}, SetView(e, how)
    PROVE  IInv'
  <1>1. HistoryOK'
    BY PushedGood DEF IInv, HistoryOK, SetView
  <1>2. CountersOK'
    <2>1. pending' \in {"no", "behind", "hidden"}
      BY DEF IInv, CountersOK, SetView
    <2> QED
      BY <2>1, Counted DEF IInv, SetView, Does, rest
  <1> QED
    BY <1>1, <1>2 DEF IInv, BoxOK, SetView

\* An entry changed where it is.
LEMMA WrittenGood ==
    ASSUME IInv, Does, NEW e, Good(e), history' = [history EXCEPT ![here] = e],
           UNCHANGED <<here, shown, pending, box, rest>>
    PROVE  IInv'
  <1>1. HistoryOK'
    BY PutGood DEF IInv, HistoryOK
  <1>2. CountersOK'
    BY Counted DEF IInv, CountersOK, Does, rest
  <1> QED
    BY <1>1, <1>2 DEF IInv, BoxOK

\* An entry with the filters and settings of one that is good.
LEMMA SameKeysGood ==
    ASSUME NEW e, Good(e), NEW f, f.keys = e.keys,
           f \in [id : Pages \cup {Unset}, detail : Nodes \cup Services \cup Tasks \cup {Unset},
                  sortBy : {"Slot", Unset}, descending : BOOLEAN, timestamp : 0..MaxOps,
                  base : {"path", Unset}, interval : {"off", "on", Unset}, keys : {e.keys}],
           DetailMatches(f)
    PROVE  Good(f)
  <1>1. EntryOK(f)
    BY DEF Good, EntryOK
  <1>2. OneFilter(f)
    BY DEF Good, OneFilter
  <1> QED
    BY <1>1, <1>2 DEF Good

\* An entry with another view or another order.
Edited(e, f) ==
    \/ \E i \in Pages : f = [e EXCEPT !.id = i]
    \/ \E i \in Pages, d \in Nodes \cup Services : f = [e EXCEPT !.id = i, !.detail = d]
    \/ \E s \in {"Slot", Unset}, b \in BOOLEAN : f = [e EXCEPT !.sortBy = s, !.descending = b]
    \/ \E i \in Pages, d \in Tasks \cup {Unset}, t \in 0..MaxOps :
          f = [e EXCEPT !.id = i, !.detail = d, !.timestamp = t, !.sortBy = Unset, !.descending = FALSE]

LEMMA EditedGood ==
    ASSUME NEW e, Good(e), NEW f, Edited(e, f), DetailMatches(f)
    PROVE  Good(f)
  <1> DEFINE I == Pages \cup {Unset}
             D == Nodes \cup Services \cup Tasks \cup {Unset}
             S == {"Slot", Unset}
             T == 0..MaxOps
             P == {"path", Unset}
             V == {"off", "on", Unset}
             K == {e.keys}
             B == BOOLEAN
             View == [id : I, detail : D, sortBy : S, descending : B, timestamp : T, base : P, interval : V, keys : K]
  <1>1. e \in View
    BY DEF Good, EntryOK
  <1>2. Pages \subseteq I /\ Nodes \cup Services \subseteq D /\ Tasks \cup {Unset} \subseteq D
    OBVIOUS
  <1> HIDE DEF I, D
  <1>3. \/ \E i \in I : f = [e EXCEPT !.id = i]
        \/ \E i \in I, d \in D : f = [e EXCEPT !.id = i, !.detail = d]
        \/ \E s \in S, b \in B : f = [e EXCEPT !.sortBy = s, !.descending = b]
        \/ \E i \in I, d \in D, t \in T :
              f = [e EXCEPT !.id = i, !.detail = d, !.timestamp = t, !.sortBy = Unset, !.descending = FALSE]
    BY <1>2 DEF Edited
  <1>4. Unset \in S /\ FALSE \in B
    OBVIOUS
  <1> HIDE DEF S, T, P, V, K, B
  <1>5. f \in View /\ f.keys = e.keys
    BY ONLY <1>1, <1>3, <1>4
  <1> QED
    BY <1>5, SameKeysGood DEF I, D, S, T, P, V, K, B

-----------------------------------------------------------------------------
(* The filter box.                                                         *)

LEMMA ChangeFilterValueGood ==
    ASSUME IInv, NEW value \in Words, changeFilterValue(value) PROVE IInv'
  <1> DEFINE e == WriteFilter(Entry, box.type, value)
             old == [box EXCEPT !.value = value]
  <1>1. Good(e)
    BY EntryGood, WriteFilterGood
  <1>2. old.value \in Words
    BY DEF IInv, BoxOK
  <1> HIDE DEF e, old
  <1>3. Rendered(e, old) /\ here' \in 1..Len(history)
    BY DEF changeFilterValue, e, old, IInv, HistoryOK
  <1>4. CountersOK'
    BY Counted DEF changeFilterValue, OnPage, Does, IInv, CountersOK, rest
  <1> QED
    BY <1>1, <1>2, <1>3, <1>4, RenderedGood DEF IInv

LEMMA ChangeFilterTypeGood ==
    ASSUME IInv, NEW type \in {"service", "stack"}, changeFilterType(type) PROVE IInv'
  <1> DEFINE typed == Write(Entry, "filterType", type)
             e == WriteFilter(typed, type, box.value)
  <1>1. box.value \in Words
    BY DEF IInv, BoxOK
  <1>2. Good(typed)
    BY EntryGood, WriteGood
  <1>3. Good(e)
    BY <1>1, <1>2, WriteFilterGood
  <1> HIDE DEF e
  <1>4. Rendered(e, box) /\ here' \in 1..Len(history)
    BY DEF changeFilterType, e, IInv, HistoryOK
  <1>5. CountersOK'
    BY Counted DEF changeFilterType, OnPage, Does, IInv, CountersOK, rest
  <1> QED
    BY <1>1, <1>3, <1>4, <1>5, RenderedGood DEF IInv

LEMMA OnFilterGood ==
    ASSUME IInv, NEW type \in {"service", "stack"}, NEW name \in Words, onFilter(type, name) PROVE IInv'
  <1> DEFINE typed == Write(Entry, "filterType", type)
             e == WriteFilter(typed, type, name)
  <1>1. Good(typed)
    BY EntryGood, WriteGood
  <1>2. Good(e)
    BY <1>1, WriteFilterGood
  <1> HIDE DEF e
  <1>3. Does /\ history' = [history EXCEPT ![here] = e] /\ UNCHANGED <<here, shown, pending, box, rest>>
    BY DEF onFilter, OnPage, e
  <1> QED
    BY <1>2, <1>3, WrittenGood

LEMMA CommitGood ==
    ASSUME IInv, Commit PROVE IInv'
  <1>1. box.value \in Words /\ here' \in 1..Len(history) /\ Rendered(Entry, box)
    BY DEF IInv, BoxOK, HistoryOK, Commit
  <1>2. HistoryOK' /\ BoxOK'
    BY <1>1, EntryGood, RenderedGood DEF IInv
  <1>3. CountersOK'
    BY DEF IInv, CountersOK, Commit, rest
  <1> QED
    BY <1>2, <1>3 DEF IInv

-----------------------------------------------------------------------------
(* The view.                                                               *)

Simple == Pages \ {"nodesDetail", "servicesDetail", "tasksDetail"}

LEMMA NavigateGood ==
    ASSUME IInv, NEW id \in Pages, navigate(id) PROVE IInv'
  <1> DEFINE f == [Entry EXCEPT !.id = id]
  <1>1. id \in Simple
    BY DEF navigate, InNavbar, DefaultLayout, Simple, Pages, WithFilter
  <1>2. Good(f)
    <2>1. DetailMatches(f)
      BY <1>1, EntryGood DEF DetailMatches, Simple, Good, EntryOK
    <2> QED
      BY <2>1, EntryGood, EditedGood DEF Edited
  <1> HIDE DEF f
  <1>3. Does /\ SetView(f, "behind")
    BY DEF navigate, f
  <1> QED
    BY <1>2, <1>3, SetViewGood

LEMMA ShowLogsGood ==
    ASSUME IInv, handleShowLogs PROVE IInv'
  <1> DEFINE f == [Entry EXCEPT !.id = "logs"]
  <1>1. Good(f)
    <2>1. DetailMatches(f)
      BY EntryGood DEF DetailMatches, Good, EntryOK
    <2> QED
      BY <2>1, EntryGood, EditedGood DEF Edited, Pages, InNavbar
  <1> HIDE DEF f
  <1>2. Does /\ SetView(f, "behind")
    BY DEF handleShowLogs, OnPage, f
  <1> QED
    BY <1>1, <1>2, SetViewGood

LEMMA DebugGood ==
    ASSUME IInv, Debug PROVE IInv'
  <1> DEFINE f == [Entry EXCEPT !.id = "debug"]
  <1>1. Good(f)
    <2>1. DetailMatches(f)
      BY EntryGood DEF DetailMatches, Good, EntryOK
    <2> QED
      BY <2>1, EntryGood, EditedGood DEF Edited, Pages
  <1> HIDE DEF f
  <1>2. Does /\ SetView(f, "hidden")
    BY DEF Debug, OnPage, f
  <1> QED
    BY <1>1, <1>2, SetViewGood

\* The ID that is opened is of the kind its page asks for.
LEMMA OnOpenGood ==
    ASSUME IInv, NEW page \in {"nodesDetail", "servicesDetail"}, NEW id \in Nodes \cup Services, onOpen(page, id)
    PROVE  IInv'
  <1> DEFINE f == [Entry EXCEPT !.id = page, !.detail = id]
  <1>1. (page = "nodesDetail" => id \in Nodes) /\ (page = "servicesDetail" => id \in Services)
    BY DEF onOpen
  <1>2. Good(f)
    <2>1. DetailMatches(f)
      BY <1>1, EntryGood DEF DetailMatches, Good, EntryOK
    <2> QED
      BY <2>1, EntryGood, EditedGood DEF Edited, Pages
  <1> HIDE DEF f
  <1>3. Does /\ SetView(f, "behind")
    BY DEF onOpen, OnPage, Open, f
  <1> QED
    BY <1>2, <1>3, SetViewGood

LEMMA NewViewGood ==
    ASSUME IInv, NEW id \in Pages, NEW detail \in Tasks \cup {Unset}, NEW timestamp \in 0..MaxOps,
           id \notin {"nodesDetail", "servicesDetail"}, id = "tasksDetail" => detail \in Tasks
    PROVE  Good(NewView(id, detail, timestamp))
  <1> DEFINE f == NewView(id, detail, timestamp)
  <1>1. f = [Entry EXCEPT !.id = id, !.detail = detail, !.timestamp = timestamp, !.sortBy = Unset,
                          !.descending = FALSE]
    BY DEF NewView
  <1>2. DetailMatches(f)
    BY <1>1, EntryGood DEF DetailMatches, Good, EntryOK
  <1> QED
    BY <1>1, <1>2, EntryGood, EditedGood DEF Edited

LEMMA OpenTaskGood ==
    ASSUME IInv, NEW t \in Tasks, OpenTask(t) PROVE IInv'
  <1> DEFINE f == NewView("tasksDetail", t, ops')
             how == IF shown = "dashboardH" THEN "behind" ELSE "hidden"
  <1>1. Does /\ SetView(f, how)
    BY DEF OpenTask, OnPage
  <1>2. ops' \in 0..MaxOps /\ "tasksDetail" \in Pages
    BY <1>1, Counted DEF Does, IInv, CountersOK, SetView, rest, Pages
  <1>3. Good(f)
    BY <1>2, NewViewGood
  <1> HIDE DEF f
  <1> QED
    BY <1>1, <1>3, SetViewGood

LEMMA SwitchLayoutGood ==
    ASSUME IInv, NEW id \in {"dashboardH", "dashboardV"}, SwitchLayout(id) PROVE IInv'
  <1> DEFINE f == NewView(id, Unset, 0)
  <1>1. MaxOps \in Nat /\ id \in Pages
    BY ServedAssumption DEF Pages, WithFilter
  <1>2. Good(f)
    <2>1. 0 \in 0..MaxOps
      BY <1>1
    <2> QED
      BY <1>1, <2>1, NewViewGood
  <1> HIDE DEF f
  <1>3. Does /\ SetView(f, "hidden")
    BY DEF SwitchLayout, OnPage, f
  <1> QED
    BY <1>2, <1>3, SetViewGood

LEMMA HandleSortGood ==
    ASSUME IInv, handleSort("Slot") PROVE IInv'
  <1> DEFINE again == Entry.sortBy = "Slot"
             sortBy == IF again /\ Entry.descending THEN Unset ELSE "Slot"
             descending == again /\ ~Entry.descending
             f == [Entry EXCEPT !.sortBy = sortBy, !.descending = descending]
  <1>1. Good(f)
    <2>1. sortBy \in {"Slot", Unset} /\ descending \in BOOLEAN
      OBVIOUS
    <2> HIDE DEF again, sortBy, descending
    <2>2. DetailMatches(f)
      BY EntryGood DEF DetailMatches, Good, EntryOK
    <2> QED
      BY <2>1, <2>2, EntryGood, EditedGood DEF Edited
  <1> HIDE DEF f
  <1>2. Does /\ SetView(f, "hidden")
    BY DEF handleSort, OnPage, f
  <1> QED
    BY <1>1, <1>2, SetViewGood

-----------------------------------------------------------------------------
(* The reloads.                                                            *)

LEMMA AppendedGood ==
    ASSUME NEW h, GoodHistory(h), NEW e, Good(e)
    PROVE  GoodHistory(h \o <<e>>) /\ Len(h \o <<e>>) = Len(h) + 1 /\ h \o <<>> = h
  <1>1. PICK T : h \in Seq(T) /\ \A x \in T : Good(x)
    BY DEF GoodHistory
  <1>2. PICK S : S = T \cup {e}
    OBVIOUS
  <1>3. h \in Seq(S) /\ e \in S
    BY <1>1, <1>2
  <1>4. h \o <<e>> \in Seq(S) /\ Len(h \o <<e>>) = Len(h) + 1 /\ h \o <<>> = h
    BY <1>3
  <1> QED
    BY <1>1, <1>2, <1>4 DEF GoodHistory

\* One entry pushed by the timestamp, or two, the first by the interval.
LEMMA ReloadGood ==
    ASSUME IInv, Does, NEW before, before = <<>> \/ before = <<[Entry EXCEPT !.interval = "off"]>>,
           reloadData(before)
    PROVE  IInv'
  <1> DEFINE off == [Entry EXCEPT !.interval = "off"]
             last == [(IF before = <<>> THEN Entry ELSE before[1]) EXCEPT !.timestamp = ops']
             kept == SubSeq(history, 1, here)
  <1>1. CountersOK'
    <2>1. pending' \in {"no", "behind", "hidden"}
      BY DEF IInv, CountersOK, reloadData
    <2> QED
      BY <2>1, Counted DEF IInv, reloadData, Does
  <1>2. ops' \in 0..MaxOps
    BY <1>1, ServedAssumption DEF CountersOK
  <1>3. ASSUME NEW e, Good(e)
        PROVE  Good([e EXCEPT !.timestamp = ops']) /\ Good([e EXCEPT !.interval = "off"])
    <2>1. DetailMatches([e EXCEPT !.timestamp = ops']) /\ DetailMatches([e EXCEPT !.interval = "off"])
      BY <1>3 DEF DetailMatches, Good, EntryOK
    <2>2. Good([e EXCEPT !.timestamp = ops'])
      BY <1>2, <1>3, <2>1, SameKeysGood DEF Good, EntryOK
    <2>3. Good([e EXCEPT !.interval = "off"])
      BY <1>3, <2>1, SameKeysGood DEF Good, EntryOK
    <2> QED
      BY <2>2, <2>3
  <1>4. Good(Entry) /\ Good(off) /\ Good(last)
    <2>1. Good(Entry) /\ Good(off)
      BY <1>3, EntryGood
    <2> HIDE DEF off
    <2>2. before = <<>> \/ before = <<off>>
      BY DEF off
    <2>3. (IF before = <<>> THEN Entry ELSE before[1]) \in {Entry, off}
      BY <2>2
    <2> QED
      BY <1>3, <2>1, <2>3
  <1>5. GoodHistory(kept)
    <2>1. PICK T : history \in Seq(T) /\ \A x \in T : Good(x)
      BY DEF IInv, HistoryOK, GoodHistory
    <2>2. kept \in Seq(T)
      BY <2>1 DEF IInv, HistoryOK
    <2> QED
      BY <2>1, <2>2 DEF GoodHistory
  <1> HIDE DEF off, last, kept
  <1>6. before = <<>> \/ before = <<off>>
    BY DEF off
  <1>7. history' = (kept \o before) \o <<last>> /\ here' = Len(history')
    BY DEF reloadData, kept, last
  <1>8. GoodHistory(kept \o before)
    BY <1>4, <1>5, <1>6, AppendedGood
  <1>9. GoodHistory(history') /\ Len(history') = Len(kept \o before) + 1
    BY <1>4, <1>7, <1>8, AppendedGood
  <1>10. HistoryOK'
    <2>1. Len(kept \o before) \in Nat
      BY <1>8, EntryOfGood
    <2> QED
      BY <1>7, <1>9, <2>1 DEF HistoryOK
  <1>11. BoxOK'
    BY DEF IInv, BoxOK, reloadData
  <1> QED
    BY <1>1, <1>10, <1>11 DEF IInv

-----------------------------------------------------------------------------
(* The settings page.                                                      *)

LEMMA SetGood ==
    ASSUME IInv, NEW key \in Preferences, NEW value, Set(key, value) PROVE IInv'
  <1> DEFINE e == Write(Entry, key, value)
  <1>1. key # "filterType" /\ key \in Preferences \cup {"filterType"}
    BY DEF Preferences
  <1>2. Good(e)
    BY <1>1, EntryGood, WriteGood
  <1> HIDE DEF e
  <1>3. Does /\ history' = [history EXCEPT ![here] = e] /\ UNCHANGED <<here, shown, pending, box, rest>>
    BY DEF Set, OnPage, e
  <1> QED
    BY <1>2, <1>3, WrittenGood

LEMMA IntervalGood ==
    ASSUME IInv, RefreshIntervalRow PROVE IInv'
  <1>1. PICK interval \in {"off", "on"} :
            LET e == [Entry EXCEPT !.interval = interval] IN
            history' = Pushed(e) /\ here' = IF e = Entry THEN here ELSE here + 1
    BY DEF RefreshIntervalRow
  <1> DEFINE e == [Entry EXCEPT !.interval = interval]
  <1>2. Good(e)
    <2>1. DetailMatches(e)
      BY EntryGood DEF DetailMatches, Good, EntryOK
    <2> QED
      BY <2>1, EntryGood, SameKeysGood DEF Good, EntryOK
  <1>3. history' = Pushed(e) /\ here' = IF e = Entry THEN here ELSE here + 1
    BY <1>1
  <1> HIDE DEF e
  <1>4. HistoryOK'
    BY <1>2, <1>3, PushedGood DEF IInv, HistoryOK
  <1>5. CountersOK' /\ BoxOK'
    BY Counted DEF RefreshIntervalRow, OnPage, Does, IInv, CountersOK, BoxOK, rest
  <1> QED
    BY <1>4, <1>5 DEF IInv

\* The base is pushed, then the defaults are written over it.
LEMMA ResetGood ==
    ASSUME IInv, resetDefaults PROVE IInv'
  <1> DEFINE based == [Entry EXCEPT !.base = "path"]
             keys == [key \in Replaced |-> IF key \in Preferences THEN Served[key] ELSE based.keys[key]]
             served == [based EXCEPT !.keys = keys]
             entries == Pushed(based)
  <1>1. Good(based)
    <2>1. DetailMatches(based)
      BY EntryGood DEF DetailMatches, Good, EntryOK
    <2> QED
      BY <2>1, EntryGood, SameKeysGood DEF Good, EntryOK
  <1>2. Good(served)
    <2>1. /\ keys["serviceNameFilter"] = based.keys["serviceNameFilter"]
          /\ keys["stackNameFilter"] = based.keys["stackNameFilter"]
          /\ keys["filterType"] = based.keys["filterType"]
          /\ keys = [key \in Replaced |-> keys[key]]
      BY DEF Replaced, Filters, Preferences
    <2> HIDE DEF keys
    <2>2. /\ served.keys = keys /\ served.id = based.id /\ served.detail = based.detail
          /\ served.sortBy = based.sortBy /\ served.descending = based.descending
          /\ served.timestamp = based.timestamp /\ served.base = based.base /\ served.interval = based.interval
          /\ served \in [id : Pages \cup {Unset}, detail : Nodes \cup Services \cup Tasks \cup {Unset},
                         sortBy : {"Slot", Unset}, descending : BOOLEAN, timestamp : 0..MaxOps,
                         base : {"path", Unset}, interval : {"off", "on", Unset}, keys : {keys}]
      BY <1>1 DEF Good, EntryOK
    <2> HIDE DEF served, based
    <2>3. EntryOK(served)
      BY <1>1, <2>1, <2>2 DEF Good, EntryOK
    <2>4. DetailMatches(served) /\ OneFilter(served)
      BY <1>1, <2>1, <2>2 DEF Good, DetailMatches, OneFilter
    <2> QED
      BY <2>3, <2>4 DEF Good
  <1>3. /\ here' = IF based = Entry THEN here ELSE here + 1
        /\ history' = [entries EXCEPT ![here'] = served]
    BY DEF resetDefaults
  <1> HIDE DEF based, served
  <1>4. GoodHistory(entries) /\ here' \in 1..Len(entries)
    BY <1>1, <1>3, PushedGood DEF IInv
  <1> HIDE DEF entries
  <1>5. HistoryOK'
    <2>1. GoodHistory([entries EXCEPT ![here'] = served]) /\ Len([entries EXCEPT ![here'] = served]) = Len(entries)
      BY ONLY <1>2, <1>4, PutGood
    <2> QED
      BY ONLY <1>3, <1>4, <2>1 DEF HistoryOK
  <1>6. CountersOK' /\ BoxOK'
    BY Counted DEF resetDefaults, OnPage, Does, IInv, CountersOK, BoxOK, rest
  <1> QED
    BY <1>5, <1>6 DEF IInv

LEMMA SettingsGood ==
    ASSUME IInv, SettingsComponent PROVE IInv'
  <1> DEFINE Sets == \E key \in Preferences : \E value : Set(key, value)
  <1>1. /\ "darkMode" \in Preferences /\ "tablesize" \in Preferences /\ "maxContentWidth" \in Preferences
        /\ "showNavLabels" \in Preferences /\ "showNamesButtons" \in Preferences
        /\ "defaultLayout" \in Preferences /\ "hiddenServiceStates" \in Preferences
        /\ "timeZone" \in Preferences /\ "locale" \in Preferences
    BY DEF Preferences
  <1>2. DarkModeRow \/ ShowNavLabelsRow \/ ShowNamesButtonsRow => Sets
    BY <1>1 DEF DarkModeRow, ShowNavLabelsRow, ShowNamesButtonsRow, Undo
  <1>3. TableSizeRow \/ CenteredLayoutRow \/ DefaultLayoutRow => Sets
    BY <1>1 DEF TableSizeRow, CenteredLayoutRow, DefaultLayoutRow, Undo
  <1>4. HiddenServiceStatesRow \/ TimeZoneRow \/ LocaleRow => Sets
    BY <1>1 DEF HiddenServiceStatesRow, TimeZoneRow, LocaleRow, Undo
  <1>5. ASSUME Sets PROVE IInv'
    BY <1>5, SetGood
  <1> QED
    BY <1>2, <1>3, <1>4, <1>5, IntervalGood, ResetGood DEF SettingsComponent

-----------------------------------------------------------------------------
(* The browser.                                                            *)

LEMMA GoGood ==
    ASSUME IInv, NEW i \in DOMAIN history, Go(i) PROVE IInv'
  <1>1. DOMAIN history = 1..Len(history) /\ Good(history[i])
    BY EntryOfGood DEF IInv, HistoryOK
  <1>2. here' \in 1..Len(history) /\ box.value \in Words
    BY <1>1 DEF Go, IInv, BoxOK
  <1>3. HistoryOK' /\ BoxOK'
    <2>1. CASE Rendered(history[i], box)
      BY <1>1, <1>2, <2>1, RenderedGood DEF IInv
    <2>2. CASE UNCHANGED <<history, box>>
      BY <1>2, <2>2 DEF IInv, HistoryOK, BoxOK
    <2> QED
      BY <2>1, <2>2 DEF Go
  <1>4. pending' \in {"no", "behind", "hidden"}
    BY DEF Go, IInv, CountersOK
  <1>5. CountersOK'
    BY <1>4, Counted DEF Go, IInv, rest
  <1> QED
    BY <1>3, <1>5 DEF IInv

LEMMA AnswerGood ==
    ASSUME IInv, Answer PROVE IInv'
  <1>1. Good(Entry) /\ PageOf(Entry) \in Pages
    <2>1. Good(Entry)
      BY EntryGood
    <2> QED
      BY <2>1 DEF Good, EntryOK, PageOf, DefaultLayout, Pages, WithFilter
  <1>2. here' \in 1..Len(history) /\ Closed \in BoxSet /\ box \in BoxSet /\ Closed.value = ""
    BY ServedAssumption DEF Answer, IInv, HistoryOK, BoxOK, BoxSet, Closed
  <1>3. HistoryOK' /\ BoxOK'
    <2>1. CASE Rendered(Entry, IF shown' = shown THEN box ELSE Closed)
      <3> DEFINE old == IF shown' = shown THEN box ELSE Closed
      <3>1. old.value \in Words
        BY <1>2 DEF BoxSet
      <3> HIDE DEF old
      <3>2. Rendered(Entry, old)
        BY <2>1 DEF old
      <3> QED
        BY <1>1, <1>2, <3>1, <3>2, RenderedGood DEF IInv
    <2>2. CASE box' = Closed /\ UNCHANGED history
      BY <1>2, <2>2 DEF IInv, HistoryOK, BoxOK, BoxSet, Answer
    <2> QED
      BY <2>1, <2>2 DEF Answer
  <1>4. CountersOK'
    BY <1>1 DEF Answer, IInv, CountersOK, rest
  <1> QED
    BY <1>3, <1>4 DEF IInv

LEMMA FailOrRetryGood ==
    ASSUME IInv, Fail \/ retry PROVE IInv'
  <1>1. HistoryOK'
    BY DEF Fail, retry, IInv, HistoryOK
  <1>2. ops' = ops /\ versionRefresh' \in {versionRefresh, 0}
    BY DEF Fail, retry
  <1>3. CountersOK'
    <2>1. versionRefresh' \in 0..ops' /\ ops' \in 0..MaxOps
      <3>1. MaxOps \in Nat
        BY ServedAssumption
      <3> QED
        BY <1>2, <3>1 DEF IInv, CountersOK
    <2>2. /\ shown' \in Pages \cup {"none"} /\ pending' \in {"no", "behind", "hidden"}
          /\ broken' \in BOOLEAN
      BY DEF Fail, retry, IInv, CountersOK
    <2> QED
      BY <2>1, <2>2 DEF CountersOK
  <1>4. Closed \in BoxSet
    BY ServedAssumption DEF Closed, BoxSet
  <1>5. BoxOK'
    BY <1>4 DEF Fail, retry, IInv, BoxOK, BoxSet
  <1> QED
    BY <1>1, <1>3, <1>5 DEF IInv

LEMMA InitGood ==
    ASSUME Init PROVE IInv
  <1>1. PICK link \in Links : history = <<link>>
    BY DEF Init
  <1>2. Good(link)
    BY LinkAssumption DEF Good
  <1>3. history \in Seq({link}) /\ Len(history) = 1
    BY <1>1
  <1>4. HistoryOK
    <2>1. GoodHistory(history)
      <3>1. \A e \in {link} : Good(e)
        BY <1>2
      <3> QED
        BY <1>3, <3>1 DEF GoodHistory
    <2>2. here \in 1..Len(history)
      BY <1>3 DEF Init
    <2> QED
      BY <2>1, <2>2 DEF HistoryOK
  <1>5. MaxOps \in Nat /\ "" \in Words
    BY ServedAssumption
  <1>6. CountersOK
    <2>1. ASSUME MaxOps \in Nat PROVE 0 \in 0..MaxOps
      BY <2>1
    <2>2. 0 \in 0..0
      OBVIOUS
    <2> QED
      BY <1>5, <2>1, <2>2 DEF Init, CountersOK
  <1>7. BoxOK
    BY <1>5 DEF Init, BoxOK, Closed
  <1> QED
    BY <1>4, <1>6, <1>7 DEF IInv

LEMMA StepGood ==
    ASSUME IInv, [Next]_vars PROVE IInv'
  <1>1. CASE \E value \in Words : changeFilterValue(value)
    BY <1>1, ChangeFilterValueGood
  <1>2. CASE \E type \in {"service", "stack"} : changeFilterType(type) \/ \E name \in Words : onFilter(type, name)
    BY <1>2, ChangeFilterTypeGood, OnFilterGood
  <1>3. CASE Commit \/ handleShowLogs \/ Debug \/ handleSort("Slot")
    BY <1>3, CommitGood, ShowLogsGood, DebugGood, HandleSortGood
  <1>4. CASE \E id \in Pages : navigate(id)
    BY <1>4, NavigateGood
  <1>5. CASE \E page \in {"nodesDetail", "servicesDetail"} : \E id \in Nodes \cup Services : onOpen(page, id)
    BY <1>5, OnOpenGood
  <1>6. CASE \E t \in Tasks : OpenTask(t)
    BY <1>6, OpenTaskGood
  <1>7. CASE \E id \in {"dashboardH", "dashboardV"} : SwitchLayout(id)
    BY <1>7, SwitchLayoutGood
  <1>8. CASE Tick \/ refreshAndNotifyUser
    BY <1>8, ReloadGood DEF Tick, refreshAndNotifyUser
  <1>9. CASE SettingsComponent
    BY <1>9, SettingsGood
  <1>10. CASE \E i \in DOMAIN history : Go(i)
    BY <1>10, GoGood
  <1>11. CASE Answer \/ Fail \/ retry
    BY <1>11, AnswerGood, FailOrRetryGood
  <1>12. CASE UNCHANGED vars
    BY <1>12 DEF vars, rest, IInv, HistoryOK, CountersOK, BoxOK
  <1> QED
    BY <1>1, <1>2, <1>3, <1>4, <1>5, <1>6, <1>7, <1>8, <1>9, <1>10, <1>11, <1>12 DEF Next

-----------------------------------------------------------------------------
(* Theorems.                                                               *)

THEOREM Inductive == Spec => []IInv
  BY InitGood, StepGood, PTL DEF Spec

\* Whatever is clicked, typed, gone back to, answered or failed, the variables
\* keep their types: every entry of the tab is one the pages can be read from.
THEOREM TypeCorrect == Spec => []TypeOK
  <1>1. ASSUME IInv PROVE TypeOK
    <2>1. /\ DOMAIN history = 1..Len(history) /\ \A i \in 1..Len(history) : Good(history[i])
          /\ history \in Seq({history[i] : i \in DOMAIN history})
      BY <1>1, EntryOfGood DEF IInv, HistoryOK
    <2>2. MaxOps \in Nat
      BY ServedAssumption
    <2>3. versionRefresh \in 0..MaxOps
      BY <1>1, <2>2 DEF IInv, CountersOK
    <2> QED
      BY <1>1, <2>1, <2>3 DEF IInv, HistoryOK, CountersOK, TypeOK, Good
  <1> QED
    BY <1>1, Inductive, PTL

\* No entry a user can get to asks a page for the ID of something else.
THEOREM DetailIsOfPage == Spec => []DetailMatchesPage
  <1>1. ASSUME IInv PROVE DetailMatchesPage
    BY <1>1, EntryOfGood DEF IInv, HistoryOK, DetailMatchesPage, Good
  <1> QED
    BY <1>1, Inductive, PTL

\* No entry a user can get to filters by a service and by a stack.
THEOREM FiltersExclude == Spec => []AtMostOneFilter
  <1>1. ASSUME IInv PROVE AtMostOneFilter
    BY <1>1, EntryOfGood DEF IInv, HistoryOK, AtMostOneFilter, Good
  <1> QED
    BY <1>1, Inductive, PTL

-----------------------------------------------------------------------------
(* What is on display, and what its filter box says: theorems that relate    *)
(* the entry the tab is at to what has been rendered.                        *)

\* What is on display, box included, is that of the last answer; nothing is
\* after an error; and the last answer is the one of the entry if no other is
\* waited for.
ShownOK ==
    /\ (box.open <=> shown \in WithFilter)
    /\ (broken => pending = "hidden")
    /\ (pending = "no" => shown = PageOf(Entry))

-----------------------------------------------------------------------------
(* The page of an entry.                                                   *)

\* The page depends on the view and on the default layout, and on nothing else.
LEMMA SamePage ==
    ASSUME NEW e, NEW f, f.id = e.id, f.keys["defaultLayout"] = e.keys["defaultLayout"]
    PROVE  PageOf(f) = PageOf(e)
  BY DEF PageOf, DefaultLayout, Value

LEMMA WriteKeepsPage ==
    ASSUME NEW e, Good(e), NEW key \in Filters, NEW value
    PROVE  PageOf(Write(e, key, value)) = PageOf(e)
  <1> DEFINE w == Write(e, key, value)
  <1>1. w.id = e.id /\ w.keys = [e.keys EXCEPT ![key] = value] /\ key # "defaultLayout"
    BY DEF Good, EntryOK, Write, Filters
  <1>2. w.keys["defaultLayout"] = e.keys["defaultLayout"]
    BY <1>1 DEF Good, EntryOK, Replaced, Preferences
  <1> HIDE DEF w
  <1>3. PageOf(w) = PageOf(e)
    BY <1>1, <1>2, SamePage
  <1> QED
    BY <1>3 DEF w

LEMMA WriteFilterKeepsPage ==
    ASSUME NEW e, Good(e), NEW type, NEW value
    PROVE  PageOf(WriteFilter(e, type, value)) = PageOf(e)
  <1>1. ASSUME NEW service, NEW stack
        PROVE  PageOf(Write(Write(e, "serviceNameFilter", service), "stackNameFilter", stack)) = PageOf(e)
    <2> DEFINE w == Write(Write(e, "serviceNameFilter", service), "stackNameFilter", stack)
    <2>1. w.id = e.id /\ w.keys = [[e.keys EXCEPT !["serviceNameFilter"] = service] EXCEPT !["stackNameFilter"] = stack]
      BY DEF Good, EntryOK, Write
    <2>2. w.keys["defaultLayout"] = e.keys["defaultLayout"]
      BY <2>1 DEF Good, EntryOK, Replaced, Preferences
    <2> HIDE DEF w
    <2>3. PageOf(w) = PageOf(e)
      BY <2>1, <2>2, SamePage
    <2> QED
      BY <2>3 DEF w
  <1> QED
    BY <1>1 DEF WriteFilter

\* What the effect of the box writes is not what the page depends on.
LEMMA EffectKeepsPage ==
    ASSUME NEW e, Good(e), NEW old
    PROVE  PageOf(Effect(e, old).entry) = PageOf(e) /\ Effect(e, old).box.open = TRUE
  <1>1. Effect(e, old).entry \in {e, Write(e, "filterType", "service"), Write(e, "filterType", "stack")}
    BY DEF Effect
  <1>2. "filterType" \in Filters
    BY DEF Filters
  <1>3. PageOf(Effect(e, old).entry) = PageOf(e)
    BY <1>1, <1>2, WriteKeepsPage
  <1>4. Effect(e, old).box.open = TRUE
    BY DEF Effect
  <1> QED
    BY <1>3, <1>4

\* Where the tab is after a rendering, the page is that of the entry rendered.
LEMMA RenderedPage ==
    ASSUME IInv, NEW e, Good(e), NEW old, here' \in 1..Len(history), Rendered(e, old)
    PROVE  PageOf(Entry') = PageOf(e) /\ box'.open = TRUE
  <1> DEFINE done == Effect(e, old)
  <1>1. PageOf(done.entry) = PageOf(e) /\ done.box.open = TRUE
    BY EffectKeepsPage
  <1> HIDE DEF done
  <1>2. history' = [history EXCEPT ![here'] = done.entry] /\ box' = done.box
    BY DEF Rendered, done
  <1>3. here' \in DOMAIN history
    BY EntryOfGood DEF IInv, HistoryOK
  <1>4. Entry' = done.entry
    BY <1>2, <1>3 DEF Entry
  <1> QED
    BY <1>1, <1>2, <1>4

-----------------------------------------------------------------------------
(* Steps.                                                                  *)

\* The page on display stays, or is rendered again where the tab is.
LEMMA RenderedShown ==
    ASSUME IInv, ShownOK, NEW e, Good(e), NEW old, here' \in 1..Len(history), Rendered(e, old),
           shown \in WithFilter, shown' = shown, broken' = broken, ~broken,
           pending' = "no" => pending = "no" /\ PageOf(e) = PageOf(Entry)
    PROVE  ShownOK'
  <1>1. PageOf(Entry') = PageOf(e) /\ box'.open = TRUE
    BY RenderedPage
  <1> QED
    BY <1>1 DEF ShownOK

\* An entry changed where it is, and its page is not.
LEMMA WrittenShown ==
    ASSUME IInv, ShownOK, NEW e, history' = [history EXCEPT ![here] = e], here' = here,
           UNCHANGED <<shown, pending, box, rest>>, pending = "no" => PageOf(e) = PageOf(Entry)
    PROVE  ShownOK'
  <1>1. here \in DOMAIN history
    BY EntryOfGood DEF IInv, HistoryOK
  <1>2. Entry' = e
    BY <1>1 DEF Entry
  <1> QED
    BY <1>2 DEF ShownOK, rest

\* Another view leaves what is on display, until it is answered.
LEMMA SetViewShown ==
    ASSUME ShownOK, NEW e, NEW how \in {"behind", "hidden"}, SetView(e, how)
    PROVE  ShownOK'
  <1>1. CASE e = Entry
    BY <1>1 DEF SetView, Pushed, ShownOK, Entry, rest
  <1>2. CASE e # Entry
    BY <1>2 DEF SetView, ShownOK, rest
  <1> QED
    BY <1>1, <1>2

LEMMA ReloadShown ==
    ASSUME ShownOK, NEW before, reloadData(before)
    PROVE  ShownOK'
  BY DEF reloadData, ShownOK

\* The box: the filters and their type are written, never the view.
LEMMA BoxShown ==
    ASSUME IInv, ShownOK,
           \/ \E value \in Words : changeFilterValue(value)
           \/ \E type \in {"service", "stack"} : changeFilterType(type) \/ \E name \in Words : onFilter(type, name)
           \/ Commit
    PROVE  ShownOK'
  <1>1. Good(Entry) /\ here \in 1..Len(history) /\ box.value \in Words
    BY EntryGood DEF IInv, HistoryOK, BoxOK
  <1>2. ASSUME NEW value \in Words, changeFilterValue(value) PROVE ShownOK'
    <2> DEFINE e == WriteFilter(Entry, box.type, value)
               old == [box EXCEPT !.value = value]
    <2>1. Good(e) /\ PageOf(e) = PageOf(Entry)
      BY <1>1, WriteFilterGood, WriteFilterKeepsPage
    <2> HIDE DEF e, old
    <2>2. /\ Rendered(e, old) /\ here' = here /\ shown \in WithFilter /\ ~broken
          /\ shown' = shown /\ pending' = pending /\ broken' = broken
      BY <1>2 DEF changeFilterValue, OnPage, Does, rest, e, old
    <2> QED
      BY <1>1, <2>1, <2>2, RenderedShown
  <1>3. ASSUME NEW type \in {"service", "stack"}, NEW value \in Words
        PROVE  /\ Good(WriteFilter(Write(Entry, "filterType", type), type, value))
               /\ PageOf(WriteFilter(Write(Entry, "filterType", type), type, value)) = PageOf(Entry)
    <2>1. Good(Write(Entry, "filterType", type)) /\ PageOf(Write(Entry, "filterType", type)) = PageOf(Entry)
      BY <1>1, WriteGood, WriteKeepsPage DEF Filters
    <2> QED
      BY <2>1, WriteFilterGood, WriteFilterKeepsPage
  <1>4. ASSUME NEW type \in {"service", "stack"}, changeFilterType(type) PROVE ShownOK'
    <2> DEFINE e == WriteFilter(Write(Entry, "filterType", type), type, box.value)
    <2>1. Good(e) /\ PageOf(e) = PageOf(Entry)
      BY <1>1, <1>3
    <2> HIDE DEF e
    <2>2. /\ Rendered(e, box) /\ here' = here /\ shown \in WithFilter /\ ~broken
          /\ shown' = shown /\ pending' = pending /\ broken' = broken
      BY <1>4 DEF changeFilterType, OnPage, Does, rest, e
    <2> QED
      BY <1>1, <2>1, <2>2, RenderedShown
  <1>5. ASSUME NEW type \in {"service", "stack"}, NEW name \in Words, onFilter(type, name) PROVE ShownOK'
    <2> DEFINE e == WriteFilter(Write(Entry, "filterType", type), type, name)
    <2>1. PageOf(e) = PageOf(Entry)
      BY <1>3
    <2> HIDE DEF e
    <2>2. history' = [history EXCEPT ![here] = e] /\ UNCHANGED <<here, shown, pending, box, rest>>
      BY <1>5 DEF onFilter, e
    <2> QED
      BY <2>1, <2>2, WrittenShown
  <1>6. ASSUME Commit PROVE ShownOK'
    <2>1. /\ Rendered(Entry, box) /\ here' = here /\ shown \in WithFilter /\ ~broken
          /\ shown' = shown /\ pending' = pending /\ broken' = broken
      BY <1>6 DEF Commit, rest
    <2> QED
      BY <1>1, <2>1, RenderedShown
  <1> QED
    BY <1>2, <1>4, <1>5, <1>6

\* The settings are changed where they are on display, so in an entry with a
\* view of its own: not even another default layout changes its page.
LEMMA SettingsShown ==
    ASSUME IInv, ShownOK, SettingsComponent
    PROVE  ShownOK'
  <1>1. Good(Entry) /\ here \in DOMAIN history /\ here \in 1..Len(history) /\ Len(history) \in Nat
    BY EntryGood, EntryOfGood DEF IInv, HistoryOK
  <1>2. ASSUME pending = "no", shown = "settings" PROVE Entry.id = "settings" /\ Entry.id # Unset
    BY <1>2 DEF ShownOK, PageOf, DefaultLayout
  <1>3. ASSUME NEW key, NEW value, Set(key, value) PROVE ShownOK'
    <2> DEFINE e == Write(Entry, key, value)
    <2>1. e.id = Entry.id
      BY <1>1 DEF Write, Good, EntryOK
    <2> HIDE DEF e
    <2>2. /\ history' = [history EXCEPT ![here] = e] /\ shown = "settings"
          /\ UNCHANGED <<here, shown, pending, box, rest>>
      BY <1>3 DEF Set, OnPage, e
    <2>3. pending = "no" => PageOf(e) = PageOf(Entry)
      BY <1>2, <2>1, <2>2 DEF PageOf
    <2> QED
      BY <2>2, <2>3, WrittenShown
  <1>4. ASSUME NEW e, here' = (IF e = Entry THEN here ELSE here + 1)
        PROVE  /\ here' \in 1..Len(Pushed(e)) /\ Pushed(e)[here'] = e
               /\ DOMAIN Pushed(e) = 1..Len(Pushed(e))
    <2>1. PICK T : history \in Seq(T) /\ e \in T
      <3>1. PICK S : history \in Seq(S)
        BY DEF IInv, HistoryOK, GoodHistory
      <3>2. history \in Seq(S \cup {e})
        BY <3>1
      <3> QED
        BY <3>2
    <2>2. CASE e = Entry
      BY <1>1, <1>4, <2>1, <2>2 DEF Pushed, Entry
    <2>3. CASE e # Entry
      <3>1. SubSeq(history, 1, here) \in Seq(T) /\ Len(SubSeq(history, 1, here)) = here
        BY <1>1, <2>1
      <3>2. /\ Append(SubSeq(history, 1, here), e)[here + 1] = e
            /\ Len(Append(SubSeq(history, 1, here), e)) = here + 1
            /\ Append(SubSeq(history, 1, here), e) \in Seq(T)
        BY <2>1, <3>1
      <3> QED
        BY <1>1, <1>4, <2>3, <3>2 DEF Pushed
    <2> QED
      BY <2>2, <2>3
  <1>5. ASSUME RefreshIntervalRow PROVE ShownOK'
    <2>1. PICK interval \in {"off", "on"} :
              LET e == [Entry EXCEPT !.interval = interval] IN
              history' = Pushed(e) /\ here' = IF e = Entry THEN here ELSE here + 1
      BY <1>5 DEF RefreshIntervalRow
    <2> DEFINE e == [Entry EXCEPT !.interval = interval]
    <2>2. e.id = Entry.id /\ e.keys = Entry.keys
      BY <1>1 DEF Good, EntryOK
    <2>3. history' = Pushed(e) /\ here' = IF e = Entry THEN here ELSE here + 1
      BY <2>1
    <2> HIDE DEF e
    <2>4. Entry' = e
      BY <1>4, <2>3 DEF Entry
    <2>5. PageOf(Entry') = PageOf(Entry)
      BY <2>2, <2>4, SamePage
    <2> QED
      BY <1>5, <2>5 DEF RefreshIntervalRow, ShownOK, rest
  <1>6. ASSUME resetDefaults PROVE ShownOK'
    <2> DEFINE based == [Entry EXCEPT !.base = "path"]
               keys == [key \in Replaced |-> IF key \in Preferences THEN Served[key] ELSE based.keys[key]]
               served == [based EXCEPT !.keys = keys]
    <2>1. served.id = Entry.id
      BY <1>1 DEF Good, EntryOK
    <2>2. /\ here' = IF based = Entry THEN here ELSE here + 1
          /\ history' = [Pushed(based) EXCEPT ![here'] = served]
      BY <1>6 DEF resetDefaults
    <2> HIDE DEF served, based
    <2>3. Entry' = served
      BY <1>4, <2>2 DEF Entry
    <2>4. shown = "settings" /\ UNCHANGED <<shown, pending, box, rest>>
      BY <1>6 DEF resetDefaults, OnPage
    <2>5. pending = "no" => PageOf(Entry') = PageOf(Entry)
      BY <1>2, <2>1, <2>3, <2>4 DEF PageOf
    <2> QED
      BY <2>4, <2>5 DEF ShownOK, rest
  <1>7. DarkModeRow \/ ShowNavLabelsRow \/ ShowNamesButtonsRow => \E key, value : Set(key, value)
    BY DEF DarkModeRow, ShowNavLabelsRow, ShowNamesButtonsRow, Undo
  <1>8. TableSizeRow \/ CenteredLayoutRow \/ DefaultLayoutRow => \E key, value : Set(key, value)
    BY DEF TableSizeRow, CenteredLayoutRow, DefaultLayoutRow, Undo
  <1>9. HiddenServiceStatesRow \/ TimeZoneRow \/ LocaleRow => \E key, value : Set(key, value)
    BY DEF HiddenServiceStatesRow, TimeZoneRow, LocaleRow, Undo
  <1> QED
    BY <1>3, <1>5, <1>6, <1>7, <1>8, <1>9 DEF SettingsComponent

\* Back and Forward wait for an answer unless it is the one there is.
LEMMA GoShown ==
    ASSUME IInv, ShownOK, NEW i \in DOMAIN history, Go(i)
    PROVE  ShownOK'
  <1>1. i \in 1..Len(history) /\ Good(history[i]) /\ here' = i
    BY EntryOfGood DEF IInv, HistoryOK, Go
  <1>2. pending' = "no" => pending = "no" /\ PageOf(history[i]) = PageOf(Entry)
    BY DEF Go, Asks
  <1>3. shown' = shown /\ broken' = broken
    BY DEF Go, rest
  <1>4. CASE shown \in WithFilter /\ pending' # "hidden" /\ ~broken
    BY <1>1, <1>2, <1>3, <1>4, RenderedShown DEF Go
  <1>5. CASE ~(shown \in WithFilter /\ pending' # "hidden" /\ ~broken)
    <2>1. history' = history /\ box' = box
      BY <1>5 DEF Go
    <2>2. Entry' = history[i]
      BY <1>1, <2>1 DEF Entry
    <2>3. broken => pending' = "hidden"
      BY DEF Go, ShownOK
    <2> QED
      BY <1>2, <1>3, <2>1, <2>2, <2>3 DEF ShownOK
  <1> QED
    BY <1>4, <1>5

LEMMA AnswerShown ==
    ASSUME IInv, ShownOK, Answer
    PROVE  ShownOK'
  <1>1. Good(Entry) /\ here' = here /\ here \in 1..Len(history)
    BY EntryGood DEF IInv, HistoryOK, Answer
  <1>2. shown' = PageOf(Entry) /\ ~broken /\ broken' = broken
    BY DEF Answer, rest
  <1>3. CASE shown' \in WithFilter
    <2> DEFINE old == IF shown' = shown THEN box ELSE Closed
    <2> HIDE DEF old
    <2>1. Rendered(Entry, old)
      BY <1>3 DEF Answer, old
    <2>2. PageOf(Entry') = PageOf(Entry) /\ box'.open = TRUE
      BY <1>1, <2>1, RenderedPage
    <2> QED
      BY <1>2, <1>3, <2>2 DEF ShownOK
  <1>4. CASE shown' \notin WithFilter
    <2>1. box' = Closed /\ history' = history
      BY <1>4 DEF Answer
    <2>2. Entry' = Entry /\ box'.open = FALSE
      BY <1>1, <2>1 DEF Entry, Closed
    <2> QED
      BY <1>2, <1>4, <2>2 DEF ShownOK
  <1> QED
    BY <1>3, <1>4

LEMMA StepShown ==
    ASSUME IInv, ShownOK, [Next]_vars
    PROVE  ShownOK'
  <1>1. CASE \/ \E value \in Words : changeFilterValue(value)
             \/ \E type \in {"service", "stack"} : changeFilterType(type) \/ \E name \in Words : onFilter(type, name)
             \/ Commit
    BY <1>1, BoxShown
  <1>2. CASE (\E id \in Pages : navigate(id)) \/ handleShowLogs \/ Debug \/ handleSort("Slot")
    BY <1>2, SetViewShown DEF navigate, handleShowLogs, Debug, handleSort
  <1>3. CASE \E page \in {"nodesDetail", "servicesDetail"} : \E id \in Nodes \cup Services : onOpen(page, id)
    BY <1>3, SetViewShown DEF onOpen, Open
  <1>4. CASE (\E t \in Tasks : OpenTask(t)) \/ \E id \in {"dashboardH", "dashboardV"} : SwitchLayout(id)
    BY <1>4, SetViewShown DEF OpenTask, SwitchLayout
  <1>5. CASE Tick \/ refreshAndNotifyUser
    BY <1>5, ReloadShown DEF Tick, refreshAndNotifyUser
  <1>6. CASE SettingsComponent
    BY <1>6, SettingsShown
  <1>7. CASE \E i \in DOMAIN history : Go(i)
    BY <1>7, GoShown
  <1>8. CASE Answer
    BY <1>8, AnswerShown
  <1>9. CASE Fail
    BY <1>9 DEF Fail, ShownOK, Closed, WithFilter
  <1>10. CASE retry \/ UNCHANGED vars
    <2>1. UNCHANGED <<history, here, shown, pending, box>> /\ (broken' = broken \/ broken' = FALSE)
      BY <1>10 DEF retry, vars, rest
    <2> QED
      BY <2>1 DEF ShownOK, Entry
  <1> QED
    BY <1>1, <1>2, <1>3, <1>4, <1>5, <1>6, <1>7, <1>8, <1>9, <1>10 DEF Next

LEMMA InitShown ==
    ASSUME Init PROVE ShownOK
  BY DEF Init, ShownOK, Closed, WithFilter

THEOREM ShownAlways == Spec => []ShownOK
  <1>1. IInv /\ ShownOK /\ [Next]_vars => ShownOK'
    BY StepShown
  <1>2. Init => ShownOK
    BY InitShown
  <1> QED
    BY <1>1, <1>2, Inductive, PTL DEF Spec

\* Once nothing is waited for, the page and the box on display are those of the
\* URL, whatever has been clicked, gone back to, or failed and retried before.
THEOREM UrlIsShownHolds == Spec => []UrlIsShown
  <1>1. IInv /\ ShownOK => UrlIsShown
    BY DEF ShownOK, UrlIsShown
  <1> QED
    BY <1>1, Inductive, ShownAlways, PTL

-----------------------------------------------------------------------------
(* The filter box.                                                         *)

\* The type of an entry is that of its filter, whether they are from the hash
\* or from the server.
Typed(e) ==
    /\ Value(e, "serviceNameFilter") # "" => Value(e, "filterType") = "service"
    /\ Value(e, "serviceNameFilter") = "" /\ Value(e, "stackNameFilter") # "" => Value(e, "filterType") = "stack"

\* What the tab is opened with: the bare URL, so the defaults of the server,
\* and links copied from other tabs.
LinksTyped == \A link \in Links : Typed(link)

TypedHistory(h) == \A i \in DOMAIN h : Typed(h[i])

\* A box says the filters its effect has seen.
Synced(b) == b.value = IF b.service # "" THEN b.service ELSE b.stack

BoxInv == TypedHistory(history) /\ (box.open => Synced(box) /\ box.type \in {"service", "stack"})

LEMMA SameKeysTyped ==
    ASSUME NEW e, Typed(e), NEW f,
           \A key \in Filters : f.keys[key] = e.keys[key]
    PROVE  Typed(f)
  BY DEF Typed, Value, Filters

\* Written together, the type and the filter agree.
LEMMA WriteFilterTyped ==
    ASSUME NEW e, Good(e), NEW type \in {"service", "stack"}, NEW value \in Words
    PROVE  LET f == WriteFilter(e, type, value)
               g == WriteFilter(Write(e, "filterType", type), type, value)
           IN  /\ Value(f, "serviceNameFilter") = (IF type = "service" THEN value ELSE "")
               /\ Value(f, "stackNameFilter") = (IF type = "service" THEN "" ELSE value)
               /\ Typed(g)
  <1> DEFINE Both(x, service, stack) == Write(Write(x, "serviceNameFilter", service), "stackNameFilter", stack)
             service == IF type = "service" THEN value ELSE ""
             stack == IF type = "service" THEN "" ELSE value
             f == WriteFilter(e, type, value)
             g == WriteFilter(Write(e, "filterType", type), type, value)
  <1>1. value # Unset /\ "" # Unset /\ type # Unset
    BY ServedAssumption
  <1>2. service # Unset /\ stack # Unset /\ (type = "service" => stack = "") /\ (type = "stack" => service = "")
    BY <1>1
  <1>3. f = Both(e, service, stack) /\ g = Both(Write(e, "filterType", type), service, stack)
    BY DEF WriteFilter
  <1> HIDE DEF service, stack, f, g
  <1>4. ASSUME NEW x, Good(x)
        PROVE  /\ Both(x, service, stack).keys["serviceNameFilter"] = service
               /\ Both(x, service, stack).keys["stackNameFilter"] = stack
               /\ Both(x, service, stack).keys["filterType"] = x.keys["filterType"]
    BY <1>4 DEF Write, Good, EntryOK, Replaced, Filters
  <1>5. Good(Write(e, "filterType", type)) /\ Write(e, "filterType", type).keys["filterType"] = type
    BY WriteGood DEF Write, Good, EntryOK, Replaced, Filters
  <1>6. f.keys["serviceNameFilter"] = service /\ f.keys["stackNameFilter"] = stack
    BY <1>3, <1>4
  <1>7. /\ g.keys["serviceNameFilter"] = service /\ g.keys["stackNameFilter"] = stack
        /\ g.keys["filterType"] = type
    BY <1>3, <1>4, <1>5
  <1>8. Typed(g)
    BY <1>1, <1>2, <1>7 DEF Typed, Value
  <1>9. Value(f, "serviceNameFilter") = service /\ Value(f, "stackNameFilter") = stack
    BY <1>2, <1>6 DEF Value
  <1> QED
    BY <1>8, <1>9 DEF f, g, service, stack

\* The effect runs, and writes the type of the filter; or it does not, and the
\* entry and the box it keeps are as they should be.
LEMMA EffectTyped ==
    ASSUME NEW e, Good(e), NEW old,
           \/ ~old.open \/ old.service # Value(e, "serviceNameFilter") \/ old.stack # Value(e, "stackNameFilter")
           \/ Typed(e) /\ Synced(old)
    PROVE  /\ Typed(Effect(e, old).entry)
           /\ Synced(Effect(e, old).box) /\ Effect(e, old).box.type \in {"service", "stack"}
  <1> DEFINE service == Value(e, "serviceNameFilter")
             stack == Value(e, "stackNameFilter")
             runs == ~old.open \/ old.service # service \/ old.stack # stack
             typed == IF runs /\ service # "" THEN Write(e, "filterType", "service")
                      ELSE IF runs /\ stack # "" THEN Write(e, "filterType", "stack") ELSE e
             type == Value(typed, "filterType")
             value == IF ~runs THEN old.value ELSE IF service # "" THEN service ELSE stack
  <1>1. ASSUME NEW t \in {"service", "stack"}
        PROVE  /\ Value(Write(e, "filterType", t), "serviceNameFilter") = service
               /\ Value(Write(e, "filterType", t), "stackNameFilter") = stack
               /\ Value(Write(e, "filterType", t), "filterType") = t
    <2>1. Write(e, "filterType", t).keys = [e.keys EXCEPT !["filterType"] = t]
      BY DEF Write, Good, EntryOK
    <2>2. t # Unset
      BY ServedAssumption
    <2> QED
      BY <2>1, <2>2 DEF Value, Good, EntryOK, Replaced, Filters
  <1>2. Typed(typed)
    <2>1. CASE runs /\ service # ""
      BY <1>1, <2>1 DEF Typed
    <2>2. CASE runs /\ service = "" /\ stack # ""
      BY <1>1, <2>2 DEF Typed
    <2>3. CASE runs /\ service = "" /\ stack = ""
      BY <2>3 DEF Typed
    <2>4. CASE ~runs
      BY <2>4
    <2> QED
      BY <2>1, <2>2, <2>3, <2>4
  <1>3. type \in {"service", "stack"}
    BY WriteGood, FiltersAreWords
  <1>4. value = IF service # "" THEN service ELSE stack
    <2>1. CASE ~runs
      BY <2>1 DEF Synced
    <2>2. CASE runs
      BY <2>2
    <2> QED
      BY <2>1, <2>2
  <1> HIDE DEF service, stack, runs, typed, type, value
  <1>5. /\ Effect(e, old).entry = typed
        /\ Effect(e, old).box =
              [open |-> TRUE, type |-> type, service |-> service, stack |-> stack, value |-> value]
    BY DEF Effect, service, stack, runs, typed, type, value
  <1>6. /\ Effect(e, old).box.type = type /\ Effect(e, old).box.value = value
        /\ Effect(e, old).box.service = service /\ Effect(e, old).box.stack = stack
    BY <1>5
  <1> QED
    BY <1>2, <1>3, <1>4, <1>5, <1>6 DEF Synced

LEMMA RenderedTyped ==
    ASSUME IInv, TypedHistory(history), NEW e, Good(e), NEW old, here' \in 1..Len(history), Rendered(e, old),
           \/ ~old.open \/ old.service # Value(e, "serviceNameFilter") \/ old.stack # Value(e, "stackNameFilter")
           \/ Typed(e) /\ Synced(old)
    PROVE  BoxInv'
  <1> DEFINE done == Effect(e, old)
  <1>1. Typed(done.entry) /\ Synced(done.box) /\ done.box.type \in {"service", "stack"}
    BY EffectTyped
  <1> HIDE DEF done
  <1>2. history' = [history EXCEPT ![here'] = done.entry] /\ box' = done.box
    BY DEF Rendered, done
  <1>3. DOMAIN history' = DOMAIN history
    BY <1>2
  <1>4. \A i \in DOMAIN history' : history'[i] = IF i = here' THEN done.entry ELSE history[i]
    BY <1>2
  <1>5. TypedHistory(history')
    BY <1>1, <1>3, <1>4 DEF TypedHistory
  <1> QED
    BY <1>1, <1>2, <1>5 DEF BoxInv

-----------------------------------------------------------------------------
(* Steps.                                                                  *)

\* Every entry there is afterwards was there, or has the filters of one that was.
LEMMA KeptTyped ==
    ASSUME BoxInv, box' = box,
           \A i \in DOMAIN history' : \E j \in DOMAIN history :
               \A key \in Filters : history'[i].keys[key] = history[j].keys[key]
    PROVE  BoxInv'
  <1>1. ASSUME NEW i \in DOMAIN history' PROVE Typed(history'[i])
    <2>1. PICK j \in DOMAIN history : \A key \in Filters : history'[i].keys[key] = history[j].keys[key]
      OBVIOUS
    <2>2. Typed(history[j])
      BY DEF BoxInv, TypedHistory
    <2> QED
      BY <2>1, <2>2, SameKeysTyped
  <1> QED
    BY <1>1 DEF BoxInv, TypedHistory

\* The entries of a tab after a push are those before it, and the one pushed.
LEMMA PushedEntries ==
    ASSUME NEW h, NEW T, h \in Seq(T), NEW i \in 1..Len(h), NEW e
    PROVE  LET p == Append(SubSeq(h, 1, i), e) IN
           /\ DOMAIN p = 1..(i + 1)
           /\ \A j \in DOMAIN p : p[j] = IF j = i + 1 THEN e ELSE h[j]
           /\ \A j \in DOMAIN p : j # i + 1 => j \in DOMAIN h
  <1>1. SubSeq(h, 1, i) \in Seq(T) /\ Len(SubSeq(h, 1, i)) = i /\ \A j \in 1..i : SubSeq(h, 1, i)[j] = h[j]
    OBVIOUS
  <1>2. SubSeq(h, 1, i) \in Seq(T \cup {e}) /\ e \in T \cup {e}
    BY <1>1
  <1> QED
    BY <1>1, <1>2

LEMMA SetViewTyped ==
    ASSUME IInv, BoxInv, NEW e, e.keys = Entry.keys, NEW how, SetView(e, how)
    PROVE  BoxInv'
  <1>1. box' = box /\ history' = Pushed(e)
    BY DEF SetView
  <1>2. here \in 1..Len(history) /\ here \in DOMAIN history
    BY EntryOfGood DEF IInv, HistoryOK
  <1>3. PICK T : history \in Seq(T)
    BY DEF IInv, HistoryOK, GoodHistory
  <1>4. \A i \in DOMAIN Pushed(e) : \E j \in DOMAIN history : Pushed(e)[i].keys = history[j].keys
    <2>1. CASE e = Entry
      BY <2>1 DEF Pushed
    <2>2. CASE e # Entry
      <3> DEFINE p == Append(SubSeq(history, 1, here), e)
      <3>1. /\ \A j \in DOMAIN p : p[j] = IF j = here + 1 THEN e ELSE history[j]
            /\ \A j \in DOMAIN p : j # here + 1 => j \in DOMAIN history
        BY <1>2, <1>3, PushedEntries
      <3>2. Pushed(e) = p
        BY <2>2 DEF Pushed
      <3> HIDE DEF p
      <3>3. e.keys = history[here].keys
        BY DEF Entry
      <3> QED
        BY <1>2, <3>1, <3>2, <3>3
    <2> QED
      BY <2>1, <2>2
  <1> QED
    BY <1>1, <1>4, KeptTyped

\* The box: what is typed is not what it says, so that its effect runs.
LEMMA BoxStepTyped ==
    ASSUME IInv, ShownOK, BoxInv,
           \/ \E value \in Words : changeFilterValue(value)
           \/ \E type \in {"service", "stack"} : changeFilterType(type) \/ \E name \in Words : onFilter(type, name)
           \/ Commit
    PROVE  BoxInv'
  <1>1. Good(Entry) /\ here \in 1..Len(history) /\ here \in DOMAIN history /\ box.value \in Words
    BY EntryGood, EntryOfGood DEF IInv, HistoryOK, BoxOK
  <1>2. Typed(Entry) /\ TypedHistory(history)
    BY <1>1 DEF BoxInv, TypedHistory, Entry
  <1>3. ASSUME shown \in WithFilter PROVE box.open /\ Synced(box) /\ box.type \in {"service", "stack"}
    BY <1>3 DEF ShownOK, BoxInv
  <1>4. ASSUME NEW value \in Words, changeFilterValue(value) PROVE BoxInv'
    <2> DEFINE e == WriteFilter(Entry, box.type, value)
               old == [box EXCEPT !.value = value]
    <2>1. box.type \in {"service", "stack"} /\ Synced(box) /\ value # box.value
      BY <1>3, <1>4 DEF changeFilterValue, OnPage
    <2>2. /\ Value(e, "serviceNameFilter") = (IF box.type = "service" THEN value ELSE "")
          /\ Value(e, "stackNameFilter") = (IF box.type = "service" THEN "" ELSE value)
      BY ONLY <1>1, <2>1, value \in Words, WriteFilterTyped
    <2>3. Good(e)
      BY <1>1, WriteFilterGood
    <2>4. old.service = box.service /\ old.stack = box.stack
      BY DEF IInv, BoxOK
    <2>5. old.service # Value(e, "serviceNameFilter") \/ old.stack # Value(e, "stackNameFilter")
      BY <2>1, <2>2, <2>4 DEF Synced
    <2> HIDE DEF e, old
    <2>6. Rendered(e, old) /\ here' = here
      BY <1>4 DEF changeFilterValue, e, old
    <2> QED
      BY <1>1, <1>2, <2>3, <2>5, <2>6, RenderedTyped
  <1>5. ASSUME NEW type \in {"service", "stack"}, changeFilterType(type) PROVE BoxInv'
    <2> DEFINE e == WriteFilter(Write(Entry, "filterType", type), type, box.value)
    <2>1. Good(e) /\ Typed(e)
      BY <1>1, WriteFilterTyped, WriteGood, WriteFilterGood
    <2> HIDE DEF e
    <2>2. Rendered(e, box) /\ here' = here /\ shown \in WithFilter
      BY <1>5 DEF changeFilterType, OnPage, e
    <2> QED
      BY <1>1, <1>2, <1>3, <2>1, <2>2, RenderedTyped
  <1>6. ASSUME NEW type \in {"service", "stack"}, NEW name \in Words, onFilter(type, name) PROVE BoxInv'
    <2> DEFINE e == WriteFilter(Write(Entry, "filterType", type), type, name)
    <2>1. Typed(e)
      BY <1>1, WriteFilterTyped
    <2> HIDE DEF e
    <2>2. history' = [history EXCEPT ![here] = e] /\ box' = box
      BY <1>6 DEF onFilter, e
    <2>3. DOMAIN history' = DOMAIN history
          /\ \A i \in DOMAIN history' : history'[i] = IF i = here THEN e ELSE history[i]
      BY <2>2
    <2>4. TypedHistory(history')
      BY <1>2, <2>1, <2>3 DEF TypedHistory
    <2> QED
      BY <2>2, <2>4 DEF BoxInv
  <1>7. ASSUME Commit PROVE BoxInv'
    <2>1. Rendered(Entry, box) /\ here' = here /\ shown \in WithFilter
      BY <1>7 DEF Commit
    <2> QED
      BY <1>1, <1>2, <1>3, <2>1, RenderedTyped
  <1> QED
    BY <1>4, <1>5, <1>6, <1>7

\* A reload copies the entry there is, once or twice.
LEMMA ReloadTyped ==
    ASSUME IInv, BoxInv, NEW before, before = <<>> \/ before = <<[Entry EXCEPT !.interval = "off"]>>,
           reloadData(before)
    PROVE  BoxInv'
  <1> DEFINE off == [Entry EXCEPT !.interval = "off"]
             last == [(IF before = <<>> THEN Entry ELSE before[1]) EXCEPT !.timestamp = ops']
             kept == SubSeq(history, 1, here)
  <1>1. here \in 1..Len(history) /\ here \in DOMAIN history /\ Len(history) \in Nat
    BY EntryOfGood DEF IInv, HistoryOK
  <1>2. off.keys = Entry.keys
    BY EntryGood DEF Good, EntryOK
  <1>3. (IF before = <<>> THEN Entry ELSE before[1]) \in {Entry, off}
    <2> HIDE DEF off
    <2>1. before = <<>> \/ before = <<off>>
      BY DEF off
    <2> QED
      BY <2>1
  <1>4. last.keys = Entry.keys
    <2>1. DOMAIN Entry = DOMAIN off /\ "keys" \in DOMAIN Entry
      BY EntryGood DEF Good, EntryOK
    <2> QED
      BY <1>2, <1>3, <2>1, EntryGood DEF Good, EntryOK
  <1>5. PICK T : history \in Seq(T)
    BY DEF IInv, HistoryOK, GoodHistory
  <1>6. kept \in Seq(T) /\ Len(kept) = here /\ \A i \in 1..here : kept[i] = history[i]
    BY <1>1, <1>5
  <1> HIDE DEF off, last, kept
  <1>7. before = <<>> \/ before = <<off>>
    BY DEF off
  <1>8. history' = (kept \o before) \o <<last>> /\ box' = box
    BY DEF reloadData, kept, last
  <1>9. \A i \in DOMAIN history' : history'[i] \in {history[j] : j \in 1..here} \cup {off, last}
    <2> DEFINE S == {history[j] : j \in 1..here} \cup {off, last}
    <2>1. \A i \in 1..here : history[i] \in S
      OBVIOUS
    <2>2. kept \in Seq(S) /\ off \in S /\ last \in S
      <3>1. \A i \in 1..Len(kept) : kept[i] \in S
        BY <1>6, <2>1
      <3> HIDE DEF S
      <3>2. kept \in Seq(S)
        BY <1>6, <3>1
      <3> QED
        BY <3>2 DEF S
    <2> HIDE DEF S
    <2>3. history' \in Seq(S)
      <3>1. kept \o <<>> \in Seq(S) /\ kept \o <<off>> \in Seq(S)
        BY <2>2
      <3>2. kept \o before \in Seq(S)
        BY <1>7, <3>1
      <3> QED
        BY <1>8, <2>2, <3>2
    <2>4. \A i \in DOMAIN history' : history'[i] \in S
      BY <2>3
    <2> QED
      BY <2>4 DEF S
  <1>10. ASSUME NEW i \in DOMAIN history' PROVE \E j \in DOMAIN history : history'[i].keys = history[j].keys
    <2>1. CASE history'[i] \in {off, last}
      BY <1>1, <1>2, <1>4, <2>1 DEF Entry
    <2>2. CASE \E j \in 1..here : history'[i] = history[j]
      <3>1. \A j \in 1..here : j \in DOMAIN history
        BY <1>1, <1>5
      <3> QED
        BY <2>2, <3>1
    <2> QED
      BY <1>9, <2>1, <2>2
  <1> QED
    BY <1>8, <1>10, KeptTyped

\* No row of the settings page is about the filters, and their reset keeps them.
LEMMA SettingsTyped ==
    ASSUME IInv, BoxInv, SettingsComponent
    PROVE  BoxInv'
  <1>1. here \in 1..Len(history) /\ here \in DOMAIN history /\ Good(Entry)
    BY EntryGood, EntryOfGood DEF IInv, HistoryOK
  <1>2. PICK T : history \in Seq(T)
    BY DEF IInv, HistoryOK, GoodHistory
  <1>3. ASSUME NEW key \in Preferences, NEW value, Set(key, value) PROVE BoxInv'
    <2> DEFINE e == Write(Entry, key, value)
    <2>1. \A k \in Filters : e.keys[k] = Entry.keys[k]
      BY <1>1 DEF Write, Good, EntryOK, Filters, Preferences, Replaced
    <2> HIDE DEF e
    <2>2. history' = [history EXCEPT ![here] = e] /\ box' = box
      BY <1>3 DEF Set, e
    <2>3. DOMAIN history' = DOMAIN history
          /\ \A i \in DOMAIN history' : history'[i] = IF i = here THEN e ELSE history[i]
      BY <2>2
    <2>4. \A i \in DOMAIN history' : \A k \in Filters : history'[i].keys[k] = history[i].keys[k]
      BY <2>1, <2>3 DEF Entry
    <2> QED
      BY <2>2, <2>3, <2>4, KeptTyped
  <1>4. ASSUME NEW e, NEW p, p = Pushed(e), e.keys = Entry.keys
        PROVE  \A i \in DOMAIN p : \E j \in DOMAIN history : p[i].keys = history[j].keys
    <2>1. CASE e = Entry
      BY <1>4, <2>1 DEF Pushed
    <2>2. CASE e # Entry
      <3> DEFINE q == Append(SubSeq(history, 1, here), e)
      <3>1. /\ \A j \in DOMAIN q : q[j] = IF j = here + 1 THEN e ELSE history[j]
            /\ \A j \in DOMAIN q : j # here + 1 => j \in DOMAIN history
        BY <1>1, <1>2, PushedEntries
      <3>2. p = q
        BY <1>4, <2>2 DEF Pushed
      <3> HIDE DEF q
      <3>3. e.keys = history[here].keys
        BY <1>4 DEF Entry
      <3> QED
        BY <1>1, <3>1, <3>2, <3>3
    <2> QED
      BY <2>1, <2>2
  <1>5. ASSUME RefreshIntervalRow PROVE BoxInv'
    <2>1. PICK interval \in {"off", "on"} : history' = Pushed([Entry EXCEPT !.interval = interval])
      BY <1>5 DEF RefreshIntervalRow
    <2> DEFINE e == [Entry EXCEPT !.interval = interval]
    <2>2. e.keys = Entry.keys /\ history' = Pushed(e)
      BY <1>1, <2>1 DEF Good, EntryOK
    <2> HIDE DEF e
    <2>3. \A i \in DOMAIN history' : \E j \in DOMAIN history : history'[i].keys = history[j].keys
      BY <1>4, <2>2
    <2> QED
      BY <1>5, <2>3, KeptTyped DEF RefreshIntervalRow
  <1>6. ASSUME resetDefaults PROVE BoxInv'
    <2> DEFINE based == [Entry EXCEPT !.base = "path"]
               keys == [key \in Replaced |-> IF key \in Preferences THEN Served[key] ELSE based.keys[key]]
               served == [based EXCEPT !.keys = keys]
               entries == Pushed(based)
    <2>1. based.keys = Entry.keys
      BY <1>1 DEF Good, EntryOK
    <2>2. \A k \in Filters : served.keys[k] = Entry.keys[k]
      <3>1. served.keys = keys
        BY <1>1 DEF Good, EntryOK
      <3>2. \A k \in Filters : k \in Replaced /\ k \notin Preferences
        BY DEF Filters, Replaced, Preferences
      <3> HIDE DEF served
      <3> QED
        BY <2>1, <3>1, <3>2
    <2>3. history' = [entries EXCEPT ![here'] = served] /\ box' = box
      BY <1>6 DEF resetDefaults
    <2> HIDE DEF based
    <2>4. \A i \in DOMAIN entries : \E j \in DOMAIN history : entries[i].keys = history[j].keys
      BY <1>4, <2>1
    <2> HIDE DEF served, entries
    <2>5. DOMAIN history' = DOMAIN entries
          /\ \A i \in DOMAIN history' : history'[i] = IF i = here' THEN served ELSE entries[i]
      BY <2>3
    <2>6. \A k \in Filters : served.keys[k] = history[here].keys[k]
      BY <2>2 DEF Entry
    <2>7. \A i \in DOMAIN history' : \E j \in DOMAIN history :
              \A k \in Filters : history'[i].keys[k] = history[j].keys[k]
      BY <1>1, <2>4, <2>5, <2>6
    <2> QED
      BY <2>3, <2>7, KeptTyped
  <1> DEFINE Sets == \E key \in Preferences : \E value : Set(key, value)
  <1>7. /\ "darkMode" \in Preferences /\ "tablesize" \in Preferences /\ "maxContentWidth" \in Preferences
        /\ "showNavLabels" \in Preferences /\ "showNamesButtons" \in Preferences
        /\ "defaultLayout" \in Preferences /\ "hiddenServiceStates" \in Preferences
        /\ "timeZone" \in Preferences /\ "locale" \in Preferences
    BY DEF Preferences
  <1>8. DarkModeRow \/ ShowNavLabelsRow \/ ShowNamesButtonsRow => Sets
    BY <1>7 DEF DarkModeRow, ShowNavLabelsRow, ShowNamesButtonsRow, Undo
  <1>9. TableSizeRow \/ CenteredLayoutRow \/ DefaultLayoutRow => Sets
    BY <1>7 DEF TableSizeRow, CenteredLayoutRow, DefaultLayoutRow, Undo
  <1>10. HiddenServiceStatesRow \/ TimeZoneRow \/ LocaleRow => Sets
    BY <1>7 DEF HiddenServiceStatesRow, TimeZoneRow, LocaleRow, Undo
  <1>11. ASSUME Sets PROVE BoxInv'
    BY <1>3, <1>11
  <1> QED
    BY <1>5, <1>6, <1>8, <1>9, <1>10, <1>11 DEF SettingsComponent

LEMMA GoOrAnswerTyped ==
    ASSUME IInv, ShownOK, BoxInv, (\E i \in DOMAIN history : Go(i)) \/ Answer
    PROVE  BoxInv'
  <1>1. ASSUME NEW i \in DOMAIN history, Go(i) PROVE BoxInv'
    <2>1. here' \in 1..Len(history) /\ Good(history[i]) /\ Typed(history[i])
      BY <1>1, EntryOfGood DEF Go, IInv, HistoryOK, BoxInv, TypedHistory
    <2>2. CASE shown \in WithFilter /\ Rendered(history[i], box)
      <3>1. Synced(box) /\ TypedHistory(history)
        BY <2>2 DEF ShownOK, BoxInv
      <3> QED
        BY <2>1, <2>2, <3>1, RenderedTyped
    <2>3. CASE UNCHANGED <<history, box>>
      BY <2>3 DEF BoxInv
    <2> QED
      BY <1>1, <2>2, <2>3 DEF Go
  <1>2. ASSUME Answer PROVE BoxInv'
    <2>1. here' \in 1..Len(history) /\ Good(Entry) /\ Typed(Entry)
      BY <1>2, EntryGood, EntryOfGood DEF Answer, IInv, HistoryOK, BoxInv, TypedHistory, Entry
    <2>2. CASE Rendered(Entry, IF shown' = shown THEN box ELSE Closed)
      <3> DEFINE old == IF shown' = shown THEN box ELSE Closed
      <3>1. Synced(old) \/ ~old.open
        BY DEF BoxInv, Closed
      <3> HIDE DEF old
      <3>2. Rendered(Entry, old) /\ TypedHistory(history)
        BY <2>2 DEF old, BoxInv
      <3> QED
        BY <2>1, <3>1, <3>2, RenderedTyped
    <2>3. CASE box' = Closed /\ UNCHANGED history
      BY <2>3 DEF BoxInv, Closed
    <2> QED
      BY <1>2, <2>2, <2>3 DEF Answer
  <1> QED
    BY <1>1, <1>2

LEMMA StepTyped ==
    ASSUME IInv, ShownOK, BoxInv, [Next]_vars
    PROVE  BoxInv'
  <1>1. CASE \/ \E value \in Words : changeFilterValue(value)
             \/ \E type \in {"service", "stack"} : changeFilterType(type) \/ \E name \in Words : onFilter(type, name)
             \/ Commit
    BY <1>1, BoxStepTyped
  <1>2. CASE \/ \E id \in Pages : navigate(id)
             \/ \E page \in {"nodesDetail", "servicesDetail"} : \E id \in Nodes \cup Services : onOpen(page, id)
             \/ \E t \in Tasks : OpenTask(t)
             \/ \E id \in {"dashboardH", "dashboardV"} : SwitchLayout(id)
             \/ handleShowLogs \/ Debug \/ handleSort("Slot")
    <2> DEFINE Moved == \E e, how : e.keys = Entry.keys /\ SetView(e, how)
    <2>1. Moved
      <3>1. ASSUME NEW a, NEW b, NEW c
            PROVE  /\ [Entry EXCEPT !.id = a].keys = Entry.keys
                   /\ [Entry EXCEPT !.id = a, !.detail = b].keys = Entry.keys
                   /\ [Entry EXCEPT !.sortBy = a, !.descending = b].keys = Entry.keys
                   /\ NewView(a, b, c).keys = Entry.keys
        BY EntryGood DEF Good, EntryOK, NewView
      <3>2. ASSUME (\E id \in Pages : navigate(id)) \/ handleShowLogs \/ Debug PROVE Moved
        BY <3>1, <3>2 DEF navigate, handleShowLogs, Debug
      <3>3. ASSUME \E page \in {"nodesDetail", "servicesDetail"} : \E id \in Nodes \cup Services : onOpen(page, id)
            PROVE  Moved
        BY <3>1, <3>3 DEF onOpen, Open
      <3>4. ASSUME (\E t \in Tasks : OpenTask(t)) \/ \E id \in {"dashboardH", "dashboardV"} : SwitchLayout(id)
            PROVE  Moved
        BY <3>1, <3>4 DEF OpenTask, SwitchLayout
      <3>5. ASSUME handleSort("Slot") PROVE Moved
        <4> DEFINE again == Entry.sortBy = "Slot"
                   sortBy == IF again /\ Entry.descending THEN Unset ELSE "Slot"
                   f == [Entry EXCEPT !.sortBy = sortBy, !.descending = again /\ ~Entry.descending]
        <4>1. SetView(f, "hidden")
          BY <3>5 DEF handleSort
        <4>2. f.keys = Entry.keys
          BY <3>1
        <4> HIDE DEF f
        <4> QED
          BY <4>1, <4>2
      <3> HIDE DEF Moved
      <3> QED
        BY ONLY <1>2, <3>2, <3>3, <3>4, <3>5
    <2> QED
      BY <2>1, SetViewTyped
  <1>3. CASE Tick \/ refreshAndNotifyUser
    BY <1>3, ReloadTyped DEF Tick, refreshAndNotifyUser
  <1>4. CASE SettingsComponent
    BY <1>4, SettingsTyped
  <1>5. CASE (\E i \in DOMAIN history : Go(i)) \/ Answer
    BY <1>5, GoOrAnswerTyped
  <1>6. CASE Fail
    BY <1>6 DEF Fail, BoxInv, Closed
  <1>7. CASE retry \/ UNCHANGED vars
    BY <1>7 DEF retry, vars, BoxInv
  <1> QED
    BY <1>1, <1>2, <1>3, <1>4, <1>5, <1>6, <1>7 DEF Next

LEMMA InitTyped ==
    ASSUME LinksTyped, Init PROVE BoxInv
  <1>1. PICK link \in Links : history = <<link>>
    BY DEF Init
  <1>2. DOMAIN history = {1} /\ history[1] = link
    BY <1>1
  <1> QED
    BY <1>1, <1>2 DEF Init, Closed, BoxInv, TypedHistory, LinksTyped

\* A tab opened with a URL whose type is that of its filter: whenever the box
\* has seen the filters of the entry it says them and their type, so that the
\* next key changes the filter that is on display and no other.
THEOREM BoxAgreesHolds ==
    ASSUME LinksTyped
    PROVE  Spec => []BoxAgrees
  <1>1. Init => BoxInv
    BY InitTyped
  <1>2. IInv /\ ShownOK /\ BoxInv /\ [Next]_vars => BoxInv'
    BY StepTyped
  <1>3. IInv /\ BoxInv => BoxAgrees
    <2> SUFFICES ASSUME IInv, BoxInv PROVE BoxAgrees
      OBVIOUS
    <2>1. Typed(Entry)
      BY EntryOfGood DEF IInv, HistoryOK, BoxInv, TypedHistory, Entry
    <2> QED
      BY <2>1 DEF BoxAgrees, BoxInv, Typed, Synced, Read
  <1> QED
    BY <1>1, <1>2, <1>3, Inductive, ShownAlways, PTL DEF Spec
=============================================================================
