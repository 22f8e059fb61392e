---------------------------- MODULE StatusProofs ----------------------------
(***************************************************************************)
(* Proofs about StatusReport: whatever the handler calls, in whatever      *)
(* order and from however many goroutines, the slice of children is well   *)
(* formed, every call sends the span id of its own child, and the report   *)
(* of a handler that makes its calls one after another is complete.        *)
(***************************************************************************)
EXTENDS StatusReport, FiniteSetTheorems, WellFoundedInduction, TLAPS

ChildTrace(i) == [trace EXCEPT !.spanId = Append(@, i)]
Called == {c \in Call : idx[c] # 0}
Groups == {"inParam", "uri", "exp", "end"}

\* Labels of a call whose child is published.
Published == {"inParam", "header", "io", "load", "store", "report", "out", "end"}

-----------------------------------------------------------------------------
(* The inductive invariant.                                                *)

\* The write lock is held by the call that has appended and not published.
LockInv == \A c \in Call : pc[c] = "publish" <=> lock = c

\* The slice refers to the newest array and is as long as its content, but
\* for the child being appended, for which the array may have been copied.
SliceInv ==
    /\ Len(params) = slice.len
    /\ slice.arr = 0 => slice.cap = 0
    /\ IF lock = "none"
       THEN /\ slice.arr = Len(arrays)
            /\ slice.arr # 0 => Len(arrays[slice.arr]) = slice.len
       ELSE /\ Len(arrays) # 0
            /\ Len(arrays[Len(arrays)]) = slice.len + 1
            /\ slice.arr \in {Len(arrays), Len(arrays) - 1}
            /\ slice.arr # Len(arrays) => slice.len = slice.cap

\* An index belongs to one call, from the moment its child is published on.
IndexInv ==
    /\ \A c \in Call : idx[c] \in 0..slice.len
    /\ \A c \in Call : idx[c] # 0 => pc[c] \in Published \cup {"done"}
    /\ \A c \in Call : pc[c] \in Published => idx[c] # 0
    /\ \A c, d \in Call : c # d /\ idx[c] # 0 => idx[c] # idx[d]
    /\ slice.len = Cardinality(Called)

\* Every copy of a child, in whichever array, has the trace of its position.
TraceInv ==
    /\ \A a \in 1..Len(arrays) : \A i \in 1..Len(arrays[a]) :
         arrays[a][i].trace = ChildTrace(i)
    /\ \A c \in Call : sentTrace[c] # NoTrace =>
         idx[c] # 0 /\ sentTrace[c] = ChildTrace(idx[c])
    /\ \/ \A f \in Fields : trace.info[f] # "own"
       \/ /\ \A f \in Fields \ {"sourceIp"} : trace.info[f] = "own"
          /\ trace.spanId = <<1>>

\* What a call has filled in when it has come to its label.
Shown(c) == arrays[slice.arr][idx[c]].filled \cup params[idx[c]]
Progress(c) ==
    IF IsHttp(c)
    THEN /\ pc[c] # "inParam" => Shown(c) \cap {"inParam", "in"} # {}
         /\ pc[c] \in {"out", "end", "done"} => "uri" \in Shown(c)
         /\ pc[c] \in {"end", "done"} =>
              (IF outcome[c].err THEN "exp" ELSE "out") \in Shown(c)
         /\ pc[c] = "done" => "end" \in Shown(c)
    ELSE /\ pc[c] \in {"out", "end", "done"} => {"in", "end"} \subseteq Shown(c)
         /\ pc[c] \in {"end", "done"} => "out" \in Shown(c)
         /\ pc[c] = "done" => "uri" \in Shown(c)

\* Calls made one after another: one at a time, an append copies all that the
\* earlier ones filled in, and nothing they fill in is lost.
SequentialInv ==
    ~handler.concurrent =>
      /\ \A c, d \in Call : ~Idle(c) /\ ~Idle(d) => c = d
      /\ slice.arr # 0 => \A i \in 1..slice.len :
           arrays[Len(arrays)][i].filled = arrays[slice.arr][i].filled
      /\ \A c \in Call : idx[c] # 0 => Progress(c)

\* Once the report is sent no call is under way.
ReportInv == report # "none" => \A c \in Call : Idle(c)

IInv ==
    /\ TypeOK /\ LockInv /\ SliceInv /\ IndexInv /\ TraceInv
    /\ SequentialInv /\ ReportInv
-----------------------------------------------------------------------------
(* Helpers.                                                                *)

\* The parts of the type invariant that speak of the children.
ChildrenType ==
    /\ slice \in [arr : 0..Len(arrays), len : Nat, cap : Nat]
    /\ slice.arr = 0 => slice.len = 0
    /\ slice.arr # 0 => /\ slice.len <= Len(arrays[slice.arr])
                       /\ Len(arrays[slice.arr]) <= slice.cap
    /\ arrays \in Seq(Children_t)
    /\ params \in Seq(SUBSET {"in", "out"})
LabelsType == pc \in [Call -> Labels] /\ lock \in Call \cup {"none"}
CallsType ==
    /\ idx \in [Call -> 0..Cardinality(Call)]
    /\ sentTrace \in [Call -> Trace_t]
    /\ kind \in [Call -> handler.kinds \cup {"none"}]
    /\ outcome \in [Call -> [err : BOOLEAN, dur : handler.durations \cup {0}]]
    /\ loaded \in [Call -> Nat]
    /\ millis \in [http : Nat, sql : Nat]
    /\ ret \in [Call -> {"none", "nothing", "result", "error", "panic", "Status is Null"}]
RequestType ==
    /\ handler \in Handlers
    /\ trace \in Trace_t
    /\ report \in {"none", "sent", "lost"}

LEMMA TypeParts == TypeOK <=> ChildrenType /\ LabelsType /\ CallsType /\ RequestType
<1>1. ChildrenType => (IF slice.arr = 0 THEN slice.len = 0
                       ELSE slice.len <= Len(arrays[slice.arr])
                            /\ Len(arrays[slice.arr]) <= slice.cap)
  BY Zenon DEF ChildrenType
<1>2. (IF slice.arr = 0 THEN slice.len = 0
       ELSE slice.len <= Len(arrays[slice.arr]) /\ Len(arrays[slice.arr]) <= slice.cap)
      => /\ slice.arr = 0 => slice.len = 0
         /\ slice.arr # 0 => /\ slice.len <= Len(arrays[slice.arr])
                            /\ Len(arrays[slice.arr]) <= slice.cap
  BY Zenon
<1> QED BY <1>1, <1>2, Zenon DEF TypeOK, ChildrenType, LabelsType, CallsType, RequestType

LEMMA ChildTraceType == RequestType => \A i \in Nat : ChildTrace(i) \in Trace_t
<1> SUFFICES ASSUME RequestType, NEW i \in Nat PROVE ChildTrace(i) \in Trace_t
  OBVIOUS
<1>1. trace \in Trace_t
  BY DEF RequestType
<1>2. Append(trace.spanId, i) \in Seq(Nat)
  BY <1>1 DEF Trace_t
<1> QED BY <1>1, <1>2 DEF ChildTrace, Trace_t

\* A published index is a position of the slice, of its array and of the maps.
LEMMA IndexInRange ==
  ASSUME ChildrenType, SliceInv, IndexInv, NEW c \in Call, idx[c] # 0
  PROVE  /\ slice.arr \in 1..Len(arrays)
         /\ idx[c] \in 1..slice.len
         /\ idx[c] \in 1..Len(arrays[slice.arr])
         /\ idx[c] \in 1..Len(params)
<1>1. slice.len \in Nat /\ slice.arr \in 0..Len(arrays)
  BY DEF ChildrenType
<1>2. idx[c] \in 1..slice.len
  BY <1>1 DEF IndexInv
<1>3. slice.arr \in 1..Len(arrays)
  BY <1>1, <1>2 DEF ChildrenType
<1>4. Len(arrays[slice.arr]) \in Nat
  BY <1>3 DEF ChildrenType, Children_t
<1>5. idx[c] \in 1..Len(arrays[slice.arr])
  BY <1>2, <1>3, <1>4 DEF ChildrenType
<1>6. idx[c] \in 1..Len(params)
  BY <1>2 DEF SliceInv
<1> QED BY <1>2, <1>3, <1>5, <1>6

\* What is kept of the arrays and maps by a write into a child.
SameShape ==
    /\ Len(params') = Len(params)
    /\ Len(arrays') = Len(arrays)
    /\ \A a \in 1..Len(arrays) : Len(arrays'[a]) = Len(arrays[a])
    /\ \A a \in 1..Len(arrays) : \A i \in 1..Len(arrays[a]) :
         arrays'[a][i].trace = arrays[a][i].trace

Typed == arrays' \in Seq(Children_t) /\ params' \in Seq(SUBSET {"in", "out"})

\* Writing a group of fields into one child leaves the rest as it was.
LEMMA FillEffect ==
  ASSUME ChildrenType, SliceInv, IndexInv, NEW c \in Call, idx[c] # 0,
         NEW g \in Groups, Fill(c, g)
  PROVE  /\ arrays' \in Seq(Children_t)
         /\ Len(arrays') = Len(arrays)
         /\ \A a \in 1..Len(arrays) : Len(arrays'[a]) = Len(arrays[a])
         /\ \A a \in 1..Len(arrays) : \A i \in 1..Len(arrays[a]) :
              /\ arrays'[a][i].trace = arrays[a][i].trace
              /\ arrays'[a][i].filled =
                   IF a = slice.arr /\ i = idx[c] THEN arrays[a][i].filled \cup {g}
                   ELSE arrays[a][i].filled
<1>1. slice.arr \in 1..Len(arrays) /\ idx[c] \in 1..Len(arrays[slice.arr])
  BY IndexInRange
<1>2. arrays \in Seq(Children_t)
  BY DEF ChildrenType
<1> DEFINE A == arrays
           B == arrays'
           a == slice.arr
           i == idx[c]
<1>3. B = [A EXCEPT ![a][i].filled = @ \cup {g}]
  BY DEF Fill
<1> HIDE DEF A, B, a, i
<1>4. A \in Seq(Children_t) /\ a \in 1..Len(A) /\ i \in 1..Len(A[a])
  BY <1>1, <1>2 DEF A, a, i
<1> DEFINE old == A[a][i]
           new == [old EXCEPT !.filled = @ \cup {g}]
           row == [A[a] EXCEPT ![i] = new]
<1>5. A[a] \in Seq(Child_t) /\ old \in Child_t
  BY <1>4 DEF Children_t
<1>6. new \in Child_t /\ new.trace = old.trace /\ new.filled = old.filled \cup {g}
  BY <1>5 DEF Child_t, Groups
<1>7. B = [A EXCEPT ![a] = row]
  BY <1>3
<1> HIDE DEF new
<1>8. /\ row \in Seq(Child_t) /\ Len(row) = Len(A[a])
      /\ \A j \in 1..Len(A[a]) : row[j] = IF j = i THEN new ELSE A[a][j]
  BY <1>4, <1>5, <1>6
<1> HIDE DEF row
<1>9. row \in Children_t
  BY <1>8 DEF Children_t
<1>10. /\ B \in Seq(Children_t) /\ Len(B) = Len(A)
      /\ \A b \in 1..Len(A) : B[b] = IF b = a THEN row ELSE A[b]
  <2> DEFINE C == [A EXCEPT ![a] = row]
  <2>1. /\ C \in Seq(Children_t) /\ Len(C) = Len(A)
        /\ \A b \in 1..Len(A) : C[b] = IF b = a THEN row ELSE A[b]
    BY <1>4, <1>9
  <2>2. B = C
    BY <1>7
  <2> HIDE DEF C
  <2> QED BY <2>1, <2>2
<1>11. ASSUME NEW b \in 1..Len(A)
      PROVE  /\ Len(B[b]) = Len(A[b])
             /\ \A j \in 1..Len(A[b]) :
                  B[b][j] = IF b = a /\ j = i THEN new ELSE A[b][j]
  <2>1. CASE b = a
    <3>1. B[b] = row
      BY <1>10, <2>1
    <3> QED BY <1>8, <2>1, <3>1
  <2>2. CASE b # a
    <3>1. B[b] = A[b]
      BY <1>10, <2>2
    <3> QED BY <2>2, <3>1
  <2> QED BY <2>1, <2>2
<1>12. ASSUME NEW b \in 1..Len(A), NEW j \in 1..Len(A[b])
      PROVE  /\ B[b][j].trace = A[b][j].trace
             /\ B[b][j].filled = IF b = a /\ j = i THEN A[b][j].filled \cup {g}
                                 ELSE A[b][j].filled
  <2>1. B[b][j] = IF b = a /\ j = i THEN new ELSE A[b][j]
    BY <1>11
  <2>2. CASE b = a /\ j = i
    BY <1>6, <2>1, <2>2
  <2>3. CASE ~(b = a /\ j = i)
    BY <2>1, <2>3
  <2> QED BY <2>2, <2>3
<1> QED BY <1>10, <1>11, <1>12 DEF A, B, a, i

LEMMA FillMapEffect ==
  ASSUME ChildrenType, SliceInv, IndexInv, NEW c \in Call, idx[c] # 0,
         NEW m \in SUBSET {"in", "out"}, FillMap(c, m)
  PROVE  /\ params' \in Seq(SUBSET {"in", "out"})
         /\ Len(params') = Len(params)
         /\ \A i \in 1..Len(params) :
              params'[i] = IF i = idx[c] THEN params[i] \cup m ELSE params[i]
<1>1. idx[c] \in 1..Len(params)
  BY IndexInRange
<1>2. params \in Seq(SUBSET {"in", "out"})
  BY DEF ChildrenType
<1>3. params' = [params EXCEPT ![idx[c]] = params[idx[c]] \cup m]
  BY DEF FillMap
<1>4. params[idx[c]] \cup m \in SUBSET {"in", "out"}
  <2>1. params[idx[c]] \in SUBSET {"in", "out"}
    BY <1>1, <1>2
  <2> QED BY <2>1
<1> DEFINE i == idx[c]
           x == params[i] \cup m
           S == SUBSET {"in", "out"}
           P == [params EXCEPT ![i] = x]
<1>5. params \in Seq(S) /\ i \in 1..Len(params) /\ x \in S
  BY <1>1, <1>2, <1>4
<1> HIDE DEF x, S, i
<1>6. /\ P \in Seq(S)
      /\ Len(P) = Len(params)
      /\ \A j \in 1..Len(params) : P[j] = IF j = i THEN x ELSE params[j]
  BY <1>5
<1>7. params' = P
  BY <1>3 DEF i, x
<1> HIDE DEF P
<1>8. /\ params' \in Seq(S)
      /\ Len(params') = Len(params)
      /\ \A j \in 1..Len(params) : params'[j] = IF j = i THEN x ELSE params[j]
  BY <1>6, <1>7
<1> QED BY <1>8 DEF S, x, i
-----------------------------------------------------------------------------
(* A call with a child of its own goes on: what all its steps keep.        *)

Advance(c, label) ==
    /\ pc[c] \in Published /\ idx[c] # 0
    /\ label \in (Published \cup {"done"}) \ {"inParam"}
    /\ pc' = [pc EXCEPT ![c] = label]
    /\ UNCHANGED <<handler, trace, slice, lock, idx, kind, report>>
    /\ Typed /\ SameShape

LEMMA FillsShape ==
  ASSUME ChildrenType, SliceInv, IndexInv, NEW c \in Call, idx[c] # 0,
         \/ \E g \in Groups : Fill(c, g) /\ UNCHANGED params
         \/ \E m \in SUBSET {"in", "out"} : FillMap(c, m) /\ UNCHANGED arrays
         \/ \E g \in Groups, m \in SUBSET {"in", "out"} : Fill(c, g) /\ FillMap(c, m)
  PROVE  Typed /\ SameShape
<1> DEFINE ArraysKept ==
             /\ arrays' \in Seq(Children_t)
             /\ Len(arrays') = Len(arrays)
             /\ \A a \in 1..Len(arrays) : Len(arrays'[a]) = Len(arrays[a])
             /\ \A a \in 1..Len(arrays) : \A i \in 1..Len(arrays[a]) :
                  arrays'[a][i].trace = arrays[a][i].trace
           ParamsKept ==
             params' \in Seq(SUBSET {"in", "out"}) /\ Len(params') = Len(params)
<1>1. UNCHANGED arrays => ArraysKept
  BY DEF ChildrenType
<1>2. UNCHANGED params => ParamsKept
  BY DEF ChildrenType
<1>3. ASSUME NEW g \in Groups, Fill(c, g) PROVE ArraysKept
  BY <1>3, FillEffect
<1>4. ASSUME NEW m \in SUBSET {"in", "out"}, FillMap(c, m) PROVE ParamsKept
  BY <1>4, FillMapEffect
<1>5. ArraysKept /\ ParamsKept
  <2> HIDE DEF ArraysKept, ParamsKept
  <2> QED BY <1>1, <1>2, <1>3, <1>4
<1> QED BY <1>5 DEF Typed, SameShape

LEMMA SameIsSameShape ==
  ASSUME ChildrenType, UNCHANGED <<arrays, params>>
  PROVE  Typed /\ SameShape
  BY DEF ChildrenType, SameShape, Typed

LEMMA AdvanceEffect ==
  ASSUME IInv, NEW c \in Call,
         \/ WriteInParam(c) \/ AddHeader(c) \/ DoCall(c) \/ LoadMillis(c)
         \/ AddMillis(c) \/ ReportFirst(c) \/ ReportOut(c) \/ ReportLast(c)
  PROVE  \E label \in Labels : Advance(c, label)
<1> USE DEF Goto, Labels, Published, request, child, local
<1>0. ChildrenType /\ SliceInv /\ IndexInv
  BY TypeParts DEF IInv
<1>1. pc[c] \in Published => idx[c] # 0
  BY <1>0 DEF IndexInv
<1>2. CASE WriteInParam(c)
  <2>1. idx[c] # 0
    BY <1>1, <1>2 DEF WriteInParam
  <2>2. \/ \E g \in Groups : Fill(c, g) /\ UNCHANGED params
        \/ \E m \in SUBSET {"in", "out"} : FillMap(c, m) /\ UNCHANGED arrays
        \/ \E g \in Groups, m \in SUBSET {"in", "out"} : Fill(c, g) /\ FillMap(c, m)
    BY <1>2 DEF WriteInParam, Groups
  <2>3. Typed /\ SameShape
    BY <1>0, <2>1, <2>2, FillsShape
  <2> QED BY <1>2, <2>1, <2>3 DEF WriteInParam, Advance
<1>3. CASE AddHeader(c)
  <2>1. UNCHANGED <<arrays, params>>
    BY <1>3 DEF AddHeader
  <2>2. Typed /\ SameShape
    BY <1>0, <2>1, SameIsSameShape
  <2> QED BY <1>1, <1>3, <2>2 DEF AddHeader, Advance
<1>4. CASE DoCall(c)
  <2>1. UNCHANGED <<arrays, params>>
    BY <1>4 DEF DoCall
  <2>2. Typed /\ SameShape
    BY <1>0, <2>1, SameIsSameShape
  <2> QED BY <1>1, <1>4, <2>2 DEF DoCall, Advance
<1>5. CASE LoadMillis(c)
  <2>1. UNCHANGED <<arrays, params>>
    BY <1>5 DEF LoadMillis
  <2>2. Typed /\ SameShape
    BY <1>0, <2>1, SameIsSameShape
  <2> QED BY <1>1, <1>5, <2>2 DEF LoadMillis, Advance
<1>6. CASE AddMillis(c)
  <2>1. UNCHANGED <<arrays, params>>
    BY <1>6 DEF AddMillis
  <2>2. Typed /\ SameShape
    BY <1>0, <2>1, SameIsSameShape
  <2> QED BY <1>1, <1>6, <2>2 DEF AddMillis, Advance
<1>7. CASE ReportFirst(c)
  <2>1. idx[c] # 0
    BY <1>1, <1>7 DEF ReportFirst
  <2>2. \/ \E g \in Groups : Fill(c, g) /\ UNCHANGED params
        \/ \E m \in SUBSET {"in", "out"} : FillMap(c, m) /\ UNCHANGED arrays
        \/ \E g \in Groups, m \in SUBSET {"in", "out"} : Fill(c, g) /\ FillMap(c, m)
    BY <1>7 DEF ReportFirst, Groups
  <2>3. Typed /\ SameShape
    BY <1>0, <2>1, <2>2, FillsShape
  <2> QED BY <1>7, <2>1, <2>3 DEF ReportFirst, Advance
<1>8. CASE ReportOut(c)
  <2>1. idx[c] # 0
    BY <1>1, <1>8 DEF ReportOut
  <2>2. \/ \E g \in Groups : Fill(c, g) /\ UNCHANGED params
        \/ \E m \in SUBSET {"in", "out"} : FillMap(c, m) /\ UNCHANGED arrays
        \/ \E g \in Groups, m \in SUBSET {"in", "out"} : Fill(c, g) /\ FillMap(c, m)
    BY <1>8 DEF ReportOut, Groups
  <2>3. Typed /\ SameShape
    BY <1>0, <2>1, <2>2, FillsShape
  <2> QED BY <1>8, <2>1, <2>3 DEF ReportOut, Advance
<1>9. CASE ReportLast(c)
  <2>1. idx[c] # 0
    BY <1>1, <1>9 DEF ReportLast
  <2>2. \/ \E g \in Groups : Fill(c, g) /\ UNCHANGED params
        \/ \E m \in SUBSET {"in", "out"} : FillMap(c, m) /\ UNCHANGED arrays
        \/ \E g \in Groups, m \in SUBSET {"in", "out"} : Fill(c, g) /\ FillMap(c, m)
    BY <1>9 DEF ReportLast, Groups
  <2>3. Typed /\ SameShape
    BY <1>0, <2>1, <2>2, FillsShape
  <2> QED BY <1>9, <2>1, <2>3 DEF ReportLast, Advance
<1> QED BY <1>2, <1>3, <1>4, <1>5, <1>6, <1>7, <1>8, <1>9
-----------------------------------------------------------------------------
(* A call appends its child, in place or to a copy, and publishes it.      *)

Appended ==
    /\ arrays' \in Seq(Children_t)
    /\ Len(arrays') # 0
    /\ \/ Len(arrays') = Len(arrays) /\ slice.len < slice.cap
       \/ Len(arrays') = Len(arrays) + 1 /\ slice.len = slice.cap
    /\ \A a \in 1..Len(arrays) : a # Len(arrays') => arrays'[a] = arrays[a]
    /\ Len(arrays'[Len(arrays')]) = slice.len + 1
    /\ \A i \in 1..slice.len : arrays'[Len(arrays')][i] = arrays[slice.arr][i]
    /\ arrays'[Len(arrays')][slice.len + 1] = NewChild(slice.len + 1)

LEMMA AppendEffect ==
  ASSUME IInv, NEW c \in Call, AppendChild(c)
  PROVE  Appended
<1> DEFINE new == NewChild(slice.len + 1)
<1>0. ChildrenType /\ SliceInv /\ RequestType
  BY TypeParts DEF IInv
<1>1. lock = "none"
  BY DEF AppendChild
<1>2. /\ slice.arr = Len(arrays)
      /\ slice.arr # 0 => Len(arrays[slice.arr]) = slice.len
      /\ slice.arr = 0 => slice.cap = 0 /\ slice.len = 0
      /\ slice.len \in Nat /\ slice.cap \in Nat /\ slice.arr \in Nat
  BY <1>0, <1>1 DEF SliceInv, ChildrenType
<1>3. new \in Child_t
  <2>1. ChildTrace(slice.len + 1) \in Trace_t
    BY <1>0, <1>2, ChildTraceType
  <2> QED BY <2>1 DEF NewChild, ChildTrace, Child_t
<1> HIDE DEF new
<1>4. arrays \in Seq(Children_t)
  BY <1>0 DEF ChildrenType
<1>5. CASE slice.len < slice.cap
  <2> DEFINE row == Append(arrays[slice.arr], new)
  <2>1. arrays' = [arrays EXCEPT ![slice.arr] = row]
    BY <1>5 DEF AppendChild, new
  <2>2. slice.arr \in 1..Len(arrays)
    BY <1>2, <1>5
  <2>3. arrays[slice.arr] \in Seq(Child_t)
    BY <1>4, <2>2 DEF Children_t
  <2>4. /\ row \in Seq(Child_t) /\ Len(row) = slice.len + 1
        /\ \A i \in 1..slice.len : row[i] = arrays[slice.arr][i]
        /\ row[slice.len + 1] = new
    BY <1>2, <1>3, <2>2, <2>3
  <2> HIDE DEF row
  <2>5. row \in Children_t
    BY <2>4 DEF Children_t
  <2>6. /\ arrays' \in Seq(Children_t) /\ Len(arrays') = Len(arrays)
        /\ arrays'[slice.arr] = row
        /\ \A a \in 1..Len(arrays) : a # slice.arr => arrays'[a] = arrays[a]
    BY <1>4, <2>1, <2>2, <2>5
  <2> QED BY <1>2, <1>5, <2>2, <2>4, <2>6 DEF Appended, new
<1>6. CASE ~(slice.len < slice.cap)
  <2> DEFINE row == IF slice.arr = 0 THEN <<new>> ELSE Append(arrays[slice.arr], new)
  <2>1. arrays' = Append(arrays, row)
    BY <1>6 DEF AppendChild, new
  <2>2. slice.len = slice.cap
    <3>1. CASE slice.arr = 0
      BY <1>2, <3>1
    <3>2. CASE slice.arr # 0
      BY <1>0, <1>2, <1>6, <3>2 DEF ChildrenType
    <3> QED BY <3>1, <3>2
  <2>3. /\ row \in Seq(Child_t) /\ Len(row) = slice.len + 1
        /\ \A i \in 1..slice.len : row[i] = arrays[slice.arr][i]
        /\ row[slice.len + 1] = new
    <3>1. CASE slice.arr = 0
      BY <1>2, <1>3, <3>1
    <3>2. CASE slice.arr # 0
      <4>1. arrays[slice.arr] \in Seq(Child_t)
        BY <1>2, <1>4, <3>2 DEF Children_t
      <4> QED BY <1>2, <1>3, <3>2, <4>1
    <3> QED BY <3>1, <3>2
  <2> HIDE DEF row
  <2>4. row \in Children_t
    BY <2>3 DEF Children_t
  <2>5. /\ arrays' \in Seq(Children_t) /\ Len(arrays') = Len(arrays) + 1
        /\ arrays'[Len(arrays) + 1] = row
        /\ \A a \in 1..Len(arrays) : arrays'[a] = arrays[a]
    BY <1>4, <2>1, <2>4
  <2>6. Len(arrays) \in Nat
    BY <1>4
  <2> QED BY <1>2, <2>2, <2>3, <2>5, <2>6 DEF Appended, new
<1> QED BY <1>5, <1>6

\* A call that publishes has no index yet, so there is room for one more.
LEMMA PublishEffect ==
  ASSUME IInv, NEW c \in Call, PublishChild(c)
  PROVE  /\ lock = c /\ lock # "none" /\ idx[c] = 0
         /\ slice.len + 1 <= Cardinality(Call)
         /\ Cardinality(Called') = slice.len + 1
         /\ Len(params') = Len(params) + 1
         /\ params' \in Seq(SUBSET {"in", "out"})
         /\ \A i \in 1..Len(params) : params'[i] = params[i]
         /\ params'[Len(params) + 1] = {}
<1>0. ChildrenType /\ LabelsType /\ CallsType /\ LockInv /\ IndexInv
  BY TypeParts DEF IInv
<1>1. lock = c /\ lock # "none"
  BY <1>0, StatusAssumption DEF LockInv, PublishChild
<1>2. idx[c] = 0
  BY <1>0 DEF IndexInv, PublishChild, Published
<1>3. IsFiniteSet(Called) /\ Cardinality(Called) = slice.len /\ c \notin Called
  <2>1. IsFiniteSet(Called)
    BY FS_Subset, StatusAssumption DEF Called
  <2> QED BY <1>0, <1>2, <2>1 DEF IndexInv, Called
<1>4. Called' = Called \cup {c}
  <2>1. slice.len + 1 # 0
    BY <1>0 DEF ChildrenType
  <2>2. idx' = [idx EXCEPT ![c] = slice.len + 1] /\ idx \in [Call -> 0..Cardinality(Call)]
    BY <1>0 DEF PublishChild, CallsType
  <2> QED BY <2>1, <2>2 DEF Called
<1>5. Cardinality(Called \cup {c}) = slice.len + 1
  BY <1>3, FS_AddElement
<1>6. Cardinality(Called \cup {c}) <= Cardinality(Call)
  <2>1. Called \cup {c} \subseteq Call
    BY DEF Called
  <2> QED BY <2>1, FS_Subset, StatusAssumption
<1>7. /\ Len(params') = Len(params) + 1
      /\ params' \in Seq(SUBSET {"in", "out"})
      /\ \A i \in 1..Len(params) : params'[i] = params[i]
      /\ params'[Len(params) + 1] = {}
  <2> DEFINE S == SUBSET {"in", "out"}
  <2>1. params' = Append(params, {}) /\ params \in Seq(S) /\ {} \in S
    BY <1>0 DEF PublishChild, ChildrenType
  <2> HIDE DEF S
  <2>2. /\ Len(params') = Len(params) + 1
        /\ params' \in Seq(S)
        /\ \A i \in 1..Len(params) : params'[i] = params[i]
        /\ params'[Len(params) + 1] = {}
    BY <2>1
  <2> QED BY <2>2 DEF S
<1> QED BY <1>1, <1>2, <1>4, <1>5, <1>6, <1>7
-----------------------------------------------------------------------------
(* What each kind of step keeps.                                           *)

Stutter == UNCHANGED vars

\* The steps of a call whose child is published.
GoesOn(c) ==
    \/ WriteInParam(c) \/ AddHeader(c) \/ DoCall(c) \/ LoadMillis(c)
    \/ AddMillis(c) \/ ReportFirst(c) \/ ReportOut(c) \/ ReportLast(c)

LEMMA NextCases ==
  Next => \/ SendToKafka
          \/ \E c \in Call : Start(c) \/ AppendChild(c) \/ PublishChild(c) \/ GoesOn(c)
  BY DEF Next, Step, GoesOn

LEMMA GoesOnEffect ==
  ASSUME IInv, NEW c \in Call, GoesOn(c)
  PROVE  \E label \in Labels : Advance(c, label)
  BY AdvanceEffect DEF GoesOn

LEMMA ChildrenTypeNext ==
  ASSUME IInv, [Next]_vars
  PROVE  ChildrenType'
<1>0. ChildrenType /\ SliceInv /\ LockInv /\ LabelsType
  BY TypeParts DEF IInv
<1>1. ASSUME UNCHANGED <<slice, arrays, params>>
      PROVE  ChildrenType'
  BY <1>0, <1>1 DEF ChildrenType
<1>2. ASSUME NEW c \in Call, AppendChild(c)
      PROVE  ChildrenType'
  <2>1. Appended
    BY <1>2, AppendEffect
  <2>2. lock = "none" /\ UNCHANGED <<slice, params>>
    BY <1>2 DEF AppendChild, child
  <2>3. /\ slice.arr = Len(arrays)
        /\ slice.arr # 0 => Len(arrays[slice.arr]) = slice.len
    BY <1>0, <2>2 DEF SliceInv
  <2>4. slice'.arr # 0 => /\ slice'.len <= Len(arrays'[slice'.arr])
                          /\ Len(arrays'[slice'.arr]) <= slice'.cap
    <3>1. CASE Len(arrays') = Len(arrays) /\ slice.len < slice.cap
      BY <1>0, <2>1, <2>2, <2>3, <3>1 DEF Appended, ChildrenType
    <3>2. CASE Len(arrays') = Len(arrays) + 1 /\ slice.len = slice.cap
      <4>1. slice.arr # 0 => arrays'[slice.arr] = arrays[slice.arr]
        BY <1>0, <2>1, <2>3, <3>2 DEF Appended, ChildrenType
      <4> QED BY <1>0, <2>2, <2>3, <3>2, <4>1 DEF ChildrenType
    <3> QED BY <2>1, <3>1, <3>2 DEF Appended
  <2>5. slice' \in [arr : 0..Len(arrays'), len : Nat, cap : Nat]
    BY <1>0, <2>1, <2>2 DEF Appended, ChildrenType
  <2> QED BY <1>0, <2>1, <2>2, <2>4, <2>5 DEF Appended, ChildrenType
<1>3. ASSUME NEW c \in Call, PublishChild(c)
      PROVE  ChildrenType'
  <2>1. lock # "none" /\ params' \in Seq(SUBSET {"in", "out"})
    BY <1>3, PublishEffect
  <2>2. /\ Len(arrays) # 0
        /\ Len(arrays[Len(arrays)]) = slice.len + 1
        /\ slice.arr # Len(arrays) => slice.len = slice.cap
        /\ slice.len \in Nat /\ slice.cap \in Nat /\ Len(arrays) \in Nat
    BY <1>0, <2>1 DEF SliceInv, ChildrenType
  <2>3. /\ arrays' = arrays
        /\ slice' = [arr |-> Len(arrays), len |-> slice.len + 1,
                     cap |-> IF slice.arr = Len(arrays) THEN slice.cap ELSE Grown(slice.cap)]
    BY <1>3 DEF PublishChild
  <2>4. slice.len + 1 <= slice'.cap /\ slice'.cap \in Nat
    <3>1. CASE slice.arr = Len(arrays)
      BY <1>0, <2>2, <2>3, <3>1 DEF ChildrenType
    <3>2. CASE slice.arr # Len(arrays)
      BY <2>2, <2>3, <3>2 DEF Grown
    <3> QED BY <3>1, <3>2
  <2>5. slice' \in [arr : 0..Len(arrays'), len : Nat, cap : Nat]
    BY <2>2, <2>3, <2>4
  <2> QED BY <1>0, <2>1, <2>2, <2>3, <2>4, <2>5 DEF ChildrenType
<1>4. ASSUME NEW c \in Call, NEW label \in Labels, Advance(c, label)
      PROVE  ChildrenType'
  <2>1. UNCHANGED slice /\ Typed /\ SameShape
    BY <1>4 DEF Advance
  <2>2. slice.arr # 0 => Len(arrays'[slice.arr]) = Len(arrays[slice.arr])
    BY <1>0, <2>1 DEF ChildrenType, SameShape
  <2> QED BY <1>0, <2>1, <2>2 DEF ChildrenType, Typed, SameShape
<1>5. SendToKafka \/ (\E c \in Call : Start(c)) \/ Stutter => UNCHANGED <<slice, arrays, params>>
  BY DEF SendToKafka, Start, Stutter, vars, child
<1> QED BY <1>1, <1>2, <1>3, <1>4, <1>5, NextCases, GoesOnEffect DEF Stutter

LEMMA LabelsTypeNext ==
  ASSUME IInv, [Next]_vars
  PROVE  LabelsType' /\ RequestType'
<1>0. LabelsType /\ RequestType
  BY TypeParts DEF IInv
<1> USE DEF LabelsType, RequestType, request, child
<1>1. ASSUME NEW c \in Call, Start(c) PROVE LabelsType' /\ RequestType'
  BY <1>0, <1>1 DEF Start, Goto, Labels
<1>2. ASSUME NEW c \in Call, AppendChild(c) PROVE LabelsType' /\ RequestType'
  BY <1>0, <1>2 DEF AppendChild, Goto, Labels
<1>3. ASSUME NEW c \in Call, PublishChild(c) PROVE LabelsType' /\ RequestType'
  BY <1>0, <1>3 DEF PublishChild, Goto, Labels
<1>4. ASSUME NEW c \in Call, NEW label \in Labels, Advance(c, label)
      PROVE  LabelsType' /\ RequestType'
  BY <1>0, <1>4 DEF Advance
<1>5. ASSUME SendToKafka PROVE LabelsType' /\ RequestType'
  BY <1>0, <1>5 DEF SendToKafka
<1>6. ASSUME Stutter PROVE LabelsType' /\ RequestType'
  BY <1>0, <1>6 DEF Stutter, vars
<1> QED
  <2> HIDE DEF LabelsType, RequestType
  <2> QED BY <1>1, <1>2, <1>3, <1>4, <1>5, <1>6, NextCases, GoesOnEffect DEF Stutter

LEMMA CallsTypeNext ==
  ASSUME IInv, [Next]_vars
  PROVE  CallsType'
<1>0. CallsType /\ RequestType /\ ChildrenType /\ SliceInv /\ IndexInv
  BY TypeParts DEF IInv
<1>1. handler' = handler
  BY DEF Next, SendToKafka, Step, Start, AppendChild, PublishChild, WriteInParam, AddHeader,
         DoCall, LoadMillis, AddMillis, ReportFirst, ReportOut, ReportLast, request, vars
<1>a. ASSUME NEW c \in Call, AddHeader(c)
      PROVE  arrays[slice.arr][idx[c]].trace \in Trace_t
  <2>1. idx[c] # 0
    BY <1>0, <1>a DEF AddHeader, IndexInv, Published
  <2>2. slice.arr \in 1..Len(arrays) /\ idx[c] \in 1..Len(arrays[slice.arr])
    BY <1>0, <2>1, IndexInRange
  <2>3. arrays[slice.arr] \in Seq(Child_t)
    BY <1>0, <2>2 DEF ChildrenType, Children_t
  <2>4. arrays[slice.arr][idx[c]] \in Child_t
    BY <2>2, <2>3
  <2> QED BY <2>4 DEF Child_t
<1>b. handler.durations \subseteq Nat
  BY <1>0, StatusAssumption DEF RequestType
<1> USE DEF CallsType, child, local
<1>2. ASSUME UNCHANGED <<kind, idx, sentTrace, outcome, loaded, ret, millis>>
      PROVE  CallsType'
  BY <1>0, <1>1, <1>2
<1>3. ASSUME NEW c \in Call, Start(c) PROVE CallsType'
  <2>1. /\ \E k \in handler.kinds : kind' = [kind EXCEPT ![c] = k]
        /\ ret' = ret \/ ret' = [ret EXCEPT ![c] = "nothing"]
        /\ UNCHANGED <<millis, idx, sentTrace, outcome, loaded>>
    BY <1>3 DEF Start
  <2>2. kind' \in [Call -> handler.kinds \cup {"none"}]
    BY <1>0, <2>1
  <2>3. ret' \in [Call -> {"none", "nothing", "result", "error", "panic", "Status is Null"}]
    BY <1>0, <2>1
  <2> QED BY <1>0, <1>1, <2>1, <2>2, <2>3
<1>4. ASSUME NEW c \in Call, PublishChild(c) PROVE CallsType'
  <2>1. slice.len + 1 <= Cardinality(Call) /\ slice.len \in Nat /\ Cardinality(Call) \in Nat
    BY <1>0, <1>4, PublishEffect, FS_CardinalityType, StatusAssumption DEF ChildrenType
  <2>2. slice.len + 1 \in 0..Cardinality(Call)
    BY <2>1
  <2>3. /\ idx' = [idx EXCEPT ![c] = slice.len + 1]
        /\ UNCHANGED <<kind, sentTrace, outcome, loaded, ret, millis>>
    BY <1>4 DEF PublishChild
  <2>4. idx' \in [Call -> 0..Cardinality(Call)]
    BY <1>0, <2>2, <2>3
  <2> QED BY <1>0, <1>1, <2>3, <2>4
<1>5. ASSUME NEW c \in Call, AddHeader(c) PROVE CallsType'
  <2>4. arrays[slice.arr][idx[c]].trace \in Trace_t
    BY <1>5, <1>a
  <2>5. /\ sentTrace' = [sentTrace EXCEPT ![c] = arrays[slice.arr][idx[c]].trace]
        /\ UNCHANGED <<kind, idx, outcome, loaded, ret, millis>>
    BY <1>5 DEF AddHeader
  <2>6. sentTrace' \in [Call -> Trace_t]
    BY <1>0, <2>4, <2>5
  <2> QED BY <1>0, <1>1, <2>5, <2>6
<1>6. ASSUME NEW c \in Call, DoCall(c) PROVE CallsType'
  <2>1. PICK e \in BOOLEAN, d \in handler.durations :
          outcome' = [outcome EXCEPT ![c] = [err |-> e, dur |-> d]]
    BY <1>6 DEF DoCall
  <2>2. UNCHANGED <<kind, idx, sentTrace, loaded, ret, millis>>
    BY <1>6 DEF DoCall
  <2>3. outcome' \in [Call -> [err : BOOLEAN, dur : handler.durations \cup {0}]]
    BY <1>0, <2>1
  <2> QED BY <1>0, <1>1, <2>2, <2>3
<1>7. ASSUME NEW c \in Call, LoadMillis(c) PROVE CallsType'
  <2>1. millis[Counter(c)] \in Nat
    BY <1>0 DEF Counter
  <2> QED BY <1>0, <1>1, <1>7, <2>1 DEF LoadMillis
<1>8. ASSUME NEW c \in Call, AddMillis(c) PROVE CallsType'
  <2> DEFINE d == IF IsHttp(c) THEN outcome[c].dur ELSE outcome[c].dur \div Milli
             n == loaded[c] + d \div Milli
  <2>1. outcome[c].dur \in Nat
    <3>1. outcome[c].dur \in handler.durations \cup {0}
      BY <1>0
    <3> QED BY <1>b, <3>1
  <2>2. \A x \in Nat : x \div Milli \in Nat
    BY StatusAssumption
  <2>3. d \in Nat
    BY <2>1, <2>2
  <2>4. n \in Nat
    <3> HIDE DEF d
    <3>1. loaded[c] \in Nat
      BY <1>0
    <3>2. d \div Milli \in Nat
      BY <2>2, <2>3
    <3> QED BY <3>1, <3>2
  <2>5. /\ millis' = [millis EXCEPT ![Counter(c)] = n]
        /\ UNCHANGED <<kind, idx, sentTrace, outcome, loaded, ret>>
    BY <1>8 DEF AddMillis
  <2> HIDE DEF n
  <2>6. millis' \in [http : Nat, sql : Nat]
    BY <1>0, <2>4, <2>5 DEF Counter
  <2> QED BY <1>0, <1>1, <2>5, <2>6
<1>9. ASSUME NEW c \in Call, ReportLast(c) PROVE CallsType'
  BY <1>0, <1>1, <1>9 DEF ReportLast
<1>10. ASSUME NEW c \in Call, AppendChild(c) \/ WriteInParam(c) \/ ReportFirst(c) \/ ReportOut(c)
       PROVE  CallsType'
  BY <1>2, <1>10 DEF AppendChild, WriteInParam, ReportFirst, ReportOut
<1>11. ASSUME SendToKafka \/ Stutter PROVE CallsType'
  BY <1>2, <1>11 DEF SendToKafka, Stutter, vars
<1> QED
  <2> HIDE DEF CallsType
  <2> QED BY <1>3, <1>4, <1>5, <1>6, <1>7, <1>8, <1>9, <1>10, <1>11 DEF Next, Step, Stutter
-----------------------------------------------------------------------------
LEMMA LockNext ==
  ASSUME IInv, [Next]_vars
  PROVE  LockInv' /\ SliceInv'
<1>0. LockInv /\ SliceInv /\ ChildrenType /\ LabelsType
  BY TypeParts DEF IInv
<1>1. ASSUME NEW c \in Call, Start(c) PROVE LockInv' /\ SliceInv'
  BY <1>0, <1>1 DEF Start, Goto, LockInv, SliceInv, child, LabelsType
<1>2. ASSUME NEW c \in Call, AppendChild(c) PROVE LockInv' /\ SliceInv'
  <2>1. Appended
    BY <1>2, AppendEffect
  <2>2. /\ lock = "none" /\ lock' = c /\ pc' = [pc EXCEPT ![c] = "publish"]
        /\ UNCHANGED <<slice, params>> /\ c # "none"
    BY <1>2, StatusAssumption DEF AppendChild, Goto, child
  <2>3. LockInv'
    BY <1>0, <2>2, StatusAssumption DEF LockInv, LabelsType
  <2>4. slice.arr = Len(arrays) /\ Len(arrays) \in Nat
    BY <1>0, <2>2 DEF SliceInv, ChildrenType
  <2>5. slice'.arr \in {Len(arrays'), Len(arrays') - 1}
    BY <2>1, <2>2, <2>4 DEF Appended
  <2>6. slice'.arr # Len(arrays') => slice'.len = slice'.cap
    BY <2>1, <2>2, <2>4 DEF Appended
  <2>7. SliceInv'
    BY <1>0, <2>1, <2>2, <2>5, <2>6 DEF SliceInv, Appended
  <2> QED BY <2>3, <2>7
<1>3. ASSUME NEW c \in Call, PublishChild(c) PROVE LockInv' /\ SliceInv'
  <2>1. lock = c /\ lock # "none" /\ Len(params') = Len(params) + 1
    BY <1>3, PublishEffect
  <2>2. \E l \in {"inParam", "io"} : pc' = [pc EXCEPT ![c] = l]
    BY <1>3 DEF PublishChild, Goto
  <2>3. /\ lock' = "none" /\ arrays' = arrays
        /\ slice'.arr = Len(arrays) /\ slice'.len = slice.len + 1
    BY <1>3 DEF PublishChild
  <2>4. LockInv'
    BY <1>0, <2>1, <2>2, <2>3, StatusAssumption DEF LockInv, LabelsType
  <2>5. SliceInv'
    BY <1>0, <2>1, <2>3 DEF SliceInv
  <2> QED BY <2>4, <2>5
<1>4. ASSUME NEW c \in Call, NEW label \in Labels, Advance(c, label)
      PROVE  LockInv' /\ SliceInv'
  <2>1. LockInv'
    BY <1>0, <1>4 DEF LockInv, LabelsType, Advance, Published
  <2>2. UNCHANGED <<slice, lock>> /\ SameShape
    BY <1>4 DEF Advance
  <2>3. /\ Len(arrays) # 0 => Len(arrays'[Len(arrays)]) = Len(arrays[Len(arrays)])
        /\ slice.arr # 0 => Len(arrays'[slice.arr]) = Len(arrays[slice.arr])
    BY <1>0, <2>2 DEF SameShape, ChildrenType
  <2>4. SliceInv'
    BY <1>0, <2>2, <2>3 DEF SliceInv, SameShape
  <2> QED BY <2>1, <2>4
<1>5. ASSUME SendToKafka \/ Stutter PROVE LockInv' /\ SliceInv'
  BY <1>0, <1>5 DEF SendToKafka, Stutter, vars, LockInv, SliceInv, child
<1> QED BY <1>1, <1>2, <1>3, <1>4, <1>5, NextCases, GoesOnEffect DEF Stutter

LEMMA IndexNext ==
  ASSUME IInv, [Next]_vars
  PROVE  IndexInv'
<1>0. IndexInv /\ ChildrenType /\ LabelsType /\ CallsType
  BY TypeParts DEF IInv
<1>1. ASSUME UNCHANGED idx PROVE Called' = Called
  BY <1>1 DEF Called
<1>2. ASSUME NEW c \in Call, Start(c) \/ AppendChild(c) PROVE IndexInv'
  <2>1. /\ idx[c] = 0 /\ UNCHANGED <<idx, slice>>
        /\ \E l \in {"append", "done", "publish"} : pc' = [pc EXCEPT ![c] = l]
    BY <1>0, <1>2 DEF Start, AppendChild, Goto, child, local, IndexInv, Published
  <2>2. Called' = Called
    BY <1>1, <2>1
  <2> QED BY <1>0, <2>1, <2>2 DEF IndexInv, LabelsType, Published
<1>3. ASSUME NEW c \in Call, PublishChild(c) PROVE IndexInv'
  <2>1. idx[c] = 0 /\ Cardinality(Called') = slice.len + 1 /\ slice'.len = slice.len + 1
    BY <1>3, PublishEffect DEF PublishChild
  <2>2. /\ idx' = [idx EXCEPT ![c] = slice.len + 1]
        /\ \E l \in {"inParam", "io"} : pc' = [pc EXCEPT ![c] = l]
    BY <1>3 DEF PublishChild, Goto
  <2>3. slice.len \in Nat
    BY <1>0 DEF ChildrenType
  <2>4. \A d \in Call : idx'[d] = IF d = c THEN slice.len + 1 ELSE idx[d]
    BY <1>0, <2>2 DEF CallsType
  <2>5. \A d \in Call : idx'[d] \in 0..slice'.len
    BY <1>0, <2>1, <2>3, <2>4 DEF IndexInv
  <2>6. \A d, e \in Call : d # e /\ idx'[d] # 0 => idx'[d] # idx'[e]
    BY <1>0, <2>1, <2>3, <2>4 DEF IndexInv
  <2>7. /\ \A d \in Call : idx'[d] # 0 => pc'[d] \in Published \cup {"done"}
        /\ \A d \in Call : pc'[d] \in Published => idx'[d] # 0
    BY <1>0, <2>2, <2>3, <2>4 DEF IndexInv, LabelsType, Published
  <2> QED BY <2>1, <2>5, <2>6, <2>7 DEF IndexInv
<1>4. ASSUME NEW c \in Call, NEW label \in Labels, Advance(c, label) PROVE IndexInv'
  <2>1. UNCHANGED <<idx, slice>> /\ Called' = Called
    BY <1>1, <1>4 DEF Advance
  <2> QED BY <1>0, <1>4, <2>1 DEF Advance, IndexInv, LabelsType, Published
<1>5. ASSUME SendToKafka \/ Stutter PROVE IndexInv'
  <2>1. UNCHANGED <<idx, slice, pc>> /\ Called' = Called
    BY <1>1, <1>5 DEF SendToKafka, Stutter, vars, child, local
  <2> QED BY <1>0, <2>1 DEF IndexInv
<1> QED BY <1>2, <1>3, <1>4, <1>5, NextCases, GoesOnEffect DEF Stutter
-----------------------------------------------------------------------------
LEMMA TraceNext ==
  ASSUME IInv, [Next]_vars
  PROVE  TraceInv'
<1>0. TraceInv /\ IndexInv /\ SliceInv /\ ChildrenType /\ CallsType
  BY TypeParts DEF IInv
<1>1. trace' = trace
  BY DEF Next, SendToKafka, Step, Start, AppendChild, PublishChild, WriteInParam, AddHeader,
         DoCall, LoadMillis, AddMillis, ReportFirst, ReportOut, ReportLast, request, vars
<1>2. \A i : ChildTrace(i)' = ChildTrace(i)
  BY <1>1 DEF ChildTrace
<1>3. ASSUME /\ \A a \in 1..Len(arrays') : \A i \in 1..Len(arrays'[a]) :
                  arrays'[a][i].trace = ChildTrace(i)
             /\ \A c \in Call : sentTrace'[c] # NoTrace =>
                  idx'[c] # 0 /\ sentTrace'[c] = ChildTrace(idx'[c])
      PROVE  TraceInv'
  BY <1>0, <1>1, <1>2, <1>3 DEF TraceInv
<1>4. ASSUME UNCHANGED <<arrays, idx, sentTrace>> PROVE TraceInv'
  BY <1>0, <1>3, <1>4 DEF TraceInv
<1>5. ASSUME NEW c \in Call, AppendChild(c) PROVE TraceInv'
  <2>1. Appended /\ lock = "none" /\ UNCHANGED <<idx, sentTrace>>
    BY <1>5, AppendEffect DEF AppendChild, local
  <2>2. /\ slice.arr = Len(arrays) /\ Len(arrays) \in Nat /\ slice.len \in Nat
        /\ slice.arr # 0 => Len(arrays[slice.arr]) = slice.len
        /\ slice.arr = 0 => slice.len = 0
    BY <1>0, <2>1 DEF SliceInv, ChildrenType
  <2>3. ASSUME NEW a \in 1..Len(arrays'), NEW i \in 1..Len(arrays'[a])
        PROVE  arrays'[a][i].trace = ChildTrace(i)
    <3>1. CASE a # Len(arrays')
      <4>1. a \in 1..Len(arrays) /\ arrays'[a] = arrays[a]
        BY <2>1, <2>2, <3>1 DEF Appended
      <4> QED BY <1>0, <4>1 DEF TraceInv
    <3>2. CASE a = Len(arrays') /\ i \in 1..slice.len
      <4>1. arrays'[a][i] = arrays[slice.arr][i]
        BY <2>1, <3>2 DEF Appended
      <4>2. slice.arr \in 1..Len(arrays) /\ i \in 1..Len(arrays[slice.arr])
        BY <2>2, <3>2
      <4> QED BY <1>0, <4>1, <4>2 DEF TraceInv
    <3>3. CASE a = Len(arrays') /\ i = slice.len + 1
      BY <2>1, <3>3 DEF Appended, NewChild, ChildTrace
    <3>4. a = Len(arrays') => i \in 1..slice.len \/ i = slice.len + 1
      BY <2>1, <2>2 DEF Appended
    <3> QED BY <3>1, <3>2, <3>3, <3>4
  <2> QED BY <1>0, <1>3, <2>1, <2>3 DEF TraceInv
<1>6. ASSUME NEW c \in Call, PublishChild(c) PROVE TraceInv'
  <2>1. idx[c] = 0
    BY <1>6, PublishEffect
  <2>2. UNCHANGED <<arrays, sentTrace>> /\ idx' = [idx EXCEPT ![c] = slice.len + 1]
    BY <1>6 DEF PublishChild
  <2>3. \A d \in Call : d # c => idx'[d] = idx[d]
    BY <1>0, <2>2 DEF CallsType
  <2>4. sentTrace[c] = NoTrace
    BY <1>0, <2>1 DEF TraceInv
  <2> QED BY <1>0, <1>3, <2>2, <2>3, <2>4 DEF TraceInv
<1>7. ASSUME NEW c \in Call, GoesOn(c) PROVE TraceInv'
  <2>1. idx[c] # 0 /\ UNCHANGED idx /\ SameShape /\ Typed
    BY <1>7, GoesOnEffect DEF Advance
  <2>2. \A a \in 1..Len(arrays') : \A i \in 1..Len(arrays'[a]) :
          arrays'[a][i].trace = ChildTrace(i)
    BY <1>0, <2>1 DEF TraceInv, SameShape
  <2>3. arrays[slice.arr][idx[c]].trace = ChildTrace(idx[c])
    <3>1. slice.arr \in 1..Len(arrays) /\ idx[c] \in 1..Len(arrays[slice.arr])
      BY <1>0, <2>1, IndexInRange
    <3> QED BY <1>0, <3>1 DEF TraceInv
  <2>4. \/ UNCHANGED sentTrace
        \/ sentTrace' = [sentTrace EXCEPT ![c] = arrays[slice.arr][idx[c]].trace]
    BY <1>7 DEF GoesOn, WriteInParam, AddHeader, DoCall, LoadMillis, AddMillis, ReportFirst,
                ReportOut, ReportLast, local
  <2>5. \A d \in Call : \/ sentTrace'[d] = sentTrace[d]
                        \/ d = c /\ sentTrace'[d] = ChildTrace(idx[c])
    <3>1. CASE UNCHANGED sentTrace
      BY <3>1
    <3>2. CASE sentTrace' = [sentTrace EXCEPT ![c] = ChildTrace(idx[c])]
      <4>1. sentTrace \in [Call -> Trace_t]
        BY <1>0 DEF CallsType
      <4> QED BY <3>2, <4>1
    <3> QED BY <2>3, <2>4, <3>1, <3>2
  <2> QED BY <1>0, <1>3, <2>1, <2>2, <2>5 DEF TraceInv
<1>8. SendToKafka \/ (\E c \in Call : Start(c)) \/ Stutter => UNCHANGED <<arrays, idx, sentTrace>>
  BY DEF SendToKafka, Start, Stutter, vars, child, local
<1> QED BY <1>4, <1>5, <1>6, <1>7, <1>8, NextCases DEF Stutter

LEMMA ReportNext ==
  ASSUME IInv, [Next]_vars
  PROVE  ReportInv'
<1>0. ReportInv /\ LabelsType
  BY TypeParts DEF IInv
<1>1. ASSUME NEW c \in Call, Start(c) PROVE ReportInv'
  BY <1>1 DEF Start, ReportInv
<1>2. ASSUME SendToKafka PROVE ReportInv'
  BY <1>2 DEF SendToKafka, ReportInv, Idle
<1>3. ASSUME NEW c \in Call, ~Idle(c), UNCHANGED report PROVE ReportInv'
  BY <1>0, <1>3 DEF ReportInv
<1>4. ASSUME NEW c \in Call, AppendChild(c) \/ PublishChild(c) PROVE ReportInv'
  <2>1. ~Idle(c) /\ UNCHANGED report
    BY <1>4 DEF AppendChild, PublishChild, Idle
  <2> QED BY <1>3, <2>1
<1>5. ASSUME NEW c \in Call, NEW label \in Labels, Advance(c, label) PROVE ReportInv'
  <2>1. ~Idle(c) /\ UNCHANGED report
    BY <1>5 DEF Advance, Idle, Published
  <2> QED BY <1>3, <2>1
<1>6. ASSUME Stutter PROVE ReportInv'
  BY <1>0, <1>6 DEF Stutter, vars, ReportInv, Idle
<1> QED BY <1>1, <1>2, <1>4, <1>5, <1>6, NextCases, GoesOnEffect DEF Stutter
-----------------------------------------------------------------------------
(* Calls made one after another: nothing that is filled in gets lost.      *)

\* The call writes the groups G and the maps m of its own child, and no more.
WritesGroups(c, G) ==
    \A a \in 1..Len(arrays) : \A i \in 1..Len(arrays[a]) :
      arrays'[a][i].filled =
        IF a = slice.arr /\ i = idx[c] THEN arrays[a][i].filled \cup G
        ELSE arrays[a][i].filled
WritesMaps(c, m) ==
    \A i \in 1..Len(params) :
      params'[i] = IF i = idx[c] THEN params[i] \cup m ELSE params[i]
Writes(c, G, m) == WritesGroups(c, G) /\ WritesMaps(c, m)

LEMMA FillWrites ==
  ASSUME ChildrenType, SliceInv, IndexInv, NEW c \in Call, idx[c] # 0,
         NEW g \in Groups, Fill(c, g)
  PROVE  WritesGroups(c, {g})
<1>1. \A a \in 1..Len(arrays) : \A i \in 1..Len(arrays[a]) :
        /\ arrays'[a][i].trace = arrays[a][i].trace
        /\ arrays'[a][i].filled =
             IF a = slice.arr /\ i = idx[c] THEN arrays[a][i].filled \cup {g}
             ELSE arrays[a][i].filled
  BY FillEffect
<1> QED BY <1>1 DEF WritesGroups

LEMMA WritesEffect ==
  ASSUME IInv, NEW c \in Call, idx[c] # 0,
         NEW G \in SUBSET Groups, NEW m \in SUBSET {"in", "out"},
         (G = {} /\ UNCHANGED arrays) \/ (\E g \in Groups : G = {g} /\ Fill(c, g)),
         (m = {} /\ UNCHANGED params) \/ FillMap(c, m)
  PROVE  Writes(c, G, m)
<1>0. ChildrenType /\ SliceInv /\ IndexInv
  BY TypeParts DEF IInv
<1>1. WritesGroups(c, G)
  <2>1. CASE G = {} /\ UNCHANGED arrays
    BY <2>1 DEF WritesGroups
  <2>2. CASE \E g \in Groups : G = {g} /\ Fill(c, g)
    BY <1>0, <2>2, FillWrites
  <2> QED BY <2>1, <2>2
<1>2. WritesMaps(c, m)
  <2>1. CASE m = {} /\ UNCHANGED params
    BY <2>1 DEF WritesMaps
  <2>2. CASE FillMap(c, m)
    BY <1>0, <2>2, FillMapEffect DEF WritesMaps
  <2> QED BY <2>1, <2>2
<1> QED BY <1>1, <1>2 DEF Writes

\* Writing adds to what the call shows and leaves what other calls show.
LEMMA ShownEffect ==
  ASSUME IInv, NEW c \in Call, NEW label \in Labels, Advance(c, label),
         NEW G \in SUBSET Groups, NEW m \in SUBSET {"in", "out"}, Writes(c, G, m)
  PROVE  /\ Shown(c)' = Shown(c) \cup G \cup m
         /\ \A d \in Call : d # c /\ idx[d] # 0 => Shown(d)' = Shown(d)
<1>0. ChildrenType /\ SliceInv /\ IndexInv
  BY TypeParts DEF IInv
<1>1. UNCHANGED <<slice, idx>> /\ idx[c] # 0
  BY DEF Advance
<1>2. ASSUME NEW d \in Call, idx[d] # 0
      PROVE  /\ arrays'[slice.arr][idx[d]].filled =
                  IF idx[d] = idx[c] THEN arrays[slice.arr][idx[d]].filled \cup G
                  ELSE arrays[slice.arr][idx[d]].filled
             /\ params'[idx[d]] =
                  IF idx[d] = idx[c] THEN params[idx[d]] \cup m ELSE params[idx[d]]
  <2>1. /\ slice.arr \in 1..Len(arrays) /\ idx[d] \in 1..Len(arrays[slice.arr])
        /\ idx[d] \in 1..Len(params)
    BY <1>0, <1>2, IndexInRange
  <2> QED BY <2>1 DEF Writes, WritesGroups, WritesMaps
<1>3. Shown(c)' = arrays'[slice.arr][idx[c]].filled \cup params'[idx[c]]
  BY <1>1 DEF Shown
<1>4. Shown(c)' = Shown(c) \cup G \cup m
  <2>1. /\ arrays'[slice.arr][idx[c]].filled = arrays[slice.arr][idx[c]].filled \cup G
        /\ params'[idx[c]] = params[idx[c]] \cup m
    BY <1>1, <1>2
  <2> QED BY <1>3, <2>1 DEF Shown
<1>5. ASSUME NEW d \in Call, d # c, idx[d] # 0
      PROVE  Shown(d)' = Shown(d)
  <2>1. idx[d] # idx[c]
    BY <1>0, <1>5 DEF IndexInv
  <2>2. /\ arrays'[slice.arr][idx[d]].filled = arrays[slice.arr][idx[d]].filled
        /\ params'[idx[d]] = params[idx[d]]
    BY <1>2, <1>5, <2>1
  <2> QED BY <1>1, <2>2 DEF Shown
<1> QED BY <1>4, <1>5

\* One at a time: while a call goes on, no other one holds the lock.
LEMMA LockFree ==
  ASSUME IInv, ~handler.concurrent, NEW c \in Call, pc[c] \in Published
  PROVE  lock = "none"
<1>1. ASSUME lock # "none" PROVE FALSE
  <2>1. lock \in Call /\ pc[lock] = "publish"
    BY <1>1, TypeParts DEF IInv, LockInv, LabelsType
  <2>2. ~Idle(lock) /\ ~Idle(c) /\ lock # c
    BY <2>1 DEF Idle, Published
  <2> QED BY <2>1, <2>2 DEF IInv, SequentialInv
<1> QED BY <1>1

\* What the other calls have come to is not touched.
LEMMA OthersProgress ==
  ASSUME IInv, ~handler.concurrent, NEW c \in Call, GoesOn(c),
         NEW label \in Labels, Advance(c, label),
         NEW G \in SUBSET Groups, NEW m \in SUBSET {"in", "out"}, Writes(c, G, m)
  PROVE  \A d \in Call : d # c /\ idx'[d] # 0 => Progress(d)'
<1> SUFFICES ASSUME NEW d \in Call, d # c, idx'[d] # 0
             PROVE  Progress(d)'
  OBVIOUS
<1>0. LabelsType /\ CallsType
  BY TypeParts DEF IInv
<1>1. idx[d] # 0 /\ kind' = kind /\ pc'[d] = pc[d]
  BY <1>0 DEF Advance, LabelsType
<1>2. Shown(d)' = Shown(d)
  BY <1>1, ShownEffect
<1>3. outcome'[d] = outcome[d]
  <2>1. UNCHANGED outcome \/ \E o : outcome' = [outcome EXCEPT ![c] = o]
    BY DEF GoesOn, WriteInParam, AddHeader, DoCall, LoadMillis, AddMillis, ReportFirst,
           ReportOut, ReportLast, local
  <2>2. outcome \in [Call -> [err : BOOLEAN, dur : handler.durations \cup {0}]]
    BY <1>0 DEF CallsType
  <2> QED BY <2>1, <2>2
<1>4. Progress(d)
  BY <1>1 DEF IInv, SequentialInv
<1> QED BY <1>1, <1>2, <1>3, <1>4 DEF Progress, IsHttp

\* What the call itself has come to is what it shows.
LEMMA OwnProgress ==
  ASSUME IInv, ~handler.concurrent, NEW c \in Call, GoesOn(c)
  PROVE  \A d \in Call : idx'[d] # 0 => Progress(d)'
<1>0. LabelsType /\ IndexInv
  BY TypeParts DEF IInv
<1>1. PICK label \in Labels : Advance(c, label)
  BY GoesOnEffect
<1>2. idx[c] # 0 /\ UNCHANGED <<idx, kind>>
  BY <1>1 DEF Advance
<1>3. Progress(c)
  BY <1>2 DEF IInv, SequentialInv
<1>4. ASSUME NEW G \in SUBSET Groups, NEW m \in SUBSET {"in", "out"},
             (G = {} /\ UNCHANGED arrays) \/ (\E g \in Groups : G = {g} /\ Fill(c, g)),
             (m = {} /\ UNCHANGED params) \/ FillMap(c, m)
      PROVE  /\ Shown(c)' = Shown(c) \cup G \cup m
             /\ \A d \in Call : d # c /\ idx'[d] # 0 => Progress(d)'
  <2>1. Writes(c, G, m)
    BY <1>2, <1>4, WritesEffect
  <2> QED BY <1>1, <2>1, ShownEffect, OthersProgress
<1> DEFINE Goal == \A d \in Call : idx'[d] # 0 => Progress(d)'
<1>5. ASSUME WriteInParam(c) PROVE Goal
  <2>1. pc[c] = "inParam" /\ pc'[c] = "header" /\ UNCHANGED outcome
    BY <1>0, <1>5 DEF WriteInParam, Goto, LabelsType, local
  <2>2. ASSUME kind[c] = "req" /\ Fill(c, "inParam") /\ UNCHANGED params
        PROVE  Goal
    <3>1. /\ Shown(c)' = Shown(c) \cup {"inParam"} \cup {}
          /\ \A d \in Call : d # c /\ idx'[d] # 0 => Progress(d)'
      <4>1. {"inParam"} \in SUBSET Groups /\ {} \in SUBSET {"in", "out"}
        BY DEF Groups
      <4>2. \/ {"inParam"} = {} /\ UNCHANGED arrays
            \/ \E g \in Groups : {"inParam"} = {g} /\ Fill(c, g)
        BY <2>2 DEF Groups
      <4>3. ({} = {} /\ UNCHANGED params) \/ FillMap(c, {})
        BY <2>2
      <4> QED BY <1>4, <4>1, <4>2, <4>3
    <3>2. Progress(c)'
      BY <1>2, <1>3, <2>1, <2>2, <3>1 DEF Progress, IsHttp
    <3> QED BY <3>1, <3>2
  <2>3. ASSUME FillMap(c, {"in"}) /\ UNCHANGED arrays
        PROVE  Goal
    <3>1. /\ Shown(c)' = Shown(c) \cup {} \cup {"in"}
          /\ \A d \in Call : d # c /\ idx'[d] # 0 => Progress(d)'
      <4>1. {} \in SUBSET Groups /\ {"in"} \in SUBSET {"in", "out"}
        BY DEF Groups
      <4>2. \/ {} = {} /\ UNCHANGED arrays
            \/ \E g \in Groups : {} = {g} /\ Fill(c, g)
        BY <2>3 DEF Groups
      <4>3. ({"in"} = {} /\ UNCHANGED params) \/ FillMap(c, {"in"})
        BY <2>3
      <4> QED BY <1>4, <4>1, <4>2, <4>3
    <3>2. Progress(c)'
      BY <1>2, <1>3, <2>1, <2>3, <3>1 DEF Progress, IsHttp
    <3> QED BY <3>1, <3>2
  <2> QED BY <1>5, <2>2, <2>3 DEF WriteInParam, IsHttp
<1>6. ASSUME AddHeader(c) PROVE Goal
  <2>1. pc[c] = "header" /\ pc'[c] = "io" /\ UNCHANGED outcome
    BY <1>0, <1>6 DEF AddHeader, Goto, LabelsType, local
  <2>2. UNCHANGED <<arrays, params>>
    BY <1>6 DEF AddHeader, child
  <2>3. /\ Shown(c)' = Shown(c)
        /\ \A d \in Call : d # c /\ idx'[d] # 0 => Progress(d)'
    <3>1. /\ Shown(c)' = Shown(c) \cup {} \cup {}
          /\ \A d \in Call : d # c /\ idx'[d] # 0 => Progress(d)'
      <4>1. {} \in SUBSET Groups /\ {} \in SUBSET {"in", "out"}
        OBVIOUS
      <4>2. \/ {} = {} /\ UNCHANGED arrays
            \/ \E g \in Groups : {} = {g} /\ Fill(c, g)
        BY <2>2
      <4>3. ({} = {} /\ UNCHANGED params) \/ FillMap(c, {})
        BY <2>2
      <4> QED BY <1>4, <4>1, <4>2, <4>3
    <3> QED BY <3>1
  <2>4. Progress(c)'
    BY <1>2, <1>3, <2>1, <2>3 DEF Progress, IsHttp
  <2> QED BY <2>3, <2>4
<1>7. ASSUME DoCall(c) PROVE Goal
  <2>1. pc[c] = "io" /\ pc'[c] = "load"
    BY <1>0, <1>7 DEF DoCall, Goto, LabelsType, local
  <2>2. UNCHANGED <<arrays, params>>
    BY <1>7 DEF DoCall, child
  <2>3. /\ Shown(c)' = Shown(c)
        /\ \A d \in Call : d # c /\ idx'[d] # 0 => Progress(d)'
    <3>1. /\ Shown(c)' = Shown(c) \cup {} \cup {}
          /\ \A d \in Call : d # c /\ idx'[d] # 0 => Progress(d)'
      <4>1. {} \in SUBSET Groups /\ {} \in SUBSET {"in", "out"}
        OBVIOUS
      <4>2. \/ {} = {} /\ UNCHANGED arrays
            \/ \E g \in Groups : {} = {g} /\ Fill(c, g)
        BY <2>2
      <4>3. ({} = {} /\ UNCHANGED params) \/ FillMap(c, {})
        BY <2>2
      <4> QED BY <1>4, <4>1, <4>2, <4>3
    <3> QED BY <3>1
  <2>4. Progress(c)'
    BY <1>2, <1>3, <2>1, <2>3 DEF Progress, IsHttp
  <2> QED BY <2>3, <2>4
<1>8. ASSUME LoadMillis(c) PROVE Goal
  <2>1. pc[c] = "load" /\ pc'[c] = "store" /\ UNCHANGED outcome
    BY <1>0, <1>8 DEF LoadMillis, Goto, LabelsType, local
  <2>2. UNCHANGED <<arrays, params>>
    BY <1>8 DEF LoadMillis, child
  <2>3. /\ Shown(c)' = Shown(c)
        /\ \A d \in Call : d # c /\ idx'[d] # 0 => Progress(d)'
    <3>1. /\ Shown(c)' = Shown(c) \cup {} \cup {}
          /\ \A d \in Call : d # c /\ idx'[d] # 0 => Progress(d)'
      <4>1. {} \in SUBSET Groups /\ {} \in SUBSET {"in", "out"}
        OBVIOUS
      <4>2. \/ {} = {} /\ UNCHANGED arrays
            \/ \E g \in Groups : {} = {g} /\ Fill(c, g)
        BY <2>2
      <4>3. ({} = {} /\ UNCHANGED params) \/ FillMap(c, {})
        BY <2>2
      <4> QED BY <1>4, <4>1, <4>2, <4>3
    <3> QED BY <3>1
  <2>4. Progress(c)'
    BY <1>2, <1>3, <2>1, <2>3 DEF Progress, IsHttp
  <2> QED BY <2>3, <2>4
<1>9. ASSUME AddMillis(c) PROVE Goal
  <2>1. pc[c] = "store" /\ pc'[c] = "report" /\ UNCHANGED outcome
    BY <1>0, <1>9 DEF AddMillis, Goto, LabelsType, local
  <2>2. UNCHANGED <<arrays, params>>
    BY <1>9 DEF AddMillis, child
  <2>3. /\ Shown(c)' = Shown(c)
        /\ \A d \in Call : d # c /\ idx'[d] # 0 => Progress(d)'
    <3>1. /\ Shown(c)' = Shown(c) \cup {} \cup {}
          /\ \A d \in Call : d # c /\ idx'[d] # 0 => Progress(d)'
      <4>1. {} \in SUBSET Groups /\ {} \in SUBSET {"in", "out"}
        OBVIOUS
      <4>2. \/ {} = {} /\ UNCHANGED arrays
            \/ \E g \in Groups : {} = {g} /\ Fill(c, g)
        BY <2>2
      <4>3. ({} = {} /\ UNCHANGED params) \/ FillMap(c, {})
        BY <2>2
      <4> QED BY <1>4, <4>1, <4>2, <4>3
    <3> QED BY <3>1
  <2>4. Progress(c)'
    BY <1>2, <1>3, <2>1, <2>3 DEF Progress, IsHttp
  <2> QED BY <2>3, <2>4
<1>10. ASSUME ReportFirst(c) PROVE Goal
  <2>1. pc[c] = "report" /\ pc'[c] = "out" /\ UNCHANGED outcome
    BY <1>0, <1>10 DEF ReportFirst, Goto, LabelsType, local
  <2>2. ASSUME IsHttp(c) /\ Fill(c, "uri") /\ UNCHANGED params
        PROVE  Goal
    <3>1. /\ Shown(c)' = Shown(c) \cup {"uri"} \cup {}
          /\ \A d \in Call : d # c /\ idx'[d] # 0 => Progress(d)'
      <4>1. {"uri"} \in SUBSET Groups /\ {} \in SUBSET {"in", "out"}
        BY DEF Groups
      <4>2. \/ {"uri"} = {} /\ UNCHANGED arrays
            \/ \E g \in Groups : {"uri"} = {g} /\ Fill(c, g)
        BY <2>2 DEF Groups
      <4>3. ({} = {} /\ UNCHANGED params) \/ FillMap(c, {})
        BY <2>2
      <4> QED BY <1>4, <4>1, <4>2, <4>3
    <3>2. Progress(c)'
      BY <1>2, <1>3, <2>1, <2>2, <3>1 DEF Progress, IsHttp
    <3> QED BY <3>1, <3>2
  <2>3. ASSUME ~IsHttp(c) /\ Fill(c, "end") /\ FillMap(c, {"in"})
        PROVE  Goal
    <3>1. /\ Shown(c)' = Shown(c) \cup {"end"} \cup {"in"}
          /\ \A d \in Call : d # c /\ idx'[d] # 0 => Progress(d)'
      <4>1. {"end"} \in SUBSET Groups /\ {"in"} \in SUBSET {"in", "out"}
        BY DEF Groups
      <4>2. \/ {"end"} = {} /\ UNCHANGED arrays
            \/ \E g \in Groups : {"end"} = {g} /\ Fill(c, g)
        BY <2>3 DEF Groups
      <4>3. ({"in"} = {} /\ UNCHANGED params) \/ FillMap(c, {"in"})
        BY <2>3
      <4> QED BY <1>4, <4>1, <4>2, <4>3
    <3>2. Progress(c)'
      BY <1>2, <1>3, <2>1, <2>3, <3>1 DEF Progress, IsHttp
    <3> QED BY <3>1, <3>2
  <2> QED BY <1>10, <2>2, <2>3 DEF ReportFirst, IsHttp
<1>11. ASSUME ReportOut(c) PROVE Goal
  <2>1. pc[c] = "out" /\ pc'[c] = "end" /\ UNCHANGED outcome
    BY <1>0, <1>11 DEF ReportOut, Goto, LabelsType, local
  <2>2. ASSUME NEW m \in {{}, {"out"}}, IsHttp(c) /\ outcome[c].err /\ Fill(c, "exp") /\ FillMap(c, m)
        PROVE  Goal
    <3>1. /\ Shown(c)' = Shown(c) \cup {"exp"} \cup m
          /\ \A d \in Call : d # c /\ idx'[d] # 0 => Progress(d)'
      <4>1. {"exp"} \in SUBSET Groups /\ m \in SUBSET {"in", "out"}
        BY DEF Groups
      <4>2. \/ {"exp"} = {} /\ UNCHANGED arrays
            \/ \E g \in Groups : {"exp"} = {g} /\ Fill(c, g)
        BY <2>2 DEF Groups
      <4>3. (m = {} /\ UNCHANGED params) \/ FillMap(c, m)
        BY <2>2
      <4> QED BY <1>4, <4>1, <4>2, <4>3
    <3>2. Progress(c)'
      BY <1>2, <1>3, <2>1, <2>2, <3>1 DEF Progress, IsHttp
    <3> QED BY <3>1, <3>2
  <2>3. ASSUME ~(IsHttp(c) /\ outcome[c].err) /\ FillMap(c, {"out"}) /\ UNCHANGED arrays
        PROVE  Goal
    <3>1. /\ Shown(c)' = Shown(c) \cup {} \cup {"out"}
          /\ \A d \in Call : d # c /\ idx'[d] # 0 => Progress(d)'
      <4>1. {} \in SUBSET Groups /\ {"out"} \in SUBSET {"in", "out"}
        BY DEF Groups
      <4>2. \/ {} = {} /\ UNCHANGED arrays
            \/ \E g \in Groups : {} = {g} /\ Fill(c, g)
        BY <2>3 DEF Groups
      <4>3. ({"out"} = {} /\ UNCHANGED params) \/ FillMap(c, {"out"})
        BY <2>3
      <4> QED BY <1>4, <4>1, <4>2, <4>3
    <3>2. Progress(c)'
      BY <1>2, <1>3, <2>1, <2>3, <3>1 DEF Progress, IsHttp
    <3> QED BY <3>1, <3>2
  <2> QED BY <1>11, <2>2, <2>3 DEF ReportOut, IsHttp
<1>12. ASSUME ReportLast(c) PROVE Goal
  <2>1. pc[c] = "end" /\ pc'[c] = "done" /\ UNCHANGED outcome
    BY <1>0, <1>12 DEF ReportLast, Goto, LabelsType, local
  <2>2. ASSUME IsHttp(c) /\ Fill(c, "end") /\ UNCHANGED params
        PROVE  Goal
    <3>1. /\ Shown(c)' = Shown(c) \cup {"end"} \cup {}
          /\ \A d \in Call : d # c /\ idx'[d] # 0 => Progress(d)'
      <4>1. {"end"} \in SUBSET Groups /\ {} \in SUBSET {"in", "out"}
        BY DEF Groups
      <4>2. \/ {"end"} = {} /\ UNCHANGED arrays
            \/ \E g \in Groups : {"end"} = {g} /\ Fill(c, g)
        BY <2>2 DEF Groups
      <4>3. ({} = {} /\ UNCHANGED params) \/ FillMap(c, {})
        BY <2>2
      <4> QED BY <1>4, <4>1, <4>2, <4>3
    <3>2. Progress(c)'
      BY <1>2, <1>3, <2>1, <2>2, <3>1 DEF Progress, IsHttp
    <3> QED BY <3>1, <3>2
  <2>3. ASSUME ~IsHttp(c) /\ Fill(c, "uri") /\ UNCHANGED params
        PROVE  Goal
    <3>1. /\ Shown(c)' = Shown(c) \cup {"uri"} \cup {}
          /\ \A d \in Call : d # c /\ idx'[d] # 0 => Progress(d)'
      <4>1. {"uri"} \in SUBSET Groups /\ {} \in SUBSET {"in", "out"}
        BY DEF Groups
      <4>2. \/ {"uri"} = {} /\ UNCHANGED arrays
            \/ \E g \in Groups : {"uri"} = {g} /\ Fill(c, g)
        BY <2>3 DEF Groups
      <4>3. ({} = {} /\ UNCHANGED params) \/ FillMap(c, {})
        BY <2>3
      <4> QED BY <1>4, <4>1, <4>2, <4>3
    <3>2. Progress(c)'
      BY <1>2, <1>3, <2>1, <2>3, <3>1 DEF Progress, IsHttp
    <3> QED BY <3>1, <3>2
  <2> QED BY <1>12, <2>2, <2>3 DEF ReportLast, IsHttp
<1> QED BY <1>5, <1>6, <1>7, <1>8, <1>9, <1>10, <1>11, <1>12 DEF GoesOn

LEMMA SequentialNext ==
  ASSUME IInv, [Next]_vars
  PROVE  SequentialInv'
<1>0. ChildrenType /\ SliceInv /\ IndexInv /\ LabelsType /\ CallsType /\ SequentialInv
  BY TypeParts DEF IInv
<1>1. handler' = handler
  BY DEF Next, SendToKafka, Step, Start, AppendChild, PublishChild, WriteInParam, AddHeader,
         DoCall, LoadMillis, AddMillis, ReportFirst, ReportOut, ReportLast, request, vars
<1> DEFINE OneAtATime == \A c, d \in Call : ~Idle(c) /\ ~Idle(d) => c = d
           CopyIsFull == slice.arr # 0 => \A i \in 1..slice.len :
                           arrays[Len(arrays)][i].filled = arrays[slice.arr][i].filled
           AllProgress == \A c \in Call : idx[c] # 0 => Progress(c)
<1>2. SUFFICES ASSUME ~handler.concurrent
               PROVE  OneAtATime' /\ CopyIsFull' /\ AllProgress'
  BY <1>1 DEF SequentialInv
<1>3. OneAtATime /\ CopyIsFull /\ AllProgress
  BY <1>0, <1>2 DEF SequentialInv
<1>4. ASSUME NEW c \in Call, NEW l, pc' = [pc EXCEPT ![c] = l],
             ~Idle(c) \/ \A d \in Call : Idle(d)
      PROVE  OneAtATime'
  <2>1. \A d \in Call : d # c => pc'[d] = pc[d]
    BY <1>0, <1>4 DEF LabelsType
  <2>2. \A d \in Call : d # c => Idle(d)
    BY <1>3, <1>4
  <2>3. \A d \in Call : d # c => Idle(d)'
    BY <2>1, <2>2 DEF Idle
  <2> QED BY <2>3
<1>5. ASSUME NEW c \in Call, Start(c)
      PROVE  OneAtATime' /\ CopyIsFull' /\ AllProgress'
  <2>1. OneAtATime'
    BY <1>2, <1>4, <1>5 DEF Start, Goto
  <2>2. CopyIsFull'
    BY <1>3, <1>5 DEF Start, child
  <2>3. ASSUME NEW d \in Call, idx'[d] # 0
        PROVE  Progress(d)'
    <3>1. UNCHANGED <<idx, outcome, arrays, params, slice>> /\ pc[c] = "idle"
      BY <1>5 DEF Start, child
    <3>2. d # c
      BY <1>0, <2>3, <3>1 DEF IndexInv, Published
    <3>3. \E k : kind' = [kind EXCEPT ![c] = k]
      BY <1>5 DEF Start
    <3>4. \E l : pc' = [pc EXCEPT ![c] = l]
      BY <1>5 DEF Start, Goto
    <3>5. kind'[d] = kind[d] /\ pc'[d] = pc[d]
      BY <1>0, <3>2, <3>3, <3>4 DEF CallsType, LabelsType
    <3>6. Shown(d)' = Shown(d)
      BY <3>1 DEF Shown
    <3>7. Progress(d)
      BY <1>3, <2>3, <3>1
    <3> QED BY <3>1, <3>5, <3>6, <3>7 DEF Progress, IsHttp
  <2> QED BY <2>1, <2>2, <2>3
<1>6. ASSUME NEW c \in Call, AppendChild(c)
      PROVE  OneAtATime' /\ CopyIsFull' /\ AllProgress'
  <2>1. /\ pc[c] = "append" /\ pc' = [pc EXCEPT ![c] = "publish"] /\ lock = "none"
        /\ UNCHANGED <<slice, params, kind, idx, outcome>>
    BY <1>6 DEF AppendChild, Goto, local
  <2>2. OneAtATime'
    BY <1>4, <2>1 DEF Idle
  <2>3. Appended
    BY <1>6, AppendEffect
  <2>4. slice.arr = Len(arrays) /\ slice.arr \in Nat
    BY <1>0, <2>1 DEF SliceInv, ChildrenType
  <2>5. ASSUME NEW i \in 1..slice.len, slice.arr # 0
        PROVE  /\ arrays'[Len(arrays')][i].filled = arrays[slice.arr][i].filled
               /\ arrays'[slice.arr][i].filled = arrays[slice.arr][i].filled
    <3>1. arrays'[Len(arrays')][i] = arrays[slice.arr][i]
      BY <2>3, <2>5 DEF Appended
    <3>2. CASE Len(arrays') = Len(arrays)
      BY <2>4, <3>1, <3>2
    <3>3. CASE Len(arrays') # Len(arrays)
      <4>1. arrays'[slice.arr] = arrays[slice.arr]
        BY <2>3, <2>4, <2>5, <3>3 DEF Appended
      <4> QED BY <3>1, <4>1
    <3> QED BY <3>2, <3>3
  <2>6. CopyIsFull'
    BY <2>1, <2>5
  <2>7. ASSUME NEW d \in Call, idx'[d] # 0
        PROVE  Progress(d)'
    <3>1. idx[d] # 0 /\ d # c
      BY <1>0, <2>1, <2>7 DEF IndexInv, Published
    <3>2. pc'[d] = pc[d]
      BY <1>0, <2>1, <3>1 DEF LabelsType
    <3>3. idx[d] \in 1..slice.len /\ slice.arr # 0
      BY <1>0, <3>1, IndexInRange
    <3>4. arrays'[slice.arr][idx[d]].filled = arrays[slice.arr][idx[d]].filled
      BY <2>5, <3>3
    <3>5. Shown(d)' = Shown(d)
      BY <2>1, <3>4 DEF Shown
    <3>6. Progress(d)
      BY <1>3, <3>1
    <3> QED BY <2>1, <3>2, <3>5, <3>6 DEF Progress, IsHttp
  <2> QED BY <2>2, <2>6, <2>7
<1>7. ASSUME NEW c \in Call, PublishChild(c)
      PROVE  OneAtATime' /\ CopyIsFull' /\ AllProgress'
  <2>1. /\ lock # "none" /\ idx[c] = 0
        /\ \A i \in 1..Len(params) : params'[i] = params[i]
    BY <1>7, PublishEffect
  <2>2. /\ pc[c] = "publish" /\ UNCHANGED <<arrays, kind, outcome>>
        /\ pc' = [pc EXCEPT ![c] = IF IsHttp(c) THEN "inParam" ELSE "io"]
        /\ idx' = [idx EXCEPT ![c] = slice.len + 1]
        /\ slice'.arr = Len(arrays)
    BY <1>7 DEF PublishChild, Goto
  <2>3. OneAtATime'
    BY <1>4, <2>2 DEF Idle
  <2>4. CopyIsFull'
    BY <2>2
  <2>5. ASSUME NEW d \in Call, d # c, idx'[d] # 0
        PROVE  Progress(d)'
    <3>1. idx'[d] = idx[d] /\ pc'[d] = pc[d] /\ idx[d] # 0
      BY <1>0, <2>2, <2>5 DEF CallsType, LabelsType
    <3>2. idx[d] \in 1..slice.len /\ slice.arr # 0 /\ idx[d] \in 1..Len(params)
      BY <1>0, <3>1, IndexInRange
    <3>3. arrays[Len(arrays)][idx[d]].filled = arrays[slice.arr][idx[d]].filled
      BY <1>3, <3>2
    <3>4. Shown(d)' = arrays[Len(arrays)][idx[d]].filled \cup params'[idx[d]]
      BY <2>2, <3>1 DEF Shown
    <3>5. Shown(d)' = Shown(d)
      BY <2>1, <3>2, <3>3, <3>4 DEF Shown
    <3>6. Progress(d)
      BY <1>3, <3>1
    <3> QED BY <2>2, <3>1, <3>5, <3>6 DEF Progress, IsHttp
  <2>6. Progress(c)'
    <3>1. pc'[c] = IF IsHttp(c) THEN "inParam" ELSE "io"
      BY <1>0, <2>2 DEF LabelsType
    <3>2. IsHttp(c)' = IsHttp(c)
      BY <2>2 DEF IsHttp
    <3> QED BY <3>1, <3>2 DEF Progress
  <2> QED BY <2>3, <2>4, <2>5, <2>6
<1>8. ASSUME NEW c \in Call, GoesOn(c)
      PROVE  OneAtATime' /\ CopyIsFull' /\ AllProgress'
  <2>1. PICK label \in Labels : Advance(c, label)
    BY <1>8, GoesOnEffect
  <2>2. ~Idle(c) /\ pc' = [pc EXCEPT ![c] = label]
    BY <2>1 DEF Advance, Idle, Published
  <2>3. OneAtATime'
    BY <1>4, <2>2
  <2>4. CopyIsFull'
    <3>1. lock = "none"
      BY <1>2, <2>1, LockFree DEF Advance
    <3>2. slice.arr = Len(arrays)
      BY <1>0, <3>1 DEF SliceInv
    <3>3. slice'.arr = Len(arrays')
      BY <2>1, <3>2 DEF Advance, SameShape
    <3> QED BY <3>3
  <2>5. AllProgress'
    BY <1>2, <1>8, OwnProgress
  <2> QED BY <2>3, <2>4, <2>5
<1>9. ASSUME SendToKafka \/ Stutter
      PROVE  OneAtATime' /\ CopyIsFull' /\ AllProgress'
  <2>1. UNCHANGED <<slice, arrays, params, pc, kind, idx, outcome>>
    BY <1>9 DEF SendToKafka, Stutter, vars, child, local
  <2>2. OneAtATime' /\ CopyIsFull'
    BY <1>3, <2>1 DEF Idle
  <2>3. ASSUME NEW d \in Call, idx'[d] # 0 PROVE Progress(d)'
    <3>1. Shown(d)' = Shown(d) /\ Progress(d)
      BY <1>3, <2>1, <2>3 DEF Shown
    <3> QED BY <2>1, <3>1 DEF Progress, IsHttp
  <2> QED BY <2>2, <2>3
<1> HIDE DEF OneAtATime, CopyIsFull, AllProgress
<1> QED BY <1>3, <1>5, <1>6, <1>7, <1>8, <1>9, NextCases DEF Stutter
-----------------------------------------------------------------------------
\* What comes of a header, whatever was in it.
LEMMA TraceOfHeader ==
  ASSUME NEW header \in [present : BOOLEAN, fields : SUBSET Fields, spanId : Seq(Nat),
                         err : BOOLEAN]
  PROVE  LET t == getTraceInfo(header) IN
         /\ t \in Trace_t
         /\ \/ \A f \in Fields : t.info[f] # "own"
            \/ /\ \A f \in Fields \ {"sourceIp"} : t.info[f] = "own"
               /\ t.spanId = <<1>>
<1>1. CASE header.present /\ ~header.err
  BY <1>1 DEF getTraceInfo, Trace_t, TraceInfo
<1>2. CASE ~(header.present /\ ~header.err)
  BY <1>2 DEF getTraceInfo, Trace_t, TraceInfo
<1> QED BY <1>1, <1>2

LEMMA InitInv == Init => IInv
<1> SUFFICES ASSUME Init PROVE IInv
  OBVIOUS
<1> USE DEF Init
<1>1. handler \in Handlers /\ trace = getTraceInfo(handler.header)
  OBVIOUS
<1>2. handler.header \in [present : BOOLEAN, fields : SUBSET Fields, spanId : Seq(Nat),
                          err : BOOLEAN]
  BY <1>1, StatusAssumption
<1>3. /\ trace \in Trace_t
      /\ \/ \A f \in Fields : trace.info[f] # "own"
         \/ /\ \A f \in Fields \ {"sourceIp"} : trace.info[f] = "own"
            /\ trace.spanId = <<1>>
  BY <1>1, <1>2, TraceOfHeader
<1>4. RequestType
  BY <1>1, <1>3 DEF RequestType
<1>5. ChildrenType
  BY DEF ChildrenType
<1>6. LabelsType
  BY DEF LabelsType, Labels
<1>7. CallsType
  <2>1. Cardinality(Call) \in Nat
    BY FS_CardinalityType, StatusAssumption
  <2>2. NoTrace \in Trace_t
    <3>1. [f \in Fields |-> ""] \in TraceInfo
      BY DEF TraceInfo
    <3>2. <<>> \in Seq(Nat)
      OBVIOUS
    <3> QED BY <3>1, <3>2 DEF NoTrace, Trace_t
  <2>3. NoOutcome \in [err : BOOLEAN, dur : handler.durations \cup {0}]
    BY DEF NoOutcome
  <2> QED BY <2>1, <2>2, <2>3 DEF CallsType
<1>8. LockInv /\ SliceInv
  BY StatusAssumption DEF LockInv, SliceInv
<1>9. IndexInv
  <2>1. Called = {}
    BY DEF Called
  <2>2. Cardinality(Called) = 0
    BY <2>1, FS_EmptySet
  <2> QED BY <2>2 DEF IndexInv, Published
<1>10. TraceInv
  BY <1>3 DEF TraceInv
<1>11. SequentialInv /\ ReportInv
  BY DEF SequentialInv, ReportInv, Idle
<1> QED BY <1>4, <1>5, <1>6, <1>7, <1>8, <1>9, <1>10, <1>11, TypeParts DEF IInv

\* The inductive invariant holds for any sub-calls, handlers and headers.
THEOREM Invariant == Spec => []IInv
<1>1. Init => IInv
  BY InitInv
<1>2. IInv /\ [Next]_vars => IInv'
  <2> SUFFICES ASSUME IInv, [Next]_vars PROVE IInv'
    OBVIOUS
  <2>1. ChildrenType' /\ LabelsType' /\ RequestType' /\ CallsType'
    BY ChildrenTypeNext, LabelsTypeNext, CallsTypeNext
  <2>2. TypeOK'
    <3>1. TypeOK <=> ChildrenType /\ LabelsType /\ CallsType /\ RequestType
      BY TypeParts
    <3>2. TypeOK' <=> ChildrenType' /\ LabelsType' /\ CallsType' /\ RequestType'
      BY TypeParts, PTL
    <3> QED BY <2>1, <3>2
  <2>3. LockInv' /\ SliceInv' /\ IndexInv' /\ TraceInv' /\ ReportInv' /\ SequentialInv'
    BY LockNext, IndexNext, TraceNext, ReportNext, SequentialNext
  <2> QED BY <2>2, <2>3 DEF IInv
<1> QED BY <1>1, <1>2, PTL DEF Spec

\* Every variable of a request keeps its type: the slice never refers past its
\* array or its array past its capacity, and indexes are positions of children.
THEOREM TypeCorrect == Spec => []TypeOK
<1>1. IInv => TypeOK
  BY DEF IInv
<1> QED BY <1>1, Invariant, PTL

\* However many goroutines make sub-calls, each sends the trace of its request
\* with the span id of its own child, and the trace is of one request.
THEOREM SpanIdsCorrect == Spec => []SpanIdIsPosition
<1>1. IInv => SpanIdIsPosition
  <2> SUFFICES ASSUME IInv PROVE SpanIdIsPosition
    OBVIOUS
  <2>0. ChildrenType /\ SliceInv /\ IndexInv /\ TraceInv
    BY TypeParts DEF IInv
  <2>1. ASSUME NEW i \in 1..slice.len
        PROVE  Children[i].trace = ChildTrace(i)
    <3>1. slice.len \in Nat
      BY <2>0 DEF ChildrenType
    <3>2. slice.arr # 0 /\ slice.arr \in 1..Len(arrays)
      BY <2>0, <3>1 DEF ChildrenType
    <3>3. arrays[slice.arr] \in Seq(Child_t) /\ slice.len <= Len(arrays[slice.arr])
      BY <2>0, <3>2 DEF ChildrenType, Children_t
    <3>4. Children[i] = arrays[slice.arr][i] /\ i \in 1..Len(arrays[slice.arr])
      BY <3>1, <3>2, <3>3 DEF Children
    <3> QED BY <2>0, <3>2, <3>4 DEF TraceInv
  <2>2. ASSUME NEW c \in Call, sentTrace[c] # NoTrace
        PROVE  sentTrace[c] = Children[idx[c]].trace
    <3>1. idx[c] # 0 /\ sentTrace[c] = ChildTrace(idx[c])
      BY <2>0, <2>2 DEF TraceInv
    <3>2. idx[c] \in 1..slice.len
      BY <2>0, <3>1, IndexInRange
    <3> QED BY <2>1, <3>1, <3>2
  <2>3. \A c, d \in Call : c # d /\ idx[c] # 0 => idx[c] # idx[d]
    BY <2>0 DEF IndexInv
  <2> QED BY <2>0, <2>1, <2>2, <2>3 DEF SpanIdIsPosition, TraceInv, ChildTrace
<1> QED BY <1>1, Invariant, PTL

\* The report of a handler that makes its sub-calls one after another shows all
\* that each filled in, however many there are and whichever of them fail.
THEOREM SequentialReports == Spec => []SequentialIsComplete
<1>1. IInv => SequentialIsComplete
  <2> SUFFICES ASSUME IInv, ~handler.concurrent, Sent, NEW c \in Call, idx[c] # 0
               PROVE  Filled(c)
    BY DEF SequentialIsComplete, ReportIsComplete
  <2>0. ChildrenType /\ SliceInv /\ IndexInv
    BY TypeParts DEF IInv
  <2>1. pc[c] = "done"
    BY <2>0 DEF IInv, ReportInv, Sent, Idle, IndexInv, Published
  <2>2. Progress(c)
    BY DEF IInv, SequentialInv
  <2>3. Children[idx[c]] = arrays[slice.arr][idx[c]]
    <3>1. slice.arr \in 1..Len(arrays) /\ idx[c] \in 1..slice.len
      BY <2>0, IndexInRange
    <3>2. /\ arrays[slice.arr] \in Seq(Child_t) /\ slice.len \in Nat
          /\ slice.len <= Len(arrays[slice.arr])
      BY <2>0, <3>1 DEF ChildrenType, Children_t
    <3> QED BY <3>1, <3>2 DEF Children
  <2>4. Shown(c) = Children[idx[c]].filled \cup params[idx[c]]
    BY <2>3 DEF Shown
  <2> QED BY <2>1, <2>2, <2>4 DEF Progress, Filled, IsHttp
<1> QED BY <1>1, Invariant, PTL
-----------------------------------------------------------------------------
(* Sums.  SumFunctionOnSet is defined by recursion on the set: that such a *)
(* function exists and is unique, and that the order of the summands does  *)
(* not matter, is shown by the least size at which it could fail.          *)

\* The natural numbers are well founded.
LEMMA LeastNat ==
  ASSUME NEW T, T \subseteq Nat, T # {}
  PROVE  \E n \in T : \A m \in T : n <= m
<1> DEFINE R == OpToRel(<, Nat)
<1>1. IsWellFoundedOn(R, Nat)
  BY NatLessThanWellFounded
<1>2. \A x, y \in Nat : <<y, x>> \in R <=> y < x
  BY DEF OpToRel
<1> HIDE DEF R
<1>3. \E x \in T : \A y \in T : ~(<<y, x>> \in R)
  BY <1>1, WFMin, Zenon
<1>4. PICK x \in T : \A y \in T : ~(<<y, x>> \in R)
  BY <1>3
<1>5. x \in Nat /\ \A y \in T : y \in Nat /\ ~(y < x)
  BY <1>2, <1>4, Zenon
<1>6. \A y \in T : x <= y
  BY <1>5
<1> QED BY <1>6

\* The summand that the sum of a set takes first, and the recursion.
Pick(S) == CHOOSE c \in S : TRUE
Sums(f, K, g) ==
    g = [S \in SUBSET K |-> IF S = {} THEN 0 ELSE f[Pick(S)] + g[S \ {Pick(S)}]]

LEMMA SumIsRecursive ==
  ASSUME NEW f, NEW K
  PROVE  SumFunctionOnSet(f, K) = (CHOOSE g : Sums(f, K, g))[K]
  BY DEF SumFunctionOnSet, FoldFunctionOnSet, MapThenFoldSet, Pick, Sums

\* The recursion of a sum defines a function.
LEMMA SumsExist ==
  ASSUME NEW C, IsFiniteSet(C), NEW f \in [C -> Nat]
  PROVE  \E g \in [SUBSET C -> Nat] : Sums(f, C, g)
<1> DEFINE D(n) == {S \in SUBSET C : Cardinality(S) <= n}
           Upto(n) == \E g \in [D(n) -> Nat] :
                        \A S \in D(n) : g[S] = IF S = {} THEN 0 ELSE f[Pick(S)] + g[S \ {Pick(S)}]
<1>1. \A S \in SUBSET C : IsFiniteSet(S) /\ Cardinality(S) \in Nat
  BY FS_Subset, FS_CardinalityType
<1>2. ASSUME NEW n \in Nat, NEW S \in D(n), S # {}
      PROVE  /\ Pick(S) \in C
             /\ S \ {Pick(S)} \in D(n)
             /\ \A m \in Nat : n <= m + 1 => S \ {Pick(S)} \in D(m)
  <2>1. Pick(S) \in S
    BY <1>2 DEF Pick
  <2>2. Cardinality(S \ {Pick(S)}) = Cardinality(S) - 1
    BY <1>1, <2>1, FS_RemoveElement
  <2>3. S \ {Pick(S)} \in SUBSET C /\ Cardinality(S) \in Nat /\ Cardinality(S) <= n
    BY <1>1
  <2> QED BY <2>1, <2>2, <2>3
<1>3. Upto(0)
  <2> DEFINE g == [S \in D(0) |-> 0]
  <2>1. \A S \in D(0) : S = {}
    <3> SUFFICES ASSUME NEW S \in D(0) PROVE S = {}
      OBVIOUS
    <3>1. Cardinality(S) = 0
      BY <1>1
    <3> QED BY <1>1, <3>1, FS_EmptySet
  <2>2. g \in [D(0) -> Nat] /\ \A S \in D(0) : g[S] = 0
    OBVIOUS
  <2> HIDE DEF g, D
  <2> QED BY <2>1, <2>2
<1>4. ASSUME NEW n \in Nat, Upto(n) PROVE Upto(n + 1)
  <2>1. PICK g \in [D(n) -> Nat] :
          \A S \in D(n) : g[S] = IF S = {} THEN 0 ELSE f[Pick(S)] + g[S \ {Pick(S)}]
    BY <1>4
  <2> DEFINE h == [S \in D(n + 1) |-> IF S = {} THEN 0 ELSE f[Pick(S)] + g[S \ {Pick(S)}]]
  <2>2. \A S \in D(n + 1) : S # {} => Pick(S) \in C /\ S \ {Pick(S)} \in D(n) /\ S \ {Pick(S)} \in D(n + 1)
    BY <1>2
  <2>3. \A S \in D(n) : S \in D(n + 1)
    BY <1>1
  <2> HIDE DEF D
  <2>4. h \in [D(n + 1) -> Nat]
    BY <2>2
  <2>5. \A S \in D(n) : h[S] = g[S]
    BY <2>1, <2>3
  <2>6. \A S \in D(n + 1) : h[S] = IF S = {} THEN 0 ELSE f[Pick(S)] + h[S \ {Pick(S)}]
    BY <2>2, <2>5
  <2> HIDE DEF h
  <2> QED BY <2>4, <2>6
<1>5. \A n \in Nat : Upto(n)
  <2> DEFINE T == {n \in Nat : ~Upto(n)}
  <2> HIDE DEF Upto
  <2> SUFFICES ASSUME T # {} PROVE FALSE
    OBVIOUS
  <2>1. PICK n \in T : \A m \in T : n <= m
    <3>1. T \subseteq Nat
      OBVIOUS
    <3> HIDE DEF T
    <3> QED BY <3>1, LeastNat
  <2>2. n # 0 /\ n \in Nat
    BY <1>3
  <2>3. n - 1 \in Nat /\ n - 1 \notin T
    BY <2>1, <2>2
  <2>4. Upto(n - 1)
    BY <2>3
  <2>5. Upto((n - 1) + 1)
    BY <1>4, <2>3, <2>4
  <2> QED BY <2>1, <2>2, <2>5
<1>6. D(Cardinality(C)) = SUBSET C
  BY FS_Subset
<1>7. Cardinality(C) \in Nat
  BY FS_CardinalityType
<1>8. Upto(Cardinality(C))
  <2> HIDE DEF Upto
  <2> QED BY <1>5, <1>7
<1>9. PICK g \in [SUBSET C -> Nat] :
        \A S \in SUBSET C : g[S] = IF S = {} THEN 0 ELSE f[Pick(S)] + g[S \ {Pick(S)}]
  BY <1>6, <1>8
<1>10. Sums(f, C, g)
  BY <1>9 DEF Sums
<1> QED BY <1>10

\* A sum is taken of the values on its set, wherever the function is defined.
LEMMA SumsUnique ==
  ASSUME NEW C, IsFiniteSet(C), NEW f \in [C -> Nat], NEW h, Sums(f, C, h),
         NEW K \in SUBSET C, NEW e, \A c \in K : e[c] = f[c], NEW g, Sums(e, K, g)
  PROVE  \A S \in SUBSET K : g[S] = h[S]
<1> DEFINE T == {n \in Nat : \E S \in SUBSET K : Cardinality(S) = n /\ g[S] # h[S]}
<1>1. \A S \in SUBSET K : IsFiniteSet(S) /\ Cardinality(S) \in Nat
  BY FS_Subset, FS_CardinalityType
<1> SUFFICES ASSUME T # {} PROVE FALSE
  BY <1>1
<1>2. PICK n \in T : \A m \in T : n <= m
  <2>1. T \subseteq Nat
    OBVIOUS
  <2> HIDE DEF T
  <2> QED BY <2>1, LeastNat
<1>3. PICK S \in SUBSET K : Cardinality(S) = n /\ g[S] # h[S]
  OBVIOUS
<1>4. /\ g[S] = IF S = {} THEN 0 ELSE e[Pick(S)] + g[S \ {Pick(S)}]
      /\ h[S] = IF S = {} THEN 0 ELSE f[Pick(S)] + h[S \ {Pick(S)}]
  <2>1. \A U \in SUBSET K : g[U] = IF U = {} THEN 0 ELSE e[Pick(U)] + g[U \ {Pick(U)}]
    BY DEF Sums
  <2>2. \A U \in SUBSET C : h[U] = IF U = {} THEN 0 ELSE f[Pick(U)] + h[U \ {Pick(U)}]
    BY DEF Sums
  <2> QED BY <2>1, <2>2
<1>5. S # {} /\ Pick(S) \in S
  BY <1>3, <1>4 DEF Pick
<1>6. S \ {Pick(S)} \in SUBSET K /\ Cardinality(S \ {Pick(S)}) = n - 1 /\ n - 1 \in Nat
  <2>1. Cardinality(S \ {Pick(S)}) = Cardinality(S) - 1
    BY <1>1, <1>5, FS_RemoveElement
  <2>2. Cardinality(S \ {Pick(S)}) \in Nat
    BY <1>1
  <2> QED BY <1>3, <2>1, <2>2
<1>7. n - 1 \notin T
  BY <1>2
<1>8. g[S \ {Pick(S)}] = h[S \ {Pick(S)}]
  BY <1>6, <1>7
<1>9. e[Pick(S)] = f[Pick(S)]
  BY <1>5
<1> QED BY <1>3, <1>4, <1>5, <1>8, <1>9

Adds(f, C, h) == \A S \in SUBSET C : \A x \in S : h[S] = f[x] + h[S \ {x}]

\* It does not matter which value is added first.
LEMMA SumsAny ==
  ASSUME NEW C, IsFiniteSet(C), NEW f \in [C -> Nat],
         NEW h \in [SUBSET C -> Nat], Sums(f, C, h)
  PROVE  Adds(f, C, h)
<1> DEFINE T == {n \in Nat : \E S \in SUBSET C : \E x \in S :
                    Cardinality(S) = n /\ h[S] # f[x] + h[S \ {x}]}
<1>1. \A S \in SUBSET C : IsFiniteSet(S) /\ Cardinality(S) \in Nat
  BY FS_Subset, FS_CardinalityType
<1> SUFFICES ASSUME T # {} PROVE FALSE
  BY <1>1 DEF Adds
<1>2. PICK n \in T : \A m \in T : n <= m
  <2>1. T \subseteq Nat
    OBVIOUS
  <2> HIDE DEF T
  <2> QED BY <2>1, LeastNat
<1>3. PICK S \in SUBSET C : \E x \in S : Cardinality(S) = n /\ h[S] # f[x] + h[S \ {x}]
  OBVIOUS
<1>11. PICK x \in S : Cardinality(S) = n /\ h[S] # f[x] + h[S \ {x}]
  BY <1>3
<1>4. h[S] = f[Pick(S)] + h[S \ {Pick(S)}] /\ Pick(S) \in S
  BY DEF Sums, Pick
<1>5. x # Pick(S)
  BY <1>11, <1>4
<1>12. n - 1 \notin T
  <2>1. n \in Nat
    OBVIOUS
  <2> HIDE DEF T
  <2> QED BY <1>2, <2>1
<1>6. \A y \in S : \A z \in S \ {y} : h[S \ {y}] = f[z] + h[(S \ {y}) \ {z}]
  <2> SUFFICES ASSUME NEW y \in S, NEW z \in S \ {y} PROVE h[S \ {y}] = f[z] + h[(S \ {y}) \ {z}]
    OBVIOUS
  <2>1. Cardinality(S \ {y}) = n - 1 /\ S \ {y} \in SUBSET C
    BY <1>1, <1>11, FS_RemoveElement
  <2>2. n - 1 \in Nat
    BY <1>1, <2>1
  <2> QED BY <1>12, <2>1, <2>2
<1>7. h[S \ {Pick(S)}] = f[x] + h[(S \ {Pick(S)}) \ {x}]
  BY <1>4, <1>5, <1>6
<1>8. h[S \ {x}] = f[Pick(S)] + h[(S \ {x}) \ {Pick(S)}]
  BY <1>4, <1>5, <1>6
<1>9. (S \ {x}) \ {Pick(S)} = (S \ {Pick(S)}) \ {x}
  OBVIOUS
<1>10. /\ f[x] \in Nat /\ f[Pick(S)] \in Nat
       /\ h[(S \ {x}) \ {Pick(S)}] \in Nat
  BY <1>4
<1> DEFINE a == f[x]
           b == f[Pick(S)]
           r == h[(S \ {x}) \ {Pick(S)}]
<1>13. a \in Nat /\ b \in Nat /\ r \in Nat
  BY <1>10
<1>14. h[S] = b + (a + r) /\ h[S \ {x}] = b + r
  BY <1>4, <1>7, <1>8, <1>9
<1> HIDE DEF a, b, r
<1>15. h[S] # a + h[S \ {x}]
  BY <1>11 DEF a
<1> QED BY <1>13, <1>14, <1>15

LEMMA SumIs ==
  ASSUME NEW C, IsFiniteSet(C), NEW f \in [C -> Nat],
         NEW h \in [SUBSET C -> Nat], Sums(f, C, h),
         NEW K \in SUBSET C, NEW e \in [C -> Nat], \A c \in K : e[c] = f[c]
  PROVE  SumFunctionOnSet(e, K) = h[K]
<1> DEFINE d == [c \in K |-> e[c]]
           g == CHOOSE u : Sums(e, K, u)
<1>1. \E u : Sums(e, K, u)
  <2>1. d \in [K -> Nat] /\ IsFiniteSet(K)
    BY FS_Subset
  <2>2. PICK u \in [SUBSET K -> Nat] : Sums(d, K, u)
    <3> HIDE DEF d
    <3> QED BY <2>1, SumsExist
  <2>3. \A S \in SUBSET K : S # {} => d[Pick(S)] = e[Pick(S)]
    BY DEF Pick
  <2>4. Sums(e, K, u)
    BY <2>2, <2>3 DEF Sums
  <2> QED BY <2>4
<1>2. Sums(e, K, g)
  BY <1>1, Zenon
<1>3. SumFunctionOnSet(e, K) = g[K]
  BY SumIsRecursive
<1> HIDE DEF g
<1> QED BY <1>2, <1>3, SumsUnique

\* What the sum of no durations is, and of one more.
LEMMA SumFacts ==
  ASSUME NEW C, IsFiniteSet(C), NEW f \in [C -> Nat], NEW K \in SUBSET C
  PROVE  /\ SumFunctionOnSet(f, K) \in Nat
         /\ SumFunctionOnSet(f, {}) = 0
         /\ \A c \in C \ K :
              SumFunctionOnSet(f, K \cup {c}) = f[c] + SumFunctionOnSet(f, K)
         /\ \A e \in [C -> Nat] : (\A c \in K : e[c] = f[c]) =>
              SumFunctionOnSet(e, K) = SumFunctionOnSet(f, K)
<1>1. PICK h \in [SUBSET C -> Nat] : Sums(f, C, h)
  BY SumsExist
<1>2. \A S \in SUBSET C : SumFunctionOnSet(f, S) = h[S]
  BY <1>1, SumIs
<1>3. h[{}] = 0
  BY <1>1 DEF Sums
<1>4. ASSUME NEW c \in C \ K PROVE h[K \cup {c}] = f[c] + h[K]
  <2>1. (K \cup {c}) \ {c} = K /\ K \cup {c} \in SUBSET C
    OBVIOUS
  <2>2. h[K \cup {c}] = f[c] + h[(K \cup {c}) \ {c}]
    <3>1. Adds(f, C, h)
      BY <1>1, SumsAny
    <3> QED BY <2>1, <3>1 DEF Adds
  <2> QED BY <2>1, <2>2
<1>5. \A e \in [C -> Nat] : (\A c \in K : e[c] = f[c]) => SumFunctionOnSet(e, K) = h[K]
  BY <1>1, SumIs
<1> QED BY <1>2, <1>3, <1>4, <1>5
-----------------------------------------------------------------------------
(* The counter of a handler that makes its calls one after another is the  *)
(* sum of what the calls that have added their duration took.              *)

\* The calls to http services that are past "HttpMillis +=".
Counted == {c \in Call : kind[c] \in Http /\ pc[c] \in {"report", "out", "end", "done"}}

\* A call that has not been made has no duration; one that is about to store
\* the counter has loaded what it still holds.
MillisInv ==
    /\ \A c \in Call : pc[c] = "idle" => kind[c] = "none" /\ outcome[c] = NoOutcome
    /\ ~handler.concurrent =>
         /\ millis.http = SumFunctionOnSet(Spans, Counted)
         /\ \A c \in Call : pc[c] = "store" => loaded[c] = millis[Counter(c)]

LEMMA QuotientType ==
  ASSUME NEW x \in Nat, NEW y \in Nat \ {0}
  PROVE  x \div y \in Nat
OBVIOUS

LEMMA SpansType == CallsType /\ RequestType => Spans \in [Call -> Nat]
<1> SUFFICES ASSUME CallsType, RequestType, NEW c \in Call
             PROVE  outcome[c].dur \div Milli \in Nat
  BY DEF Spans
<1>1. handler.durations \subseteq Nat /\ Milli \in Nat \ {0}
  BY StatusAssumption DEF RequestType
<1>2. outcome[c].dur \in Nat
  <2>1. outcome \in [Call -> [err : BOOLEAN, dur : handler.durations \cup {0}]]
    BY DEF CallsType
  <2>2. outcome[c] \in [err : BOOLEAN, dur : handler.durations \cup {0}]
    BY <2>1
  <2> QED BY <1>1, <2>2
<1> DEFINE d == outcome[c].dur
<1>3. d \in Nat /\ Milli \in Nat \ {0}
  BY <1>1, <1>2
<1> HIDE DEF d
<1>4. d \div Milli \in Nat
  BY <1>3, QuotientType
<1> QED BY <1>4 DEF d

\* A step that changes neither the counter nor what it is the sum of.
LEMMA MillisKept ==
  ASSUME MillisInv, NEW c \in Call, NEW label, pc \in [Call -> Labels],
         pc' = [pc EXCEPT ![c] = label], label \notin {"idle", "store"},
         UNCHANGED <<handler, millis, kind, outcome, loaded>>,
         \/ pc[c] \in {"append", "publish", "inParam", "header"}
            /\ label \notin {"report", "out", "end", "done"}
         \/ pc[c] \in {"report", "out", "end"} /\ label \in {"out", "end", "done"}
  PROVE  MillisInv'
<1>1. Spans' = Spans
  BY DEF Spans
<1>2. Counted' = Counted
  BY DEF Counted
<1>3. \A d \in Call : Counter(d)' = Counter(d)
  BY DEF Counter, IsHttp
<1>4. \A d \in Call : pc'[d] \in {"idle", "store"} => pc'[d] = pc[d]
  OBVIOUS
<1> QED BY <1>1, <1>2, <1>3, <1>4 DEF MillisInv

LEMMA MillisNext ==
  ASSUME IInv, MillisInv, [Next]_vars
  PROVE  MillisInv'
<1>0. CallsType /\ RequestType /\ LabelsType
  BY TypeParts DEF IInv
<1>1. pc \in [Call -> Labels] /\ Spans \in [Call -> Nat] /\ IsFiniteSet(Call)
  BY <1>0, SpansType, StatusAssumption DEF LabelsType
<1>2. CallsType' /\ RequestType'
  BY LabelsTypeNext, CallsTypeNext
<1>3. Spans' \in [Call -> Nat]
  <2>1. (CallsType /\ RequestType => Spans \in [Call -> Nat])'
    BY SpansType, PTL
  <2> QED BY <1>2, <2>1
<1>4. Counted \in SUBSET Call
  BY DEF Counted
<1> DEFINE total == SumFunctionOnSet(Spans, Counted)
<1>5. /\ total \in Nat
      /\ \A c \in Call \ Counted :
           SumFunctionOnSet(Spans, Counted \cup {c}) = Spans[c] + total
      /\ \A e \in [Call -> Nat] : (\A c \in Counted : e[c] = Spans[c]) =>
           SumFunctionOnSet(e, Counted) = total
  <2> HIDE DEF Spans, Counted
  <2> QED BY <1>1, <1>4, SumFacts
<1>6. ASSUME NEW c \in Call, Start(c) PROVE MillisInv'
  <2>1. /\ pc[c] = "idle" /\ kind[c] = "none" /\ outcome[c] = NoOutcome
        /\ UNCHANGED <<handler, millis, outcome, loaded>>
    BY <1>6 DEF MillisInv, Start, request
  <2>2. PICK k : /\ kind' = [kind EXCEPT ![c] = k]
                 /\ \/ pc' = [pc EXCEPT ![c] = "append"]
                    \/ k \in Http /\ pc' = [pc EXCEPT ![c] = "done"]
    BY <1>6 DEF Start, Goto
  <2>3. Spans' = Spans
    BY <2>1 DEF Spans
  <2>4. Spans[c] = 0
    <3>1. Spans[c] = 0 \div Milli
      BY <2>1 DEF Spans, NoOutcome
    <3>2. Milli \in Nat /\ Milli # 0
      BY StatusAssumption
    <3> QED BY <3>1, <3>2
  <2>5. c \notin Counted
    BY <2>1 DEF Counted
  <2>6. SumFunctionOnSet(Spans, Counted') = total
    <3>1. CASE pc' = [pc EXCEPT ![c] = "append"]
      <4>1. Counted' = Counted
        BY <1>0, <1>1, <2>1, <2>2, <3>1 DEF Counted, CallsType
      <4> QED BY <4>1
    <3>2. CASE k \in Http /\ pc' = [pc EXCEPT ![c] = "done"]
      <4>1. Counted' = Counted \cup {c}
        BY <1>0, <1>1, <2>1, <2>2, <3>2 DEF Counted, CallsType
      <4> HIDE DEF total
      <4> QED BY <1>5, <2>4, <2>5, <4>1
    <3> QED BY <2>2, <3>1, <3>2
  <2>7. \A d \in Call : pc'[d] \in {"idle", "store"} =>
          /\ pc'[d] = pc[d] /\ kind'[d] = kind[d] /\ Counter(d)' = Counter(d)
    BY <1>0, <1>1, <2>1, <2>2 DEF Counter, IsHttp, CallsType
  <2> QED BY <2>1, <2>3, <2>6, <2>7 DEF MillisInv
<1>7. ASSUME NEW c \in Call, AppendChild(c) \/ PublishChild(c) PROVE MillisInv'
  <2>1. /\ pc[c] \in {"append", "publish"}
        /\ \E l \in {"publish", "inParam", "io"} : pc' = [pc EXCEPT ![c] = l]
        /\ UNCHANGED <<handler, millis, kind, outcome, loaded>>
    BY <1>7 DEF AppendChild, PublishChild, Goto, request, local
  <2> QED BY <1>1, <2>1, MillisKept
<1>8. ASSUME NEW c \in Call, WriteInParam(c) \/ AddHeader(c) PROVE MillisInv'
  <2>1. /\ pc[c] \in {"inParam", "header"}
        /\ \E l \in {"header", "io"} : pc' = [pc EXCEPT ![c] = l]
        /\ UNCHANGED <<handler, millis, kind, outcome, loaded>>
    BY <1>8 DEF WriteInParam, AddHeader, Goto, request, local
  <2> QED BY <1>1, <2>1, MillisKept
<1>9. ASSUME NEW c \in Call, ReportFirst(c) \/ ReportOut(c) \/ ReportLast(c) PROVE MillisInv'
  <2>1. /\ pc[c] \in {"report", "out", "end"}
        /\ \E l \in {"out", "end", "done"} : pc' = [pc EXCEPT ![c] = l]
        /\ UNCHANGED <<handler, millis, kind, outcome, loaded>>
    BY <1>9 DEF ReportFirst, ReportOut, ReportLast, Goto, request, local
  <2> QED BY <1>1, <2>1, MillisKept
<1>10. ASSUME NEW c \in Call, DoCall(c) PROVE MillisInv'
  <2>1. /\ pc[c] = "io" /\ pc' = [pc EXCEPT ![c] = "load"]
        /\ UNCHANGED <<handler, millis, kind, loaded>>
        /\ \A d \in Call \ {c} : outcome'[d] = outcome[d]
    BY <1>0, <1>10 DEF DoCall, Goto, request, CallsType
  <2>2. Counted' = Counted /\ c \notin Counted
    BY <1>1, <2>1 DEF Counted
  <2>3. \A d \in Counted : Spans'[d] = Spans[d]
    BY <2>1, <2>2 DEF Spans, Counted
  <2>4. SumFunctionOnSet(Spans, Counted)' = total
    <3>1. SumFunctionOnSet(Spans', Counted) = total
      <4> HIDE DEF Spans, Counted, total
      <4> QED BY <1>3, <1>5, <2>3
    <3> QED BY <2>2, <3>1
  <2>5. \A d \in Call : pc'[d] \in {"idle", "store"} =>
          /\ pc'[d] = pc[d] /\ d # c /\ Counter(d)' = Counter(d)
    BY <1>1, <2>1 DEF Counter, IsHttp
  <2> QED BY <2>1, <2>4, <2>5 DEF MillisInv
<1>11. ASSUME NEW c \in Call, LoadMillis(c) PROVE MillisInv'
  <2>1. /\ pc[c] = "load" /\ pc' = [pc EXCEPT ![c] = "store"]
        /\ UNCHANGED <<handler, millis, kind, outcome>>
        /\ loaded' = [loaded EXCEPT ![c] = millis[Counter(c)]]
    BY <1>11 DEF LoadMillis, Goto, request
  <2>2. Counted' = Counted /\ Spans' = Spans
    BY <1>1, <2>1 DEF Counted, Spans
  <2>3. \A d \in Call : Counter(d)' = Counter(d)
    BY <2>1 DEF Counter, IsHttp
  <2>4. \A d \in Call \ {c} : loaded'[d] = loaded[d] /\ pc'[d] = pc[d]
    BY <1>0, <1>1, <2>1 DEF CallsType
  <2>5. loaded'[c] = millis[Counter(c)] /\ pc'[c] = "store"
    BY <1>0, <1>1, <2>1 DEF CallsType
  <2> QED BY <2>1, <2>2, <2>3, <2>4, <2>5 DEF MillisInv
<1>12. ASSUME NEW c \in Call, AddMillis(c) PROVE MillisInv'
  <2> DEFINE d == IF IsHttp(c) THEN outcome[c].dur ELSE outcome[c].dur \div Milli
  <2>1. /\ pc[c] = "store" /\ pc' = [pc EXCEPT ![c] = "report"]
        /\ UNCHANGED <<handler, kind, outcome, loaded>>
        /\ millis' = [millis EXCEPT ![Counter(c)] = loaded[c] + d \div Milli]
    BY <1>12 DEF AddMillis, Goto, request, local
  <2>2. Spans' = Spans /\ c \notin Counted
    BY <2>1 DEF Spans, Counted
  <2>3. \A e \in Call : pc'[e] = "idle" => pc[e] = "idle"
    BY <1>1, <2>1
  <2>4. ASSUME ~handler.concurrent
        PROVE  /\ millis'.http = SumFunctionOnSet(Spans, Counted')
               /\ \A e \in Call : pc'[e] # "store"
    <3>1. \A e \in Call \ {c} : Idle(e)
      BY <2>1, <2>4 DEF IInv, SequentialInv, Idle
    <3>2. \A e \in Call : pc'[e] # "store"
      BY <1>1, <2>1, <3>1 DEF Idle
    <3>3. millis.http = total /\ loaded[c] = millis[Counter(c)]
      BY <2>1, <2>4 DEF MillisInv
    <3>4. CASE IsHttp(c)
      <4>1. millis'.http = total + Spans[c]
        BY <1>0, <2>1, <3>3, <3>4 DEF Counter, Spans, CallsType
      <4>2. Counted' = Counted \cup {c}
        BY <1>1, <2>1, <3>4 DEF Counted, IsHttp
      <4>3. Spans[c] \in Nat
        BY <1>1
      <4> HIDE DEF total
      <4> QED BY <1>5, <2>2, <3>2, <4>1, <4>2, <4>3
    <3>5. CASE ~IsHttp(c)
      <4>1. millis'.http = millis.http
        BY <1>0, <2>1, <3>5 DEF Counter, CallsType
      <4>2. Counted' = Counted
        BY <1>1, <2>1, <3>5 DEF Counted, IsHttp
      <4> QED BY <3>2, <3>3, <4>1, <4>2
    <3> QED BY <3>4, <3>5
  <2> QED BY <2>1, <2>2, <2>3, <2>4 DEF MillisInv
<1>13. ASSUME SendToKafka \/ Stutter PROVE MillisInv'
  <2>1. UNCHANGED <<handler, millis, pc, kind, outcome, loaded>>
    BY <1>13 DEF SendToKafka, Stutter, vars, request, local
  <2>2. Spans' = Spans /\ Counted' = Counted /\ \A d \in Call : Counter(d)' = Counter(d)
    BY <2>1 DEF Spans, Counted, Counter, IsHttp
  <2> QED BY <2>1, <2>2 DEF MillisInv
<1> QED BY <1>6, <1>7, <1>8, <1>9, <1>10, <1>11, <1>12, <1>13, NextCases DEF GoesOn, Stutter

LEMMA MillisInit == Init => MillisInv
<1> SUFFICES ASSUME Init PROVE MillisInv
  OBVIOUS
<1>1. IInv
  BY InitInv
<1>2. Spans \in [Call -> Nat] /\ IsFiniteSet(Call)
  BY <1>1, TypeParts, SpansType, StatusAssumption DEF IInv
<1>3. Counted = {}
  BY DEF Init, Counted
<1>4. SumFunctionOnSet(Spans, {}) = 0
  <2> HIDE DEF Spans
  <2> QED BY <1>2, SumFacts
<1> QED BY <1>3, <1>4 DEF Init, MillisInv

\* HttpMillis of a handler that makes its sub-calls one after another is the
\* total time of its calls to http services, however many there are, however
\* long they take and whichever of them fail.
THEOREM TotalIsRight == Spec => []HttpMillisIsTotal
<1>1. Spec => []MillisInv
  <2>1. IInv /\ MillisInv /\ [Next]_vars => MillisInv'
    BY MillisNext
  <2> QED BY <2>1, MillisInit, Invariant, PTL DEF Spec
<1>2. IInv /\ MillisInv => HttpMillisIsTotal
  <2> SUFFICES ASSUME IInv, MillisInv, ~handler.concurrent, Sent
               PROVE  millis.http = TotalMillis(Http)
    BY DEF HttpMillisIsTotal
  <2>1. \A c \in Call : pc[c] = "done" \/ kind[c] = "none"
    BY DEF IInv, ReportInv, Sent, Idle, MillisInv
  <2>2. Counted = {c \in Call : kind[c] \in Http}
    BY <2>1 DEF Counted, Http
  <2> QED BY <2>2 DEF MillisInv, TotalMillis
<1> QED BY <1>1, <1>2, Invariant, PTL
=============================================================================
