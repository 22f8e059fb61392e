---------------------------- MODULE StatusReport ----------------------------
(***************************************************************************)
(* The status of one request (status/status.go, http.go, mysql_origin.go)  *)
(* while its handler makes sub-calls, and the report that the middleware   *)
(* of web/trace_id_middleware.go sends when the handler has returned.      *)
(*                                                                         *)
(* this.ChildStatus is a Go slice: slice.arr names its backing array,      *)
(* slice.cap is the capacity of that array, which append doubles when it   *)
(* allocates a larger one, and arrays[a] is the content of array a.        *)
(* AddChildStatus runs under the write lock, but every                     *)
(* this.ChildStatus[i].F = v that fills a child in does not: it goes to    *)
(* the array the slice refers to at that moment, also while append has     *)
(* copied that array and not stored the new slice yet.  A child's fields   *)
(* are followed in groups that the code writes together; InParam and       *)
(* OutParam are maps, shared by all copies of a child.                     *)
(*                                                                         *)
(* A TraceInfo says of each field where its value comes from: "upstream",  *)
(* the service that sent the request, "own", this one, or "" for none; its *)
(* spanId is the sequence of numbers between the dots.                     *)
(*                                                                         *)
(* Durations are in nanoseconds, of which Milli make a millisecond.        *)
(***************************************************************************)
EXTENDS Naturals, Sequences, FiniteSets, Functions

CONSTANTS Call,       \* the sub-calls the handler may make
          Handlers,   \* what handlers do: the kinds of methods they call, whether
                      \* from concurrent goroutines, and the durations of calls;
                      \* and the accioTraceInfo header of their request: present,
                      \* the fields json.Unmarshal fills in and the spanId among
                      \* them, and whether it fails on others
          Milli       \* int64(time.Millisecond)

Http == {"req", "reqJson", "reqFile"}
Sql == {"Query", "QueryRow", "Exec"}
Fields == {"traceId", "aopsId", "phone", "sourceIp", "project"}
TraceInfo == [Fields -> {"upstream", "own", ""}]

ASSUME StatusAssumption ==
    /\ IsFiniteSet(Call)
    /\ "none" \notin Call
    /\ Handlers \subseteq [kinds : SUBSET (Http \cup Sql), concurrent : BOOLEAN,
                          durations : SUBSET Nat,
                          header : [present : BOOLEAN, fields : SUBSET Fields,
                                    spanId : Seq(Nat), err : BOOLEAN]]
    /\ Milli \in Nat \ {0}

VARIABLES handler,    \* the handler of this request
          trace,      \* this.TraceInfo: [info, spanId]
          slice,      \* this.ChildStatus: [arr, len, cap]
          arrays,     \* the backing arrays allocated so far
          params,     \* params[i]: the maps of child i that were written
          lock,       \* the call that holds the write lock, or "none"
          millis,     \* millis.http and millis.sql: HttpMillis, SqlMillis
          pc,         \* pc[c]: what call c does next
          kind,       \* kind[c]: the method
          idx,        \* idx[c]: childStatusIndex + 1, or 0
          sentTrace,  \* sentTrace[c]: the header of the request it sends, or NoTrace
          outcome,    \* outcome[c]: [err, dur] of the request or query
          loaded,     \* loaded[c]: the counter's value read by "+="
          ret,        \* ret[c]: what the method returned
          report      \* "none", "sent" to Kafka, or "lost"

vars == <<handler, trace, slice, arrays, params, lock, millis, pc, kind, idx, sentTrace, outcome,
          loaded, ret, report>>
request == <<handler, trace>>
child == <<slice, arrays, params, lock>>
local == <<kind, idx, sentTrace, outcome, loaded, ret>>

NoTrace == [info |-> [f \in Fields |-> ""], spanId |-> <<>>]

\* Fields of a header that failed to parse are overwritten one by one.
getTraceInfo(header) ==
    LET temp == [info |-> [f \in Fields |-> IF f \in header.fields THEN "upstream" ELSE ""],
                 spanId |-> header.spanId]
    IN  IF header.present /\ ~header.err THEN temp
        ELSE [info |-> [f \in Fields |-> IF f = "sourceIp" THEN temp.info[f] ELSE "own"],
              spanId |-> <<1>>]

NewChild(n) == [trace |-> [trace EXCEPT !.spanId = Append(@, n)], filled |-> {}]
NoOutcome == [err |-> FALSE, dur |-> 0]
Grown(cap) == IF cap = 0 THEN 1 ELSE 2 * cap

Init ==
    /\ handler \in Handlers
    /\ trace = getTraceInfo(handler.header)
    /\ slice = [arr |-> 0, len |-> 0, cap |-> 0]
    /\ arrays = <<>>
    /\ params = <<>>
    /\ lock = "none"
    /\ millis = [http |-> 0, sql |-> 0]
    /\ pc = [c \in Call |-> "idle"]
    /\ kind = [c \in Call |-> "none"]
    /\ idx = [c \in Call |-> 0]
    /\ sentTrace = [c \in Call |-> NoTrace]
    /\ outcome = [c \in Call |-> NoOutcome]
    /\ loaded = [c \in Call |-> 0]
    /\ ret = [c \in Call |-> "none"]
    /\ report = "none"

Goto(c, label) == pc' = [pc EXCEPT ![c] = label]
IsHttp(c) == kind[c] \in Http
Counter(c) == IF IsHttp(c) THEN "http" ELSE "sql"
Idle(c) == pc[c] \in {"idle", "done"}

\* this.ChildStatus[i].F = v, for the fields F of a group.
Fill(c, group) ==
    arrays' = [arrays EXCEPT ![slice.arr][idx[c]].filled = @ \cup {group}]
\* this.ChildStatus[i].P[key] = v, for one of the two maps P.
FillMap(c, maps) ==
    params' = [params EXCEPT ![idx[c]] = @ \cup maps]
-----------------------------------------------------------------------------
\* The handler starts a sub-call; without goroutines of its own it waits for
\* the end of the one before.  NewRequest may fail.
Start(c) ==
    /\ report = "none"
    /\ pc[c] = "idle"
    /\ handler.concurrent \/ \A d \in Call : Idle(d)
    /\ "panic" \notin {ret[d] : d \in Call}
    /\ \E k \in handler.kinds :
         /\ kind' = [kind EXCEPT ![c] = k]
         /\ \/ Goto(c, "append") /\ UNCHANGED ret
            \/ /\ k \in Http
               /\ Goto(c, "done")
               /\ ret' = [ret EXCEPT ![c] = "nothing"]
    /\ UNCHANGED <<request, child, millis, idx, sentTrace, outcome, loaded, report>>

\* Mutant: AddChildStatus takes no lock.
AppendNoLock(c) ==
    /\ pc[c] = "append"
    /\ Goto(c, "publish")
    /\ arrays' =
         LET new == NewChild(slice.len + 1) IN
         IF slice.len < slice.cap
         THEN [arrays EXCEPT ![slice.arr] = SubSeq(@, 1, slice.len) \o <<new>>]
         ELSE Append(arrays, IF slice.arr = 0 THEN <<new>>
                             ELSE Append(arrays[slice.arr], new))
    /\ UNCHANGED <<request, slice, lock, params, millis, local, report>>

\* AddChildStatus: Lock, build the child, append it in place or to a copy ...
AppendChild(c) ==
    /\ pc[c] = "append"
    /\ lock = "none"
    /\ lock' = c
    /\ Goto(c, "publish")
    /\ arrays' =
         LET new == NewChild(slice.len + 1) IN
         IF slice.len < slice.cap
         THEN [arrays EXCEPT ![slice.arr] = Append(@, new)]
         ELSE Append(arrays, IF slice.arr = 0 THEN <<new>>
                             ELSE Append(arrays[slice.arr], new))
    /\ UNCHANGED <<request, slice, params, millis, local, report>>

\* ... store the new slice, Unlock.
PublishChild(c) ==
    /\ pc[c] = "publish"
    /\ slice' = [arr |-> Len(arrays), len |-> slice.len + 1,
                  cap |-> IF slice.arr = Len(arrays) THEN slice.cap ELSE Grown(slice.cap)]
    /\ params' = Append(params, {})
    /\ idx' = [idx EXCEPT ![c] = slice.len + 1]
    /\ lock' = "none"
    /\ Goto(c, IF IsHttp(c) THEN "inParam" ELSE "io")
    /\ UNCHANGED <<request, arrays, millis, kind, sentTrace, outcome, loaded, ret, report>>

\* req replaces InParam (WriteInParam), reqJson and reqFile write into it.
WriteInParam(c) ==
    /\ pc[c] = "inParam"
    /\ \/ kind[c] = "req" /\ Fill(c, "inParam") /\ UNCHANGED params
       \/ kind[c] # "req" /\ FillMap(c, {"in"}) /\ UNCHANGED arrays
    /\ Goto(c, "header")
    /\ UNCHANGED <<request, slice, lock, millis, local, report>>

\* Mutant: the header is taken from the last child.
AddHeaderLast(c) ==
    /\ pc[c] = "header"
    /\ sentTrace' = [sentTrace EXCEPT ![c] = arrays[slice.arr][slice.len].trace]
    /\ Goto(c, "io")
    /\ UNCHANGED <<request, child, millis, kind, idx, outcome, loaded, ret, report>>

\* The accioTraceInfo header is the child's TraceInfo.
AddHeader(c) ==
    /\ pc[c] = "header"
    /\ sentTrace' = [sentTrace EXCEPT ![c] = arrays[slice.arr][idx[c]].trace]
    /\ Goto(c, "io")
    /\ UNCHANGED <<request, child, millis, kind, idx, outcome, loaded, ret, report>>

\* reqInner, or the database call.
DoCall(c) ==
    /\ pc[c] = "io"
    /\ \E e \in BOOLEAN, d \in handler.durations :
         outcome' = [outcome EXCEPT ![c] = [err |-> e, dur |-> d]]
    /\ Goto(c, "load")
    /\ UNCHANGED <<request, child, millis, kind, idx, sentTrace, loaded, ret, report>>

\* HttpMillis += ..., SqlMillis += ...: a load and a store.
LoadMillis(c) ==
    /\ pc[c] = "load"
    /\ loaded' = [loaded EXCEPT ![c] = millis[Counter(c)]]
    /\ Goto(c, "store")
    /\ UNCHANGED <<request, child, millis, kind, idx, sentTrace, outcome, ret, report>>

\* Mutant: AddHttpMillis is given milliseconds already, as AddSqlMillis is.
AddMillisTwice(c) ==
    /\ pc[c] = "store"
    /\ LET d == outcome[c].dur \div Milli IN
       millis' = [millis EXCEPT ![Counter(c)] = loaded[c] + d \div Milli]
    /\ Goto(c, "report")
    /\ UNCHANGED <<request, child, local, report>>

\* OriginMysqlReport passes milliseconds to AddSqlMillis, which divides again.
AddMillis(c) ==
    /\ pc[c] = "store"
    /\ LET d == IF IsHttp(c) THEN outcome[c].dur ELSE outcome[c].dur \div Milli IN
       millis' = [millis EXCEPT ![Counter(c)] = loaded[c] + d \div Milli]
    /\ Goto(c, "report")
    /\ UNCHANGED <<request, child, local, report>>

\* httpReport: Uri, RequestMethod.  OriginMysqlReport: the statement in
\* InParam, EndT, DurMillis.
ReportFirst(c) ==
    /\ pc[c] = "report"
    /\ IF IsHttp(c)
       THEN Fill(c, "uri") /\ UNCHANGED params
       ELSE Fill(c, "end") /\ FillMap(c, {"in"})
    /\ Goto(c, "out")
    /\ UNCHANGED <<request, slice, lock, millis, local, report>>

\* Mutant: the error of a failed request is not recorded.
ReportOutNoExp(c) ==
    /\ pc[c] = "out"
    /\ IF IsHttp(c) /\ outcome[c].err
       THEN UNCHANGED <<arrays, params>>
       ELSE FillMap(c, {"out"}) /\ UNCHANGED arrays
    /\ Goto(c, "end")
    /\ UNCHANGED <<request, slice, lock, millis, local, report>>

\* OutParam, or Exp and ExpCount when a request failed: before its body was
\* read, or while it was.
ReportOut(c) ==
    /\ pc[c] = "out"
    /\ IF IsHttp(c) /\ outcome[c].err
       THEN Fill(c, "exp") /\ \E m \in {{}, {"out"}} : FillMap(c, m)
       ELSE FillMap(c, {"out"}) /\ UNCHANGED arrays
    /\ Goto(c, "end")
    /\ UNCHANGED <<request, slice, lock, millis, local, report>>

\* httpReport: EndT, DurMillis, ServiceType.  OriginMysqlReport: ServiceType,
\* Uri.  The method ends.  Exec calls RowsAffected on the nil result of a
\* failed statement, which panics once the deferred report is done; on success
\* it falls through to the error of a nil status.
ReportLast(c) ==
    /\ pc[c] = "end"
    /\ Fill(c, IF IsHttp(c) THEN "end" ELSE "uri")
    /\ ret' = [ret EXCEPT ![c] =
                 IF kind[c] = "Exec"
                 THEN IF outcome[c].err THEN "panic" ELSE "Status is Null"
                 ELSE IF outcome[c].err THEN "error" ELSE "result"]
    /\ Goto(c, "done")
    /\ UNCHANGED <<request, slice, params, lock, millis, kind, idx, sentTrace, outcome,
                   loaded, report>>
-----------------------------------------------------------------------------
Children == IF slice.arr = 0 THEN <<>> ELSE SubSeq(arrays[slice.arr], 1, slice.len)

\* c.Next() has returned, which the handler's sub-calls are finished by: the
\* status is marshalled under the read lock and passed to SendMsg.  A panic
\* of the handler unwinds SetTraceId, and nothing is sent.
SendToKafka ==
    /\ report = "none"
    /\ \A c \in Call : Idle(c)
    /\ lock = "none"
    /\ report' = IF \E c \in Call : ret[c] = "panic" THEN "lost" ELSE "sent"
    /\ UNCHANGED <<request, child, millis, pc, local>>

Step(c) ==
    \/ AppendChild(c) \/ PublishChild(c) \/ WriteInParam(c) \/ AddHeader(c)
    \/ DoCall(c) \/ LoadMillis(c) \/ AddMillis(c)
    \/ ReportFirst(c) \/ ReportOut(c) \/ ReportLast(c)

Next == SendToKafka \/ \E c \in Call : Start(c) \/ Step(c)

Spec == Init /\ [][Next]_vars
-----------------------------------------------------------------------------
Labels == {"idle", "append", "publish", "inParam", "header", "io", "load",
           "store", "report", "out", "end", "done"}
Trace_t == [info : TraceInfo, spanId : Seq(Nat)]
Child_t == [trace : Trace_t, filled : SUBSET {"inParam", "uri", "exp", "end"}]
Children_t == Seq(Child_t)

TypeOK ==
    /\ handler \in Handlers
    /\ trace \in Trace_t
    /\ slice \in [arr : 0..Len(arrays), len : Nat, cap : Nat]
    /\ IF slice.arr = 0 THEN slice.len = 0
       ELSE slice.len <= Len(arrays[slice.arr]) /\ Len(arrays[slice.arr]) <= slice.cap
    /\ arrays \in Seq(Children_t)
    /\ params \in Seq(SUBSET {"in", "out"})
    /\ lock \in Call \cup {"none"}
    /\ millis \in [http : Nat, sql : Nat]
    /\ pc \in [Call -> Labels]
    /\ kind \in [Call -> handler.kinds \cup {"none"}]
    /\ idx \in [Call -> 0..Cardinality(Call)]
    /\ sentTrace \in [Call -> Trace_t]
    /\ outcome \in [Call -> [err : BOOLEAN, dur : handler.durations \cup {0}]]
    /\ loaded \in [Call -> Nat]
    /\ report \in {"none", "sent", "lost"}
    /\ ret \in [Call -> {"none", "nothing", "result", "error", "panic", "Status is Null"}]

\* "父级的 spanId + "." + 子服务在 childStatus 的顺序" (define.go:64): a child
\* has the trace of its request, with a span id that ends in its position in
\* childStatus, and a call sends the trace of its own child, whatever the calls
\* made at the same time; and the trace, which "需要传递给子服务" (define.go:47),
\* is handed on as it came, or is all of this service when the header fails to
\* parse, but for the ip: the fields and the span id are never of two requests.
SpanIdIsPosition ==
    /\ \A i \in 1..slice.len : Children[i].trace = [trace EXCEPT !.spanId = Append(@, i)]
    /\ \A c \in Call : sentTrace[c] # NoTrace => sentTrace[c] = Children[idx[c]].trace
    /\ \A c, d \in Call : c # d /\ idx[c] # 0 => idx[c] # idx[d]
    /\ \/ \A f \in Fields : trace.info[f] # "own"
       \/ /\ \A f \in Fields \ {"sourceIp"} : trace.info[f] = "own"
          /\ trace.spanId = <<1>>

Sent == report = "sent"
Filled(c) ==
    LET shown == Children[idx[c]].filled \cup params[idx[c]] IN
    IF kind[c] \in Http
    THEN /\ shown \cap {"inParam", "in"} # {}
         /\ (IF outcome[c].err THEN "exp" ELSE "out") \in shown
         /\ {"uri", "end"} \subseteq shown
    ELSE {"in", "out", "uri", "end"} \subseteq shown

\* "将index返回,方便业务方填充数据" (status.go:186): the index AddChildStatus
\* returns is there to fill the child in, and the report shows what every
\* finished sub-call filled in.
ReportIsComplete ==
    Sent => \A c \in Call : idx[c] # 0 => Filled(c)

\* The report is complete when the handler makes its sub-calls one after
\* another, whichever of them fail.
SequentialIsComplete == ~handler.concurrent => ReportIsComplete

Spans == [c \in Call |-> outcome[c].dur \div Milli]
TotalMillis(kinds) == SumFunctionOnSet(Spans, {c \in Call : kind[c] \in kinds})

\* "调用 http 子服务的总耗时" (define.go:41): the total time of all calls to
\* http sub-services, when they are made one after another.
HttpMillisIsTotal == ~handler.concurrent /\ Sent => millis.http = TotalMillis(Http)
=============================================================================
