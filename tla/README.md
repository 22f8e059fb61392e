# Verification of golang-lib

TLA+ models of the concurrent and protocol parts of this library, the TLC runs that check
them on small instances, and TLAPS proofs of what matters most. `PROJECT.json` lists the
components, the runs, the mutants that show what each property can catch, the source lines
behind every definition, the hazards and the findings. This file explains them.

    tlc -config <run>.cfg <module>.tla        # one run, as named in PROJECT.json
    tlapm SyncMapProofs.tla                   # the proofs of one module

## 1. Inventory

### The parts of the library

| Component | State | Operations | Talks to |
|---|---|---|---|
| `MAP` concurrent map | `read` (atomic), `dirty`, `misses` under `mu`; one atomic pointer per entry | Load, Store, LoadOrStore, Delete, Range | its callers' goroutines |
| `KAFKA` producer | package variable `Signals`, one result loop per producer; inside sarama: five channels, the count of messages in flight | InitAsyncProducer, SendMsg, CloseProducer, `expectResults` | the vendored sarama producer and its brokers; called by `status` |
| `status` | per request: `ChildStatus` slice, `HttpMillis`, `SqlMillis`, an RWMutex | req/reqJson/reqFile, Query/QueryRow/Exec, AddChildStatus, ToString, SendToKafka, log methods | http, database, `KAFKA`, `mylog` |
| `web/trace_id_middleware` | one `Status_t` per request | SetTraceId | `status` |
| `status/json_private` scanner | `step`, `parseState`, `err`, `endTop` | reset, step, eof, checkValid, nextValue, undo | decoder, Compact, Indent |
| `status/json_private` Decoder | `tokenState`, `tokenStack`, `err`, buffer | Token, Decode, More, Buffered | scanner, an `io.Reader` |
| `status/json_private` decode | `data`, `off`, a scanner, `savedError` | Unmarshal | scanner, reflection, UnmarshalJSON methods |
| `status/json_private` indent | a scanner, depth, a delayed line break | Compact, Indent | scanner |
| `status/json_private` encode | `encoderCache` (a map under an RWMutex), `fieldCache` (an atomic map, copied under a mutex), a buffer per call | Marshal, Encoder.Encode, `typeEncoder` | Compact, isValidNumber, MarshalJSON and MarshalText methods, reflection |
| `mylog` | `LOG`, `ChanSendToLogMonitor` (1024 errors), both package variables; one posting loop per SeelogInit | SeelogInit, LOG.Error, LOG.E, AsyncSendToLogMonitor, `sendToLogMonitorLoop` | seelog, an http monitor; called by everybody |
| `THREAD_MANAGER` | a channel that is closed to stop, a wait group | Stop, IsStop, Add, Done, Wait | `mylog`, of which each writes a line; workers outside this repository |
| `web/martini` | tables of routes and middleware | RegisterHandler, RunMartini | martini |
| `proxy.go` | the default http client | one function per kind of request | http |
| `iconv` | a C descriptor; Reader and Writer buffers | Open, Conv, Read, Write | libiconv |
| `nameUtil_bak`, `AES_ECB`, `TRIPLE_DES`, `GBK` | none | pure functions | - |

### What is hard about them

* The map is read and written without its mutex; every window between two atomic
  operations can hide a promotion, an expunging or a copy made by somebody else.
* The producer's result loop, `CloseProducer`, sarama's shutdown goroutine and its
  dispatcher wait for one another over unbuffered channels; closing has an order; two
  producers share one variable.
* Sub-calls of a request may run in several goroutines (`AddChildStatus` takes a lock for
  that), but the fields they fill in are written without it, through a slice that append
  moves. Totals are added to without a lock. Some reports are deferred.
* The scanner answers one byte late and is probed with invented spaces; callers may ignore
  an error and go on. Token and Decode share a state machine whose states they borrow.
* Unmarshal has no parser: it follows the scanner's codes, takes bytes back, skips values
  with a second scanner and tells the first one about them with invented bytes.
* A Decoder scans a buffer that `refill` moves while a value spans several reads; an error
  that comes with bytes waits until they are scanned.
* The monitor's queue is bounded and its single sender has no timeout; `LOG` is set before
  the queue is made, and a second SeelogInit replaces the queue under a loop that waits on
  the old one. Workers look at the stop signal before they join the wait group.
* `typeEncoder` builds encoders of recursive types without a lock: it publishes a function
  that waits for the encoder, which other goroutines find, call and overwrite.

The hazards, each at the line where it bites and with the properties that watch it, are in
`PROJECT.json`. Six have no property and say why: the edit distance is not modelled, one window
is closed by a lock and folded into a step, and in four the models contain what goes wrong, but
nothing in the code says that it may not.

### What makes each part correct

* Map: linearizable with respect to `map_reference_test.go`'s locked map; no lost write,
  no panic on a nil map; some call always completes.
* Producer: results of accepted messages are delivered before the channels close, somebody
  reads them, closing terminates, nothing panics.
* Status: every sub-call has its own span id, namely its position; the report shows what
  each sub-call filled in and the totals of their durations; database calls return what the
  database returned.
* Scanner: accepts exactly the grammar, reports an error at the first byte that cannot be
  right, and keeps reporting it. Decoder: returns properly nested delimiters and takes from
  the stream only what the grammar allows, whichever calls fail.
* Unmarshal: never out of step with its scanner on valid JSON; stores what fits where it
  belongs, and of a slice nothing that was in it before; hands whole values to UnmarshalJSON. Compact and Indent change only white space
  outside the strings, but for the bytes that Compact escapes, and write JSON texts only.
* Decoder's buffer: the same values whatever reads they come in, and no read more than the
  value needs.
* Log and workers: logging never waits; a queued error is posted while the monitor answers;
  Stop ends every worker, each starts one unit of work at most after it, and Wait waits for
  all that was started before.
* Marshal: every call returns; what it writes is JSON that Unmarshal reads back as the
  value's document; an encoder that is called is built or will be.

## 2. Modules

| Module | Role |
|---|---|
| `ConcurrentMap` | abstract: every call of the map takes effect at one instant |
| `SyncMap` | `MAP/map.go`, one step per shared access |
| `SyncMapRefinement` | history variables and the mapping; property `Linearizable` |
| `SyncMapProofs` | TLAPS: inductive invariant of `SyncMap`; it implements `ConcurrentMap` |
| `KafkaProducer` | `KAFKA/kafka_producer.go` with the sarama goroutines it meets |
| `KafkaProofs` | TLAPS: inductive invariant of `KafkaProducer` |
| `StatusReport` | `status` sub-calls, report, and the middleware around them |
| `StatusProofs` | TLAPS: inductive invariant of `StatusReport` |
| `LogMonitor` | `mylog`: SeelogInit, the queue of errors, the loops that post them |
| `ThreadManager` | `THREAD_MANAGER` with the workers and stoppers that call it; extends `LogMonitor` |
| `ThreadManagerProofs` | TLAPS: inductive invariant of `ThreadManager` |
| `JSONScanner` | the scanner's state functions, as operators |
| `JSONNextValue` | `nextValue` |
| `JSONGrammar` | the JSON grammar, written independently of the scanner |
| `JSONGrammarProofs` | TLAPS: lemmas about the grammar, for any text |
| `JSONCheckValid` | the loop of `checkValid` as a state machine |
| `JSONCheckValidText` | `checkValid` and `nextValue` against the grammar |
| `JSONCheckValidProofs` | TLAPS: inductive invariant of `JSONCheckValid`; it accepts exactly the grammar |
| `JSONDecode` | Unmarshal of `decode.go` into small types |
| `JSONFold` | the comparisons of `fold.go` between a key and a field name |
| `JSONIndent` | Compact and Indent |
| `JSONStream` | the Decoder's buffer: `readValue`, `refill`, `peek`, More |
| `JSONIndentText` | what Compact and Indent promise, on every text `JSONCheckValid` feeds |
| `JSONText` | what Unmarshal and the Decoder's buffer promise, evaluated on the same texts |
| `JSONDecoder` | Token, Decode, More and the token stack |
| `JSONDecoderText` | what a Decoder took from its stream, against the grammar |
| `JSONDecoderProofs` | TLAPS: inductive invariant of `JSONDecoder`; it takes a prefix of a stream of JSON texts |
| `EncoderCache` | `typeEncoder` and its caches, shared by goroutines |
| `EncoderCacheProofs` | TLAPS: inductive invariant of `EncoderCache` |
| `JSONEncode` | `typeFields`, `newTypeEncoder` and what each encoder writes |
| `JSONMarshal` | calls of Marshal: `JSONEncode`'s work with the encoders of `EncoderCache` |
| `MCSyncMap`, `MCSyncMapRefinement`, `MCKafkaProducer`, `MCStatusReport`, `MCThreadManager`, `MCJSONText`, `MCJSONMarshal` | symmetry, roles, programs, texts and types for TLC |

Definitions whose comment begins with "Mutant" are faulty variants of the definition that
follows them: substituted for it, they make the property named in `PROJECT.json` fail.
They take no part in the specifications.

### The map (`SyncMap`)

`read`, `dirty`, `misses` and `ptr` are the fields of Map and the pointers of the entries;
`dirtyNil` tells a nil from an empty dirty map. `pc`, `ent`, `old`, `todo` are a
goroutine's position and locals. Each access another goroutine could observe is one step:
the load of `read`, the load of an entry's pointer, a compare-and-swap, a store. What a
goroutine does to `dirty` and `misses` inside a critical section is folded into the
neighbouring step, because only the holder of `mu` touches them. So `unexpungeLocked` and the
`m.dirty[key] = e` behind it are one step: between the two, others may read and write the entry
without the lock, but they do not look at `dirty`, and nobody can promote it. The run says
nothing of that window. A stored value stands for
its box: a compare-and-swap that fails because of an equal value in another box succeeds
here; the outcome is the same. Entries that nobody refers to can be allocated again, which
makes three entries for two keys enough to reuse addresses.

`ConcurrentMap` is the promise: writes happen in one step, observers answer with a content
their key had during the call. `SyncMapRefinement` adds the history of those contents and
maps the concrete state: a key's content is the pointer of the entry it is looked up in.

### The producer (`KafkaProducer`)

`loop`, `waitsOn` are `expectResults` of each producer; `closer`, `exitOn` are
`CloseProducer`; `shutdown`, `closed`, `inFlight` are sarama's shutdown goroutine, its
closed channels and its wait group; `at`, `owner`, `retries` follow each message from
SendMsg through dispatcher, pipeline and retry buffer to its result. All channels of
sarama are unbuffered, so a send and the receive it meets are one step: `returnError` and
`returnSuccess` need a reader (`Receive`). The count of the wait group goes down in the
same step, although the code does it just after; nothing but the wait in `shutdown` can
see the difference, and it is free to happen later anyway. Topic, partition and broker
goroutines are one pipeline that holds `Cap` messages; what brokers answer is the
environment's choice. `Signals` counts the channels made so far, because each
InitAsyncProducer replaces the variable, and a loop waits on the channel that was current
when it entered its select. A panic sets `crash`, after which no action is enabled.

### The report (`StatusReport`)

`slice` and `arrays` are the slice header, with its capacity, and its backing arrays: append
writes in place while there is capacity and otherwise copies to an array twice as large (that
append doubles is the runtime's choice for short slices; the proofs need only that the
capacity grows), and the new header is stored by a later step
(`PublishChild`); other goroutines' unlocked writes (`Fill`) in between go to the old
array. InParam and OutParam are maps shared by all copies, hence `params`. `millis` is
incremented by a load and a store. Each call goes through append, parameters, header,
request or statement, totals, and the parts of its report, in the order of the code. The
fields are followed in groups that one piece of code writes. `trace` is the TraceInfo that
Init takes from the request's header or makes up (`getTraceInfo`); of each field the model
knows where its value comes from, so that a header that fails half way can leave something
behind. It is handed to every child with a longer span id, and from there to the header of
the request. `SendToKafka` is the end of
SetTraceId. Callers pass data to req and reqJson; a request without data only leaves
InParam empty. `handler` says what the request does: which methods it calls, whether in
goroutines of its own, and how long the calls take; it is chosen once, in `Init`.

### The scanner (`JSONScanner`, `JSONNextValue`, `JSONGrammar`, `JSONCheckValid`, `JSONCheckValidText`)

A scanner is a record and every state function of `scanner.go` an operator on it. A byte
is a one-character string that stands for its class. The grammar is a recogniser on sets
of positions that shares no definition with the scanner. `JSONCheckValid` feeds a text byte
by byte, one round of `checkValid`'s loop in a step; its bytes come in words (most are single
bytes, some a few bytes such as a key with its colon) so that the interesting texts fit the
bounds. `JSONCheckValidText` compares in every state: would `checkValid` accept now, and is
the text JSON; and whether `nextValue`, run on the text fed so far, cuts off one whole value
of it. `outline` is history: the brackets of the
text that are open outside its strings, told from the quotes, backslashes and brackets alone,
without a look at the scanner. The grammar's recursion is a function from positions, so that
theorems can be about it; so is the loop of `nextValue`, a round (`Round`) for each byte,
which goes on with a scanner (`GoesOn`) or has returned a length (`Returns`).

### Unmarshal, Compact and Indent (`JSONDecode`, `JSONIndent`, `JSONIndentText`, `JSONText`)

All are functions of the text that `JSONCheckValid` has fed so far, evaluated in every
state. A `decodeState` is a record that each routine of `decode.go` takes and returns;
`Back` is `d.off--` with `undo`, `skip` is `value` of the zero `reflect.Value`, and `next`
cuts a composite value off for an UnmarshalJSON method or a type that takes none. The loops
of `array` and `object` are chains of operators, one for each call that reads on
(`elementOrEnd`, `element`, ...). The routines
for `interface{}` do what the ones with reflection do to a fresh `[]interface{}` or
`map[string]interface{}`, and share their definitions. A numeric type is one that accepts every
literal of a number. A pointer is followed and allocated as `indirect` does. A key finds its
field exactly or by the comparison that `foldFunc` picks for the field's name, against
`bytes.EqualFold` in the promise.

`Stored` in `JSONText` is what the comment of Unmarshal promises, computed from positions the
grammar finds and not from the scanner: a slice is reset and each element appended, a fixed
array filled and its rest set to zero, a value of the wrong type skipped. Where the code does
otherwise the promise stays the comment's, and `departs` says which of two reasons there is:
"slice", an array for a slice that holds something, and "number", a number for a type that takes
none, which ends the decoding instead. `StoresWhatFits` is about the texts with neither, and
there the decoding must not end early either; `SliceIsReset` is about those with "slice".

Compact and Indent decide by the scanner's codes what to leave out. `Significant` does by the
quotes and backslashes of the text alone, as `outline` does. It takes the classes of bytes
that are written escaped: Compact escapes U+2028 and U+2029 and, for Marshal, `<`, `>` and `&`.
`Layout` breaks the lines by the brackets and commas outside the strings. It decides before
each byte from the last one that was kept (`Broken`), where Indent writes the break behind a
comma or colon at once and keeps the one behind an opening bracket back (`needIndent`).
`Indent`'s round is made of that delayed break (`indented`) and its switch (`punctuation`);
`write` is the buffer. Line ends and prefixes are bytes of the class of the space, one for
each level and one for the line.

### The Decoder's buffer (`JSONStream`)

A Decoder is a record too: `buf`, `scanp`, `scan` and `err`, and what the reader will
return. `Look` is the inner loop of `readValue`, `MoreInput` what follows it when the buffer
is exhausted, `refill` the move and the read. The text is cut into reads of one, two or
three bytes; the error that ends them comes with the last bytes or after them, and is EOF
or a failure. `DecodesAsItComes` calls Decode until it fails, or while More says yes, and
compares with what `nextValue` cuts off the whole text: the same values, the error the rest
deserves, and each value after no more reads than hold its last byte (for a scalar, the
byte behind it).

### The Decoder (`JSONDecoder`, `JSONDecoderText`)

The stream is chosen as it is read: `next` is the class of the byte at `scanp` once it has
been seen. Each branch of Token's switch is an action, the loop of Token is `calling`,
and Decode is split at `tokenPrepareForDecode`, which may have taken a separator when the
value that follows fails. A value read by Decode is one piece, whatever it contains; it is taken
and `tokenState` moves on also when Unmarshal then returns an error.
`open` and `text` are history: the delimiters Token returned and did not close, and all
that was taken.

### The log and the workers (`LogMonitor`, `ThreadManager`)

`channels` counts the channels SeelogInit has made, since each call replaces the package
variable; `queue[c]` is what the c-th holds and `loop[i]` where the i-th posting loop is,
which waits on the channel it found when it evaluated its receive (`waitsOn`). SetLOG,
MakeChannel and StartLoop are the assignments of SeelogInit in their order. An error is
dropped when the channel is nil or full, which the code's `select` does not tell apart.
`Posted` is a request that was answered or failed; neither is repeated. The monitor may
stop answering for good (`Hang`): there is no timeout, and the loop stays in its post.

`ThreadManager` adds the wait group (`counter`), the stop channel (`closed`) and, because
every one of its functions writes a line through `LOG`, a second step to each of them, in
which a nil `LOG` panics. Workers and stoppers are outside the repository: a worker repeats
IsStop, Add, a unit of work that may log an error, Done; a stopper calls Stop and then
Wait. `Wake` is the check in package sync that the counter is still zero. `late` is
history: the workers that called Add after the close.

### Marshal (`EncoderCache`, `JSONEncode`, `JSONMarshal`)

The steps of `typeEncoder` are what it does under one lock or none: `Lookup`, `Publish` of
the encoder that waits, `Fields` (the field cache of a struct), `Done` (f is set and the
wait group released) and `Store`. `building` is the stack of nested calls. An encoder is
known by the goroutine that builds it and its type. `Elems` says which types'
encoders one is made of; the proofs leave it open, and `JSONEncode` defines it by
`elemTypes`.

`JSONEncode` is `encode.go` apart from the cache: `typeFields` with its levels and
`dominantField`, and `encode`, which answers an encoder's call with a list of things to do:
bytes to write, further encoders to call, types to look up, a failure. A declared type has
a kind, fields with tags, and who has its MarshalJSON and MarshalText methods. This copy of
the library writes every key as `name(type)`, and so does the model. `JSONMarshal` runs
these lists. Between two uses of the cache a goroutine touches its own buffers only, so
`Encode` takes them in one step and stops where it needs the cache or calls an encoder that
waits for one not built yet. Every step of it is a step of `EncoderCache`, or leaves its
variables alone.

`Document` is the promise of Marshal's comment: what a value stands for, from Go's rules of
promotion (`Promoted`, `Visible`), of which methods a value has (`Callable`), and of emptiness
(`Empty`), none of which it takes from `JSONEncode`. A key is the field's or the tag's name.
`ReadsBack` says that a call that returns has written a JSON text, reads it with the model of
Unmarshal and compares (`Agrees`) under one reading of the keys: the `(type)` that this copy
writes behind the name is taken off first (`Name`). For three more things that the code does not
do as the comment says, `departs` has a name, and `ReadsBack` claims only that the output is
JSON: the option ",string" on a Number ("Number"), a RawMessage without an address
("RawMessage"), and fields that reach a struct twice on one level ("embedded").

## 3. Runs

| Run | Shows | Bounds |
|---|---|---|
| `sync_map` | every behaviour of the map is one of the atomic map | 2 goroutines, 2 keys, 2 values, 3 entries, all methods |
| `sync_map_roles` | no lost write, no nil map, `dirty` mirrors `read`; some call completes | 2 goroutines, one of which stores, deletes and ranges while the other loads and creates; 2 keys, 1 value; no symmetry (liveness) |
| `kafka` | results come before the channels close, and are read; CloseProducer returns | 2 producers; one was opened and closed before and 2 messages with a retry follow, or one has just been opened and 1 message without a retry follows |
| `kafka_wrong_exit` | violation, see below | 2 producers, 1 message |
| `status_report` | span ids are positions and traces are handed on; reports and the http total of calls made in turn are complete | 3 calls; concurrent requests reach capacities 1, 2 and 4, sequential calls are of all six kinds, with durations below and above a millisecond; with a header, without, and with one that fails to parse |
| `status_lost_field` | violation, see below | 2 concurrent requests |
| `json_text` | scanner = grammar; Unmarshal, Compact, Indent and the Decoder's buffer keep their promises | all texts of up to 5-9 bytes over ten alphabets and of up to 10, 18 and 20 bytes over three sets of words, 0-2 bytes after an error (any number where several values follow each other); 14 types; 3 ways to read |
| `json_fixed_array` | violation, see below | the three sets of words, one type |
| `json_slice_reset` | violation, see below | the three sets of words, one type |
| `json_decoder` | delimiters match, only JSON is taken | any stream of 7 pieces, any calls and errors |
| `worker_log` | everybody ends after Stop, Wait waits for what it must, panics have the callers' reasons, a queued error is posted | three programs: one worker and one stopper before SeelogInit; two workers, one stopper and two errors while an earlier one is posted; two workers and two stoppers without errors. A queue of 1, 2 calls of SeelogInit |
| `json_encode` | calls return, what they call is built or awaited, Unmarshal reads back the value's document | 184 programs: each value of fifty types alone, with and without escapeHTML; 15 pairs of recursive types; 3 goroutines on one |

Two goroutines are the fewest that interleave; the map's windows involve a victim and one
interferer. The map's invariants and its refinement are proved for any number of goroutines,
keys and values, so the run of the invariants may give the goroutines roles: it shows what
breaks them, and it is where the mutants are caught. The same holds of the producer's two
invariants, so that `kafka` may begin in the two situations that its liveness is about. Two keys are needed because the
dirty map is promoted after as many misses as it has keys. A pipeline of one message makes
the dispatcher block. The alphabets of the scanner each hold the bytes one part of the
grammar distinguishes (nesting, object members, numbers, strings with `\u`, literals), and
the lengths let each construct be completed and followed by a byte; the words make members
that hold nested values, that are skipped, or whose key occurs again, the second time with an
array whose element does not fit over the first or is null. The types nest each
kind in the others. A queue of one error is full as soon as anything waits in it; two
calls of SeelogInit are enough to strand a queue. In the encoder's programs the pairs are
those of types that contain each other or themselves, because only their encoders wait.
Deadlock is not checked where a run may really end: the request has been reported, the
process has panicked, all messages are answered, the workers have returned, the calls of
Marshal have ended, or the text has its full length.

Four runs have `expect: violation`: each checks one property that a comment states and the
code does not keep.

* `kafka_wrong_exit`: `status.Initalize` opens two producers, and both wait on the
  `Signals` channel made last. The "exit" of the one that is closed can end the loop of the
  other, whose results then have no reader.
* `status_lost_field`: a field written while another sub-call's append has copied the array
  and not yet stored the new slice is missing from the report.
* `json_fixed_array`: an array with more elements than the Go array it is decoded into is
  skipped with a scanner that is set back to the beginning of the value, but whose
  `parseState` keeps the bracket already read: `{"e":[[]]}` into a struct with a field
  `e [0]interface{}` ends in `errPhase`, "JSON decoder out of sync". Scalars that do not
  fit are skipped correctly; `json_text` therefore has fixed arrays only where nothing that
  nests is left over, or the text ends with them.
* `json_slice_reset`: an element of the second array of a key is decoded over the one that the
  first has left in the slice. `{"e":[1],"e":[{}]}` into a struct with a field `e []float64`
  leaves `[1]`, and so does a null; appended to a slice that was reset, the element would be 0.

Other behaviour that the models contain because the code has it, and that readers may not
expect (no run is spent on it):

* `expectResults` dereferences nil when its select takes a closed channel
  (`SelectClosedErrors`), and `SendMsg` panics after the close (`SendMsg`): both set `crash`.
* Overlapping additions to `HttpMillis` or `SqlMillis` lose a time (`LoadMillis`,
  `AddMillis`); `OriginMysqlReport` divides by a million before `AddSqlMillis` does again.
* `Exec` falls through to the error "Status is Null" when the statement succeeds and calls
  `RowsAffected` on nil when it fails (`ReportLast`); its deferred report gets the rows
  before they are known.
* A trace header that fails to parse still leaves its `sourceIp` in the trace that is made
  up instead (`getTraceInfo`); `SpanIdIsPosition` leaves that field out.
* Unmarshal's comment says that a value of the wrong type is skipped; a number is not: it
  ends the decoding (`literalStore`). `StoresWhatFits` leaves those texts out.
* An error logged before SeelogInit panics on the nil `LOG`, and one logged between its
  first assignments is dropped (`WorkerLogs`, `AsyncSendToLogMonitor`). A second SeelogInit
  leaves the errors in the first queue to a loop that may never look there again: it
  receives the next one from the new queue after the one it waits for (`Receive`).
* Marshal's keys carry the type, although its comment says that "the key is the field name"
  (`Key`); `Agrees` takes it off. The option ",string" makes no difference to a Number, which is a
  string type, although "It applies only to fields of string, floating point, integer, or
  boolean types" (`encode`). RawMessage's
  MarshalJSON has a pointer receiver: a RawMessage that is not addressable is written as base64.
  A struct embedded twice, two levels up, is counted once, so its fields are written although
  they hide each other (`levels`). Of these three `ReadsBack` claims only that they are JSON.
* A number at the end of a stream is lost when the read that shows its end fails with an
  error other than EOF (`MoreInput`).
* `entry.p` can be nil while the dirty map exists, unlike its comment says; `deleteCAS` and
  `LoadOrStore` cope with it.

### Fairness

* Map: a goroutine inside a method keeps running (`WF` of its steps); callers need not call.
* Producer: goroutines that can run do, and brokers answer. A Go select picks among ready
  cases at random, so a case that is ready again and again is taken (`SF` of the receives
  and of the sends that compete for the dispatcher). Nobody is obliged to send or to close.
* Log and workers: goroutines that can run do, also the loops and a SeelogInit that has set
  `LOG`. Nobody is obliged to call Stop or SeelogInit, a unit of work ends, and the monitor
  answers until it hangs, which it may.
* Marshal: a goroutine that can run does. `Fair(p)` is `WF_vars(Step(p))` written out, with
  `Runnable(p)` for its ENABLED.

## 4. Proofs

Each proof module but `JSONGrammarProofs`, which is lemmas, states an inductive invariant,
which TLC has checked on the component's run before it was proved, one lemma or step per
action, and the theorems that follow. `PROJECT.json` names the theorems and the properties
they state. Three parts of the invariants quantify over every text (`Exact`, `Looping`,
`TakenInv`), which TLC cannot enumerate; of these it checks the properties they imply.

`SyncMapProofs`, for any number of goroutines, keys, values and entries. The properties are
not inductive alone: `IInv` adds to them which entry a goroutine holds at each label
(`Control`, `EntryOfKey`, `UnexpungeInv`), what the copying in `dirtyLocked` has reached
(`CopyInv`), that two keys never share an entry and that a nil dirty map is empty. The
proof has a step per action and under it one per conjunct (`InvNext`); `ActionEffect` sorts
the actions by what they change. From `IInv`: `TypeCorrect`, `DirtyMapCorrect`
(`DirtyMirrorsRead`), `NoLostWrite` (`FastPathSafe`), `LockedPathSafe` (`SlowPathSafe`),
`NoPanic` (`NoNilMapWrite`). The only assumption is `SyncMapAssumption`: nil, the marker and
the values are different things, which the pointers of the code are.

The second part of the module, under the same assumption, is the refinement: `Refines`, that
every behaviour of the map is one of `ConcurrentMap` (`Linearizable`). Writes map to the step
of the abstract map that writes; loads, failed compare-and-swaps and Range answer with a
content that the history says their key had since the call began, so the abstract map can
answer it in the step that returns. The proof needs to know that the history is right: `HInv`
adds to `IInv` that the present content of a key a call watches is in its history (`SeenInv`),
and so is the value of the entry the call holds, or that Range has yet to come to, also when
the maps do not refer to that entry any more (`RefersSeen`); that keys found in neither map
were absent (`AmendedInv`, `NewKeyInv`); and that Range has reported the keys it is done with
or they were absent (`RangeInv`). Each effect of `ActionEffect` then keeps `HInv`
(`HistoryInvariant`) and is mapped to a step or a stutter.

`KafkaProofs`, for any producers, messages, retries and pipeline capacity. `IInv` says that
the wait group counts the messages that are accepted and have no result, those that wait for a
retry included (`CountInv`), that a message has an owner once it is sent (`OwnerInv`), that
`Signals` counts the producers that were opened (`SignalsInv`), and that a shutdown closes a
channel only when the dispatcher rejects new messages and the count is zero (`ShutdownInv`).
From it: `TypeCorrect` and `ResultsFirst` (`ResultsBeforeClose`). Assumed: `KafkaAssumption`,
finitely many producers and messages, numbers as bounds, and that "none" names no producer.

`StatusProofs`, for any number of sub-calls and any set of handlers, headers and durations.
`IInv` says that the lock is held by the call that has appended and not published
(`LockInv`); that the slice is as long as the content of the newest array, but for the child
being appended (`SliceInv`); that published calls have indexes of their own, as many as the
slice is long (`IndexInv`); that every copy of a child in every array has the trace of its
position, although older arrays go on being written to (`TraceInv`); and, for handlers that
call in turn, what a call has filled in at each label and that a copy made by append lacks
nothing of it (`SequentialInv`), which fails for concurrent handlers, as `status_lost_field`
shows. From it: `TypeCorrect`, `SpanIdsCorrect` (`SpanIdIsPosition`), `SequentialReports`
(`SequentialIsComplete`). `TotalIsRight` (`HttpMillisIsTotal`) is about a sum over a set of
calls: `SumFacts` says what the sum is when the set gains a member, from the recursion that
the library's `SumFunctionOnSet` is made of, which has a value for every finite set and only
one (`SumsExist`, `SumsUnique`, both by the least number at which it would fail). Then
`MillisInv`, that for handlers that call in turn the counter is the sum over the calls that
are past their addition (`Counted`), is kept by every action. Assumed: `StatusAssumption`.

`JSONDecoderProofs`, for streams of any length and depth. `TypeOK` is not inductive, since
a closing delimiter reads the last element of `tokenStack`; `StackMatches` (the stack and
the state tell the kind of every open delimiter) supplies that there is one, and needs the
types in turn. From both: `StackCorrect` (Token never indexes an empty stack) and
`DelimitersMatch`, the promise of Token's comment, as an action property.

`TakesJSONAlways` (`TakesJSON`), that what Token, Decode and More take from the stream is a
prefix of a sequence of JSON texts, is not inductive either: that one completion of it is a
stream says nothing of what comes next. `TakenInv` is about every completion: a text that
begins with what was taken, and in which everything open can end from there, is a stream.
`Left` is where the innermost array or object may end, from each `tokenState`, and `CanEnd`
follows `tokenStack` outwards, from where one ends to where the next goes on. A piece
that stays inside (`Moves`) leaves less of the same `Left` (`LeftMoves`), an opening
delimiter begins a value of the outer one (`EndsOpened`) and a closing one ends it
(`EndsClosed`); so a text that can end behind a piece could before it. That the completion
`TakesJSON` adds can end is `RestEnds` for the innermost and `ClosingEnds` for the rest, from
the inside out. It needs `IInv`, and nothing is assumed.

`JSONGrammarProofs` is what both proofs about JSON need of the grammar, for any text: its
operators as equations over unions of sets of positions, and that its phrases obey their
rules. The grammar defines them by a function on positions that refers to itself at later
ones; `PhrasesRule` proves that there is such a function, from the last position back. This is
an induction over numbers, made with a set of them, and does not need the library's theorem
with an operator parameter.

`JSONCheckValidProofs`, for texts of any length made of any words. `TypeOK` is not inductive:
the state functions read and overwrite the top of `parseState`, and `popParseState` shortens
it. `Sound` says which stack fits which next state function (`Fits`): the states before a
key are reached with an object on top that waits for one, `stateBeginValueOrEmpty` with an
array, `stateEndTop` with nothing; that below the top every object has read its key
(`Nested`); that `endTop` means an empty stack; and that an error shows in `step`. There is a
lemma for what the state functions are made of (`Returned`, `ErrorSound`, `Begun`, `TopSet`,
`Popped`), one for each group of them, for every byte, and `StepSound` combines them. A
second pass over the same functions (`StepOutside`, `StringInside`) tells from the byte alone
what a step does to the stack: in a string nothing, outside it a bracket and nothing else
opens or closes, and only its own kind. So `Tracks` is inductive with `Sound`: until an error,
the stack mirrors `outline`. From them: `TypeCorrect`, `ErrorStays` (`ErrorIsSticky`),
`BracketsMatchAlways`, that in an accepted text every bracket outside the strings closes the
last one open, and none is left open, nor a string; and `KeysAreStringsAlways`.

The second half of the module proves that the scanner and the grammar agree. None of the
three comparisons is inductive: that `checkValid` would accept now says nothing about the
text with one byte more. `Exact` does, because it is about every text that begins with the
bytes read: such a text is JSON if and only if what is left of it continues the scanner.
`Rest` is the part of the grammar still to come in each state, from the position of the next
byte; `Completes` closes the brackets of the stack behind it, and `Continues` is the two
together. One lemma per group of state functions says that the next byte moves `Rest` to that
of the following state (`NumberRest`, `StringRest`, `BeginRest`, `ClosesOne`, ...), and
`StepInto` that a step of the scanner is such a derivative for every byte and every stack,
an error being one that leaves nothing. So `Exact` is kept by every step (`ExactAlways`). It
gives `AcceptsJSONAlways` where nothing is left (`ExactEnds`, with `EofFinished` for `eof`);
`EndMeansValueAlways`, since a byte is answered by scanEnd only where the text might have
ended before it (`EndCode`); and `ErrorIsTimelyAlways`, for the text that `Completion` adds
(`CompletionContinues`).

The last part is about `nextValue` (`NextValueIsWholeAlways`), for the scanner's steps say
nothing of it: it may return before a scanEnd, and it feeds its scanner a space that is not in
the text. Its loop keeps `Looping`: what it has returned is `Whole`, and while it goes on
(`Going`) the scanner is exact for the bytes read, and has a whole value (`Finished`) only if
the last of them is no space. That last conjunct keeps space out of what is returned when
scanEnd comes a byte late, as it does behind a number. `Probe` shows that the invented space
is harmless at any depth: it either ends the value or leaves a scanner that continues as if
the space had not been there. `CutLoops` goes through the cases of the switch, `EndByte` tells
which bytes may be answered by scanEnd, and `RoundsShape` that the rounds are a function, for
a text of any length.

`CompactElidesSpaceAlways` (`CompactElidesSpace`) is about the loop of `compact`, which drops a
byte whenever the scanner's code is `scanSkipSpace` or higher. `Compacting` keeps, until an
error, that it has written what `Significant` has, that the scanner is exact, and that it
tracks the quotes that `Significant` goes by. `DroppedByte` says which bytes have such a code:
without an error, the spaces outside strings and no others (`SkipCode`, `SpaceCode`; a scanEnd
for another byte is an error one step later). After an error no rest makes the text JSON, and
`eof` reports it.

`IndentLaysOutAlways` (`IndentLaysOut`) is about Indent's loop, whose invariant is `Indenting`.
`Laid` relates its record to what `Layout` holds: a break is owed (`needIndent`) exactly behind
an opening bracket, where the scanner is in a state that takes the closing one; `depth` is
the number of open brackets, less the one that owes its break; and what has been written is
`Layout`'s text with the break or the space that it puts before the next byte. The loop asks the
byte whether it is punctuation and the code whether it is a closing bracket or part of a
string: `SeenByte` says that these agree with the quotes of the text, from `StringCode`,
`PunctuationCode` and `BracketByte`, and that no bracket closes behind a comma or a colon.
`LaidByte` is a round for a byte that is kept and `LaidSpace` for a space between tokens,
which is written only where the text has ended (`BlankSteps`).

Assumed, for all of it: `AlphabetsAssumption`, that words are sequences with something in them
and the bounds are numbers. Nothing is assumed of the bytes: those that are in no class of the
grammar are refused outside strings and allowed in them.

`ThreadManagerProofs`, for any number of workers, stoppers, errors and calls of SeelogInit
and any capacity. `IInv` adds to the properties that the counter of the wait group is the
number of workers between Add and Done, that the channel is closed exactly when some stopper
is past Stop, that there is late work only after the close, and what the assignments of
SeelogInit imply about `LOG` and the loops. It gives `TypeCorrect` (the counter is never
negative), `LateUnits`, `WaitCorrect` and `PanicsExplained`. Assumed: there are finitely many
workers, and the bounds are numbers.

`EncoderCacheProofs`, for any goroutines, types and `Elems`: `EncodersAreReady`. Its `IInv`
says of every encoder in the cache, in a built encoder, in a frame of `building` or just
returned that it is built, or waits for one that its goroutine is building; and that a
call about to store its encoder is done with it. Assumed: `CacheAssumption`, that `Elems` is
a function to sequences of types. The theorem is about `CacheSpec`; `JSONMarshal`'s steps are
its steps or stutters by their definition.

Only model-checked: everything temporal under fairness (`SomeCallCompletes`,
`CloseTerminates`, `ResultEventuallyRead`, `StopEnds`, `QueuedIsPosted`, `MarshalReturns`),
since the provers do not reason about ENABLED and fairness here; what RECURSIVE operators
compute (the comparisons in `JSONText`, `JSONMarshal`'s `ReadsBack`), which is induction over
data.

## 5. Plan

Done: map, with invariant and refinement proved; producer, report and scanner, with proofs;
Unmarshal, Compact and Indent; tokens, with proofs; the Decoder's buffer; log and workers, with
proofs; Marshal and its caches, with proofs. Left, in this order:

1. Proofs: the scanner's loop under `undo`, as `JSONDecode` runs it.
2. `JSONDecode`: the `,string` option (`valueQuoted`), the spare capacity of slices.
3. `TraceTree`: several services, each a `StatusReport` whose header another one sent.
4. `EditDistance` (`nameUtil_bak`) against a reference; `iconv` buffers.

## 6. Not modelled

`web/martini` configures a vendored framework once; what a request meets is the middleware
that `StatusReport` models. `proxy.go` builds requests and calls a `reqInner` that
`StatusReport` models for `status`. The block ciphers, GBK and the vendored libraries other
than sarama's producer are pure data or third-party code; `iconv` wraps a C library whose
answers decide everything. The edit distance is one sequential function over the tables of the
Go library. Reflection over Go types is out of reach: `JSONDecode` takes a type as a small
record, without pointers to pointers, TextUnmarshaler, keys other than strings, base64 and the
range of numbers, and `JSONEncode` takes a type as its declaration, with formatted numbers and
base64 as given texts and without HTMLEscape. The Decoder's buffer has no capacity: how it
grows is left out. How a trace id is put together, and the sparta id, are left out. The log
methods of `status` format a line and call SendMsg.
