------------------------------ MODULE Decoder -------------------------------
(***************************************************************************)
(* otlpdecode: one export request becomes events, their texts, the files   *)
(* they touch and their payloads (DecodeLogs, DecodeMetrics), and the copy *)
(* for the company is scrubbed of what it may not collect (Scrub).  A      *)
(* carrier takes the attributes of the resource, is copied for each scope  *)
(* and copied again for each record.                                       *)
(***************************************************************************)
EXTENDS Integers, Sequences, FiniteSetsExt, SequencesExt

CONSTANTS
    Names,         \* names of events; "" is none
    VendorIn,      \* [Names -> the vendor a name begins with, or ""]
    EndsIn,        \* [Names -> the kind of content a name ends in, or ""]
    Services,      \* service.name -> the vendor it normalizes to
    ResourceAttrs, \* what a resource, a scope and a record may carry: sequences
    ScopeAttrs,    \*   of attributes [key, value]; a value "nil" is no AnyValue
    LogRecords,    \* [name, time, observed, body, attrs, size]
    DataPoints,    \* the same, observed being StartTimeUnixNano
    MaxPayload,    \* event.MaxPayloadBytes
    Budget,        \* maxBatchPayloadBytes
    MaxRecords,    \* bound: records in a request
    MaxGroups      \* bound: resources and scopes opened

\* An attribute that names the event has one of the names, and a payload is
\* never empty.
KeyValue ==
    {a \in [key : STRING, value : STRING] :
        a.key \in {"event.name", "event_name"} => a.value \in Names \cup {"nil"}}
AnyRecord ==
    [name : Names, time : STRING, observed : STRING, body : STRING, attrs : Seq(KeyValue), size : Nat \ {0}]

\* A name announces the prompt or the result of a call, or nothing.
ASSUME DecoderAssumption ==
    /\ Names \subseteq STRING /\ "" \in Names
    /\ VendorIn \in [Names -> STRING]
    /\ EndsIn \in [Names -> {"", "prompt", "tool_result"}] /\ EndsIn[""] = ""
    /\ DOMAIN Services \subseteq STRING /\ \A s \in DOMAIN Services : Services[s] \in STRING
    /\ ResourceAttrs \cup ScopeAttrs \subseteq Seq(KeyValue)
    /\ LogRecords \cup DataPoints \subseteq AnyRecord
    /\ {MaxPayload, Budget, MaxRecords, MaxGroups} \subseteq Nat

VARIABLES
    kind,        \* PayloadKind of the request
    skip,        \* Options.SkipPayload
    resource,    \* attributes of the open resource, and the carrier made of them
    scope,       \* the same of the open scope
    groups,      \* resources and scopes so far
    records,     \* history: the records so far, each with all that applies to it
    decoded,     \* decoder.events
    contents,    \* decoder.contents
    targets,     \* decoder.targets
    payloads,    \* decoder.payloads
    unstored,    \* decoder.payloadsDropped
    rejected,    \* decoder.rejected
    usageErrors, \* decoder.usageDiagnostics
    patches      \* decoder.patches

decoderVars == <<kind, skip, resource, scope, groups, records, decoded, contents, targets,
                 payloads, unstored, rejected, usageErrors, patches>>

-----------------------------------------------------------------------------
(* The carrier *)

Unset == "unset"
Usage == {"5", "7"}        \* values that strictUsageInt takes
Times == {"t1", "t2"}      \* times above zero; "over" wraps to one below
WithPath == {"file"}       \* tool inputs that name a file
Patch == "patch"           \* a tool input that is a patch of PatchFiles
PatchFiles == <<"p", "q">>
TornPatch == "torn"        \* a patch without its end

Field == {"service.name", "session.id", "conversation.id", "event.name", "event.timestamp",
          "model", "request_id", "tool_name", "success", "decision", "tokens",
          "prompt", "tool_input", "tool_result", "arguments", "output", "target"}

\* Vendors have several keys for one thing; what the model calls "tokens" and
\* "target" is no key of theirs.
FieldOf(key) ==
    CASE key \in {"tokens", "target"} -> "unknown"
      [] key \in {"input_tokens", "input_token_count"} -> "tokens"
      [] key = "event_name" -> "event.name"
      [] key = "user_prompt" -> "prompt"
      [] key = "tool_parameters" -> "tool_input"
      [] OTHER -> key

NoCarrier == [at |-> [f \in Field |-> Unset], invalid |-> 0]

Put(c, f, v) == [c EXCEPT !.at[f] = v]

\* carrier.apply: an empty value is ignored, except where it is the text of a
\* call; a usage that is no count takes the one before it away.
Apply(c, a) ==
    LET f == FieldOf(a.key)
    IN  CASE f = "tokens" /\ a.value \notin Usage -> [Put(c, f, Unset) EXCEPT !.invalid = @ + 1]
          [] f = "tokens" /\ a.value \in Usage -> Put(c, f, a.value)
          [] f \in {"arguments", "output"} -> IF a.value = "nil" THEN c ELSE Put(c, f, a.value)
          [] f = "tool_input" /\ a.value \in WithPath -> Put(Put(c, f, a.value), "target", a.value)
          [] OTHER -> IF a.value \in {"", "nil"} THEN c ELSE Put(c, f, a.value)

ApplyAll(c, attrs) ==
    LET after[n \in 0..Len(attrs)] == IF n = 0 THEN c ELSE Apply(after[n - 1], attrs[n])
    IN  after[Len(attrs)]

-----------------------------------------------------------------------------
(* One event *)

\* Without a vendor the event is not valid.
EventVendor(service, name) ==
    CASE service \in DOMAIN Services -> Services[service]
      [] service \notin DOMAIN Services /\ VendorIn[name] # "" -> VendorIn[name]
      [] service \notin DOMAIN Services /\ VendorIn[name] = "" -> IF service = Unset THEN "" ELSE service

SessionIDFor(c, vendor) ==
    IF vendor = "codex" /\ c.at["conversation.id"] # Unset THEN c.at["conversation.id"] ELSE c.at["session.id"]

\* metricTimestamp, logTimestamp: the fallback is not asked while one is set.
FirstTime(times) ==
    LET given == {n \in DOMAIN times : times[n] # ""} IN IF given = {} THEN Unset ELSE times[Min(given)]

\* What Sequence counts, and what the key is made of.
Attr(e) == [model |-> e.model, tool |-> e.tool, decision |-> e.decision, request |-> e.request]
SeqKey(e) == <<e.name, e.ts, Attr(e)>>
DedupKey(e) ==
    <<e.vendor, e.signal, e.name, e.session, e.ts, e.seq, e.model, e.tool, e.decision>>

\* Event.Validate
Valid(e) == e.vendor # "" /\ e.name # "" /\ e.ts \in Times

IsCodexResult(e) == e.signal = "log" /\ e.vendor = "codex" /\ e.name = "codex.tool_result"
IsPatch(e) == IsCodexResult(e) /\ e.tool = "apply_patch"

Event(signal, name, ts, c) ==
    LET vendor == EventVendor(c.at["service.name"], name)
    IN  [signal |-> signal, name |-> name, ts |-> ts, vendor |-> vendor,
         session |-> SessionIDFor(c, vendor), seq |-> 0,
         model |-> c.at["model"], tool |-> c.at["tool_name"], decision |-> c.at["decision"],
         request |-> c.at["request_id"], success |-> c.at["success"],
         tokens |-> c.at["tokens"], diagnostic |-> c.invalid]

\* A result of Codex has its texts under keys of their own.
WithCallTexts(c, e) ==
    LET texts == [tool_input |-> c.at["arguments"], tool_result |-> c.at["output"]]
    IN  IF IsCodexResult(e)
        THEN [c EXCEPT !.at = [f \in Field |-> IF f \in DOMAIN texts /\ texts[f] # Unset THEN texts[f] ELSE @[f]]]
        ELSE c

\* decoder.seq: events alike are told apart by their number.
Numbered(e) == [e EXCEPT !.seq = Cardinality({i \in DOMAIN decoded : SeqKey(decoded[i]) = SeqKey(e)})]

\* Indices into events start at 1.
ContentOf(i, e, c, k) ==
    IF c.at[k] = Unset THEN <<>> ELSE <<[event |-> i, key |-> DedupKey(e), kind |-> k, body |-> c.at[k]]>>

ContentsOf(i, e, c) ==
    ContentOf(i, e, c, "prompt") \o ContentOf(i, e, c, "tool_input") \o ContentOf(i, e, c, "tool_result")

Target(i, e, path) == [event |-> i, key |-> DedupKey(e), path |-> path]

\* appendTarget
TargetsOf(i, e, c) == IF c.at["target"] = Unset THEN <<>> ELSE <<Target(i, e, c.at["target"])>>

\* appendPatchTargets: all the files of a patch that was applied, or none.
PatchOutcome(e, c) ==
    CASE e.success # "true" \/ e.decision = "reject" -> "unconfirmed"
      [] e.success = "true" /\ e.decision # "reject" ->
           CASE c.at["tool_input"] \in {Unset, ""} -> "missing"
             [] c.at["tool_input"] = Patch -> "applied"
             [] c.at["tool_input"] = TornPatch -> "truncated"
             [] OTHER -> "invalid"

PatchTargets(i, e, c) ==
    IF PatchOutcome(e, c) = "applied"
    THEN [n \in DOMAIN PatchFiles |-> Target(i, e, PatchFiles[n])] ELSE <<>>

Added(s) ==
    LET sum[n \in 0..Len(s)] == IF n = 0 THEN 0 ELSE sum[n - 1] + s[n]
    IN  sum[Len(s)]

PayloadBytes == Added([n \in DOMAIN payloads |-> payloads[n].size])

\* appendPayload, of the event that was added last.
AppendPayload(i, size) ==
    IF skip THEN UNCHANGED <<payloads, unstored>>
    ELSE IF size <= MaxPayload /\ PayloadBytes + size <= Budget
         THEN payloads' = Append(payloads, [event |-> i, size |-> size, of |-> Len(records) + 1]) /\ UNCHANGED unstored
         ELSE unstored' = unstored + 1 /\ UNCHANGED payloads

\* emit
Emit(counter, signal, name, ts, carrier, size) ==
    LET bare == Event(signal, name, ts, carrier)
        c == WithCallTexts(carrier, bare)
        e == Numbered(bare)
        i == Len(decoded) + 1
    IN  /\ usageErrors' = usageErrors + c.invalid
        /\ \/ /\ ~Valid(e)
              /\ rejected' = [rejected EXCEPT ![counter] = @ + 1]
              /\ UNCHANGED <<decoded, contents, targets, payloads, unstored, patches>>
           \/ /\ Valid(e)
              /\ decoded' = Append(decoded, e)
              /\ contents' = contents \o ContentsOf(i, e, c)
              /\ targets' = targets \o (IF IsPatch(e) THEN PatchTargets(i, e, c) ELSE TargetsOf(i, e, c))
              /\ patches' = IF IsPatch(e) /\ PatchOutcome(e, c) # "applied"
                            THEN [patches EXCEPT ![PatchOutcome(e, c)] = @ + 1] ELSE patches
              /\ AppendPayload(i, size)
              /\ UNCHANGED rejected

-----------------------------------------------------------------------------
(* The request *)

Closed == [attrs |-> <<>>, carrier |-> NoCarrier, open |-> FALSE]
OpenGroup(attrs, c) == [attrs |-> attrs, carrier |-> ApplyAll(c, attrs), open |-> TRUE]

DecoderInit ==
    /\ kind \in {"logs", "metrics"}
    /\ skip \in BOOLEAN
    /\ resource = Closed
    /\ scope = Closed
    /\ groups = 0
    /\ records = <<>>
    /\ decoded = <<>>
    /\ contents = <<>>
    /\ targets = <<>>
    /\ payloads = <<>>
    /\ unstored = 0
    /\ rejected = [c \in {"records", "points", "temporality", "type"} |-> 0]
    /\ usageErrors = 0
    /\ patches = [o \in {"unconfirmed", "missing", "truncated", "invalid"} |-> 0]

results == <<decoded, contents, targets, payloads, unstored, rejected, usageErrors, patches>>

OpenResource(attrs) ==
    /\ groups < MaxGroups
    /\ groups' = groups + 1
    /\ resource' = OpenGroup(attrs, NoCarrier)
    /\ scope' = Closed
    /\ UNCHANGED <<kind, skip, records, results>>

OpenScope(attrs) ==
    /\ groups < MaxGroups
    /\ resource.open
    /\ groups' = groups + 1
    /\ scope' = OpenGroup(attrs, resource.carrier)
    /\ UNCHANGED <<kind, skip, resource, records, results>>

\* Mutant: the attributes of a record stay with its scope.
Shared(attrs) == scope' = [scope EXCEPT !.carrier = ApplyAll(@, attrs)]

\* A record works on a copy.
Copied(attrs) == UNCHANGED scope

Given(record, points) ==
    /\ scope.open
    /\ Len(records) < MaxRecords
    /\ records' = Append(records, [kind |-> kind, attrs |-> resource.attrs \o scope.attrs \o record.attrs,
                                   record |-> record, points |-> points])
    /\ UNCHANGED <<kind, skip, resource, groups>>

\* The attribute event.name wins over the field, and the body is the text that
\* the name announces, unless an attribute has it.
NameOf(c, record) == IF c.at["event.name"] # Unset THEN c.at["event.name"] ELSE record.name

WithBody(c, name, body) ==
    IF EndsIn[name] # "" /\ body # "" /\ c.at[EndsIn[name]] = Unset THEN Put(c, EndsIn[name], body) ELSE c

LogRecord(record) ==
    LET c == ApplyAll(scope.carrier, record.attrs)
        name == NameOf(c, record)
        ts == FirstTime(<<record.time, record.observed, c.at["event.timestamp"]>>)
    IN  /\ kind = "logs"
        /\ Given(record, 1)
        /\ Copied(record.attrs)
        /\ Emit("records", "log", name, ts, WithBody(c, name, record.body), record.size)

\* A point of a sum that says how its points add up.
DataPoint(record) ==
    LET c == ApplyAll(scope.carrier, record.attrs)
        ts == FirstTime(<<record.time, record.observed, c.at["event.timestamp"]>>)
    IN  /\ kind = "metrics"
        /\ Given(record, 1)
        /\ Copied(record.attrs)
        /\ Emit("points", "metric", record.name, ts, c, record.size)

\* Sums of unknown temporality and metrics of another type are counted by their
\* points; a metric that has no type counts as one.
NotASum(counter, points) ==
    /\ kind = "metrics"
    /\ Given([attrs |-> <<>>], points)
    /\ rejected' = [rejected EXCEPT ![counter] = @ + points]
    /\ UNCHANGED <<scope, decoded, contents, targets, payloads, unstored, usageErrors, patches>>

DecoderNext ==
    \/ \E attrs \in ResourceAttrs : OpenResource(attrs)
    \/ \E attrs \in ScopeAttrs : OpenScope(attrs)
    \/ \E record \in LogRecords : LogRecord(record)
    \/ \E record \in DataPoints : DataPoint(record)
    \/ \E points \in 0..2 : NotASum("temporality", points)
    \/ \E points \in 0..2 : NotASum("type", points)

DecoderSpec == DecoderInit /\ [][DecoderNext]_decoderVars

-----------------------------------------------------------------------------
(* Scrub: the copy that is forwarded *)

\* privacyRules that a privacy setting may turn on: what they are about, the
\* attributes dropped and the end of the name whose body is cleared.
Rules ==
    {[about |-> "prompt", keys |-> {"prompt", "user_prompt"}, suffix |-> "prompt"],
     [about |-> "tool_input", keys |-> {"tool_input", "tool_parameters", "arguments"}, suffix |-> "none"],
     [about |-> "tool_result", keys |-> {"tool_result", "output"}, suffix |-> "tool_result"]}

\* filterAttrs
Filtered(attrs, denied) ==
    LET left[n \in 0..Len(attrs)] ==
          IF n = 0 THEN <<>>
          ELSE IF \E r \in denied : attrs[n].key \in r.keys THEN left[n - 1] ELSE Append(left[n - 1], attrs[n])
    IN  left[Len(attrs)]

\* scrubLogs takes the first event.name, and only where the field is empty.
ScrubName(record) ==
    LET named == {n \in DOMAIN record.attrs : record.attrs[n].key = "event.name"}
    IN  IF record.name # "" \/ named = {} THEN record.name ELSE record.attrs[Min(named)].value

\* scrubLogs
ScrubbedBody(record, denied) ==
    IF \E r \in denied : EndsIn[ScrubName(record)] = r.suffix THEN "" ELSE record.body

-----------------------------------------------------------------------------
(* Properties *)

\* What is said of a field by the resource, the scope and the record: the last
\* value of it that says something.
Counts(a) ==
    \/ FieldOf(a.key) = "tokens"
    \/ a.key \in {"arguments", "output"} /\ a.value # "nil"
    \/ a.value \notin {"", "nil"}
Said(attrs, f) ==
    LET at == {n \in DOMAIN attrs : FieldOf(attrs[n].key) = f /\ Counts(attrs[n])}
        last == IF at = {} THEN Unset ELSE attrs[Max(at)].value
    IN  IF f = "tokens" /\ last \notin Usage THEN Unset ELSE last

NameSaid(g) ==
    IF Said(g.attrs, "event.name") # Unset /\ g.kind = "logs" THEN Said(g.attrs, "event.name") ELSE g.record.name
TimeSaid(g) == FirstTime(<<g.record.time, g.record.observed, Said(g.attrs, "event.timestamp")>>)
VendorSaid(g) == EventVendor(Said(g.attrs, "service.name"), NameSaid(g))

\* The records that can be events: they have a name, a vendor and a time.
Decodable(g) ==
    /\ "name" \in DOMAIN g.record
    /\ NameSaid(g) # "" /\ VendorSaid(g) # "" /\ TimeSaid(g) \in Times

\* The record of an event: the i-th that can be one.
SourcesIn(log, n) == {m \in 1..n : Decodable(log[m])}
IsSource(log, n, i) == n \in SourcesIn(log, Len(log)) /\ Cardinality(SourcesIn(log, n)) = i

\* An event says what applies to its record, and what another's says is not in it.
SaysOf(e, g) ==
    /\ e.name = NameSaid(g) /\ e.ts = TimeSaid(g) /\ e.vendor = VendorSaid(g)
    /\ e.session = IF e.vendor = "codex" /\ Said(g.attrs, "conversation.id") # Unset
                   THEN Said(g.attrs, "conversation.id") ELSE Said(g.attrs, "session.id")
    /\ e.model = Said(g.attrs, "model") /\ e.request = Said(g.attrs, "request_id")
    /\ e.tokens = Said(g.attrs, "tokens")

\* Every record is an event or counted among the rejected, and every event says
\* what applies to its own record and nothing of another's.
EventsSayTheirRecord ==
    /\ Len(decoded) = Cardinality(SourcesIn(records, Len(records)))
    /\ Len(decoded) + rejected.records + rejected.points + rejected.temporality + rejected.type
         = Added([n \in DOMAIN records |-> records[n].points])
    /\ \A i \in DOMAIN decoded : \E n \in DOMAIN records : IsSource(records, n, i) /\ SaysOf(decoded[i], records[n])

\* Where the text and the file of a call may come from.
TextsOf(g, k) ==
    {Said(g.attrs, f) : f \in {k, "arguments", "output"}} \cup
    (IF "body" \in DOMAIN g.record THEN {g.record.body} ELSE {})
PathsOf(g) ==
    {a.value : a \in Range(g.attrs)} \cup
    (IF \E a \in Range(g.attrs) : a.value = Patch THEN Range(PatchFiles) ELSE {})

\* Strings, files and payloads belong to the event they name, by index and by key.
PartsPointHome ==
    /\ \A t \in Range(contents) :
         /\ t.event \in DOMAIN decoded /\ t.key = DedupKey(decoded[t.event])
         /\ \E n \in DOMAIN records : IsSource(records, n, t.event) /\ t.body \in TextsOf(records[n], t.kind)
    /\ \A t \in Range(targets) :
         /\ t.event \in DOMAIN decoded /\ t.key = DedupKey(decoded[t.event])
         /\ \E n \in DOMAIN records : IsSource(records, n, t.event) /\ t.path \in PathsOf(records[n])
    /\ \A p \in Range(payloads) : IsSource(records, p.of, p.event)
    /\ PayloadBytes <= Budget
    /\ IF skip THEN payloads = <<>> ELSE Len(payloads) + unstored = Len(decoded)

FilesAt(files, i) == {n \in DOMAIN files : files[n].event = i}

\* Of a patch all files are there, or one reason why none is.
PatchesAccountedFor ==
    LET ofPatches == {i \in DOMAIN decoded : IsPatch(decoded[i])}
    IN  /\ \A i \in ofPatches :
             \/ FilesAt(targets, i) = {}
             \/ /\ Cardinality(FilesAt(targets, i)) = Len(PatchFiles)
                /\ {targets[n].path : n \in FilesAt(targets, i)} = Range(PatchFiles)
        /\ Cardinality({i \in ofPatches : FilesAt(targets, i) = {}})
             = patches.unconfirmed + patches.missing + patches.truncated + patches.invalid

\* Two events of a request have one key only if nothing but the id of the API
\* request tells them apart.
KeysTellApart ==
    \A i, j \in DOMAIN decoded :
        i # j /\ DedupKey(decoded[i]) = DedupKey(decoded[j]) => decoded[i].request # decoded[j].request

\* A record that has its name in one place, where scrubLogs looks for it, leaves
\* nothing behind, when it is scrubbed, of what the company may not collect.
NamesIn(attrs) == {n \in DOMAIN attrs : FieldOf(attrs[n].key) = "event.name"}
NamedOnce(g) ==
    \/ g.record.name # "" /\ NamesIn(g.attrs) = {}
    \/ /\ g.record.name = "" /\ Cardinality(NamesIn(g.attrs)) = 1
       /\ \E n \in NamesIn(g.record.attrs) : g.record.attrs[n].key = "event.name"

\* What the decoder makes of the scrubbed copy.
CompanySees(g, denied) ==
    LET c == ApplyAll(NoCarrier, Filtered(g.attrs, denied))
        name == NameOf(c, g.record)
        text == WithBody(c, name, ScrubbedBody(g.record, denied))
    IN  WithCallTexts(text, Event("log", name, "t1", text))

ScrubHides ==
    \A g \in Range(records) : \A denied \in SUBSET Rules :
        g.kind = "logs" /\ NamedOnce(g) =>
            \A r \in denied :
                /\ CompanySees(g, denied).at[r.about] = Unset
                /\ r.about = "tool_input" => CompanySees(g, denied).at["target"] = Unset

\* What a request says reaches the store whole, each part with its own event,
\* and what may not leave does not.
DecodedTruly ==
    EventsSayTheirRecord /\ PartsPointHome /\ PatchesAccountedFor /\ KeysTellApart /\ ScrubHides

\* dedup.go:36: the key never folds two different events into one.
NothingFolded ==
    \A i, j \in DOMAIN decoded : i # j => DedupKey(decoded[i]) # DedupKey(decoded[j])

-----------------------------------------------------------------------------
(* The inductive invariant *)

Strings == STRING \cup {Unset}
Carrier == [at : [Field -> Strings], invalid : Nat]
NoSum == [attrs |-> <<>>]
Entry == [kind : {"logs", "metrics"}, attrs : Seq(KeyValue), record : AnyRecord \cup {NoSum}, points : Nat]

IsSequence(s) == s \in Seq(Range(s))

\* A carrier has what the attributes it was given say.
CarrierSays(c, attrs) ==
    /\ c \in Carrier
    /\ \A f \in Field \ {"target"} : c.at[f] = Said(attrs, f)
    /\ \/ c.at["target"] = Unset
       \/ \E a \in Range(attrs) : FieldOf(a.key) = "tool_input" /\ a.value = c.at["target"]

RequestOK ==
    /\ kind \in {"logs", "metrics"} /\ skip \in BOOLEAN
    /\ resource.attrs \in Seq(KeyValue) /\ CarrierSays(resource.carrier, resource.attrs)
    /\ scope.open => scope.attrs \in Seq(KeyValue) /\ CarrierSays(scope.carrier, resource.attrs \o scope.attrs)
    /\ records \in Seq(Entry)
    /\ \A g \in Range(records) :
         /\ Range(g.record.attrs) \subseteq Range(g.attrs)
         /\ g.kind = "logs" => g.record \in AnyRecord

ResultsOK ==
    /\ IsSequence(decoded) /\ IsSequence(contents) /\ IsSequence(targets) /\ IsSequence(payloads)
    /\ \A p \in Range(payloads) : p.size \in Nat
    /\ unstored \in Nat
    /\ rejected \in [{"records", "points", "temporality", "type"} -> Nat]
    /\ patches \in [{"unconfirmed", "missing", "truncated", "invalid"} -> Nat]

\* Events are numbered by those like them that came before.
NumbersOK ==
    \A i \in DOMAIN decoded :
        decoded[i].seq = Cardinality({j \in 1..(i - 1) : SeqKey(decoded[j]) = SeqKey(decoded[i])})

DecoderInv ==
    RequestOK /\ ResultsOK /\ NumbersOK /\ EventsSayTheirRecord /\ PartsPointHome /\ PatchesAccountedFor
=============================================================================
