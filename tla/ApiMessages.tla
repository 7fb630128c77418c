---------------------------- MODULE ApiMessages ----------------------------
(***************************************************************************)
(* The messages of the RPC interface as the client's generated codec       *)
(* (frontend/src/app/global/model/api.ts) writes and reads them: the       *)
(* binary form, read token by token with unknown fields skipped, and the   *)
(* JSON form, which leaves defaults out and accepts two spellings of every *)
(* name.                                                                   *)
(*                                                                         *)
(* A message is a function from its field names to values: a number for a  *)
(* scalar (0 is the default of every type), a sequence for a repeated      *)
(* field, a sequence of at most one message for an optional one.  A token  *)
(* stands for one tag with what follows it; the length of a message is     *)
(* counted in tokens.                                                      *)
(***************************************************************************)
EXTENDS Integers, Sequences, SequencesExt

One(no, type, name) == [no |-> no, type |-> type, name |-> name, many |-> FALSE]
Many(no, type, name) == [no |-> no, type |-> type, name |-> name, many |-> TRUE]

EmptyFields == <<>>
LineFields == <<One(1, "string", "line")>>
RequestFields == <<One(1, "string", "search")>>
AddressFields == <<
    One(1, "int64", "id"), One(2, "int64", "createdAt"), One(3, "int64", "updatedAt"),
    One(4, "string", "ipv4"), One(5, "string", "ipv6"), One(6, "bool", "current")>>
AddressHistoryFields == <<Many(1, "Address", "addresses")>>
RecordFields == <<
    One(1, "int64", "id"), One(2, "int64", "createdAt"), One(3, "int64", "updatedAt"),
    One(4, "string", "token"), One(5, "int64", "zoneId"), One(6, "string", "domain"),
    One(7, "string", "name"), One(8, "uint32", "ttl"), One(9, "int64", "addressId"),
    One(10, "Address", "address"), One(11, "RecordPurpose", "purpose"),
    One(12, "bool", "includeWildcard"), One(13, "Certificate", "certificate"),
    One(14, "string", "acmeEmail")>>
RecordListFields == <<Many(1, "Record", "records")>>
RecordDeleteFields == <<
    One(1, "Record", "record"), One(2, "bool", "deleteFromHetzner")>>
CertificateFields == <<
    One(1, "int64", "id"), One(2, "int64", "createdAt"), One(3, "int64", "updatedAt"),
    One(4, "int64", "recordId"), One(5, "string", "domains"), One(6, "string", "status"),
    One(7, "int64", "notBefore"), One(8, "int64", "notAfter"), One(9, "string", "serial"),
    One(10, "string", "lastError")>>
CertificateListFields == <<Many(1, "Certificate", "certificates")>>
CertificateArtifactFields == <<
    One(1, "string", "key"), One(2, "string", "label"), One(3, "bool", "available"),
    One(4, "string", "downloadUrl")>>
CertificateIssuanceJobFields == <<
    One(1, "int64", "id"), One(2, "string", "source"), One(3, "string", "status"),
    One(4, "int64", "startedAt"), One(5, "int64", "finishedAt"),
    One(6, "int64", "durationMs"), One(7, "string", "error"),
    One(8, "int64", "certificateId")>>
CertificateTaskRunFields == <<
    One(1, "int64", "id"), One(2, "int64", "taskId"), One(3, "string", "taskName"),
    One(4, "string", "status"), One(5, "string", "responseStatus"),
    One(6, "string", "error"), One(7, "int64", "startedAt"), One(8, "int64", "finishedAt"),
    One(9, "int64", "durationMs"), One(10, "int64", "certificateJobId")>>
CertificateDetailsFields == <<
    One(1, "int64", "recordId"), One(2, "string", "recordName"),
    One(3, "string", "recordDomain"), One(4, "Certificate", "certificate"),
    Many(5, "CertificateArtifact", "artifacts"),
    Many(6, "CertificateIssuanceJob", "issuanceJobs"),
    Many(7, "CertificateTaskRun", "taskRuns"), One(8, "int64", "fetchedAt")>>
TaskFields == <<
    One(1, "int64", "id"), One(2, "int64", "createdAt"), One(3, "int64", "updatedAt"),
    One(4, "int64", "recordId"), One(5, "string", "name"),
    One(6, "TaskTrigger", "triggerOn"), One(7, "string", "method"),
    One(8, "string", "url"), One(9, "string", "headers"), One(10, "string", "body"),
    One(11, "bool", "enabled"), One(12, "int64", "lastRun"),
    One(13, "string", "lastStatus"), One(14, "string", "lastError"),
    One(15, "bool", "includeCertificate"), One(16, "string", "certificateFormat")>>
TaskListFields == <<Many(1, "Task", "tasks")>>
TaskDeleteFields == <<One(1, "int64", "id")>>
TaskResultFields == <<One(1, "string", "status"), One(2, "string", "error")>>
ZoneFields == <<
    One(1, "int64", "id"), One(2, "string", "name"), One(3, "int64", "recordCount")>>
ZoneListFields == <<Many(1, "Zone", "zones")>>
ResolutionFields == <<
    One(1, "string", "server"), Many(2, "string", "addresses"),
    One(3, "int64", "responseTime"), One(4, "string", "error")>>
ResolutionResultFields == <<Many(1, "Resolution", "resolutions")>>
ConfigurationFields == <<
    One(1, "int32", "logLevel"), One(2, "string", "refreshCron"),
    Many(3, "string", "dnsServers"), Many(4, "string", "ipv4Resolvers"),
    Many(5, "string", "ipv6Resolvers"),
    One(15, "double", "ipv4ResolverAgreementThreshold"),
    One(16, "double", "ipv6ResolverAgreementThreshold"),
    One(17, "int32", "ipv4ResolverMinResponses"),
    One(18, "int32", "ipv6ResolverMinResponses"), One(6, "bool", "notificationsEnabled"),
    One(7, "bool", "notificationsOnSuccess"), Many(8, "string", "notificationsRecipients"),
    One(9, "int32", "notificationsCooldownMinutes"),
    One(10, "string", "notificationsSubjectPrefix"), One(11, "bool", "acmeEnabled"),
    One(12, "string", "acmeEmail"), One(13, "bool", "acmeStaging"),
    One(14, "int32", "acmeRenewBeforeDays")>>
LogEntryFields == <<
    One(1, "int64", "timestamp"), One(2, "int32", "level"), One(3, "string", "message")>>

Schema == [
    Empty |-> EmptyFields, Line |-> LineFields, Request |-> RequestFields,
    Address |-> AddressFields, AddressHistory |-> AddressHistoryFields,
    Record |-> RecordFields, RecordList |-> RecordListFields,
    RecordDelete |-> RecordDeleteFields, Certificate |-> CertificateFields,
    CertificateList |-> CertificateListFields,
    CertificateArtifact |-> CertificateArtifactFields,
    CertificateIssuanceJob |-> CertificateIssuanceJobFields,
    CertificateTaskRun |-> CertificateTaskRunFields,
    CertificateDetails |-> CertificateDetailsFields, Task |-> TaskFields,
    TaskList |-> TaskListFields, TaskDelete |-> TaskDeleteFields,
    TaskResult |-> TaskResultFields, Zone |-> ZoneFields, ZoneList |-> ZoneListFields,
    Resolution |-> ResolutionFields, ResolutionResult |-> ResolutionResultFields,
    Configuration |-> ConfigurationFields, LogEntry |-> LogEntryFields]

\* A method of the service: what it takes, what it returns, once or as a stream.
Unary(request, response) == [request |-> request, response |-> response, stream |-> FALSE]
Stream(request, response) == [request |-> request, response |-> response, stream |-> TRUE]

Methods == [
    getZones |-> Unary("Record", "ZoneList"),
    getRecords |-> Unary("Request", "RecordList"),
    upsertRecord |-> Unary("Record", "Record"),
    deleteRecord |-> Unary("RecordDelete", "Empty"),
    refreshRecord |-> Unary("Record", "Record"),
    fetchHetznerRecord |-> Unary("Record", "Address"),
    resolveRecord |-> Unary("Record", "ResolutionResult"),
    streamResolveRecord |-> Stream("Record", "Resolution"),
    streamAddress |-> Stream("Empty", "Address"), getAddress |-> Unary("Empty", "Address"),
    getAddressHistory |-> Unary("Empty", "AddressHistory"),
    refreshAddress |-> Unary("Empty", "Address"),
    getCertificates |-> Unary("Empty", "CertificateList"),
    issueCertificate |-> Unary("Record", "Certificate"),
    getCertificateDetails |-> Unary("Record", "CertificateDetails"),
    getTasks |-> Unary("Empty", "TaskList"), upsertTask |-> Unary("Task", "Task"),
    deleteTask |-> Unary("TaskDelete", "Empty"), runTask |-> Unary("Task", "TaskResult"),
    getConfig |-> Unary("Empty", "Configuration"),
    updateConfig |-> Unary("Configuration", "Configuration"),
    streamLog |-> Stream("Empty", "Line")]

\* The same methods as the pages call them, with the types they pass and expect.
ServiceCalls == [
    getZones |-> Unary("Record", "ZoneList"),
    getRecords |-> Unary("Request", "RecordList"),
    upsertRecord |-> Unary("Record", "Record"),
    deleteRecord |-> Unary("RecordDelete", "Empty"),
    refreshRecord |-> Unary("Record", "Record"),
    fetchHetznerRecord |-> Unary("Record", "Address"),
    resolveRecord |-> Unary("Record", "ResolutionResult"),
    streamResolveRecord |-> Stream("Record", "Resolution"),
    getAddress |-> Unary("Empty", "Address"), streamAddress |-> Stream("Empty", "Address"),
    getAddressHistory |-> Unary("Empty", "AddressHistory"),
    refreshAddress |-> Unary("Empty", "Address"),
    getConfig |-> Unary("Empty", "Configuration"),
    updateConfig |-> Unary("Configuration", "Configuration"),
    getCertificates |-> Unary("Empty", "CertificateList"),
    issueCertificate |-> Unary("Record", "Certificate"),
    streamLog |-> Stream("Empty", "Line"), getTasks |-> Unary("Empty", "TaskList"),
    upsertTask |-> Unary("Task", "Task"), deleteTask |-> Unary("TaskDelete", "Empty"),
    runTask |-> Unary("Task", "TaskResult"),
    getCertificateDetails |-> Unary("Record", "CertificateDetails")]

----------------------------------------------------------------------------
\* Every field has a second, proto spelling in JSON where the two differ.
RecordAliases == [
    createdAt |-> "created_at", updatedAt |-> "updated_at", zoneId |-> "zone_id",
    addressId |-> "address_id", includeWildcard |-> "include_wildcard",
    acmeEmail |-> "acme_email"]
CertificateAliases == [
    createdAt |-> "created_at", updatedAt |-> "updated_at", recordId |-> "record_id",
    notBefore |-> "not_before", notAfter |-> "not_after", lastError |-> "last_error"]
CertificateIssuanceJobAliases == [
    startedAt |-> "started_at", finishedAt |-> "finished_at", durationMs |-> "duration_ms",
    certificateId |-> "certificate_id"]
CertificateTaskRunAliases == [
    taskId |-> "task_id", taskName |-> "task_name", responseStatus |-> "response_status",
    startedAt |-> "started_at", finishedAt |-> "finished_at", durationMs |-> "duration_ms",
    certificateJobId |-> "certificate_job_id"]
CertificateDetailsAliases == [
    recordId |-> "record_id", recordName |-> "record_name",
    recordDomain |-> "record_domain", issuanceJobs |-> "issuance_jobs",
    taskRuns |-> "task_runs", fetchedAt |-> "fetched_at"]
TaskAliases == [
    createdAt |-> "created_at", updatedAt |-> "updated_at", recordId |-> "record_id",
    triggerOn |-> "trigger_on", lastRun |-> "last_run", lastStatus |-> "last_status",
    lastError |-> "last_error", includeCertificate |-> "include_certificate",
    certificateFormat |-> "certificate_format"]
ConfigurationAliases == [
    logLevel |-> "log_level", refreshCron |-> "refresh_cron", dnsServers |-> "dns_servers",
    ipv4Resolvers |-> "ipv4_resolvers", ipv6Resolvers |-> "ipv6_resolvers",
    ipv4ResolverAgreementThreshold |-> "ipv4_resolver_agreement_threshold",
    ipv6ResolverAgreementThreshold |-> "ipv6_resolver_agreement_threshold",
    ipv4ResolverMinResponses |-> "ipv4_resolver_min_responses",
    ipv6ResolverMinResponses |-> "ipv6_resolver_min_responses",
    notificationsEnabled |-> "notifications_enabled",
    notificationsOnSuccess |-> "notifications_on_success",
    notificationsRecipients |-> "notifications_recipients",
    notificationsCooldownMinutes |-> "notifications_cooldown_minutes",
    notificationsSubjectPrefix |-> "notifications_subject_prefix",
    acmeEnabled |-> "acme_enabled", acmeEmail |-> "acme_email",
    acmeStaging |-> "acme_staging", acmeRenewBeforeDays |-> "acme_renew_before_days"]
SmallAliases == [
    createdAt |-> "created_at", updatedAt |-> "updated_at",
    deleteFromHetzner |-> "delete_from_hetzner", downloadUrl |-> "download_url",
    recordCount |-> "record_count", responseTime |-> "response_time"]

Aliases ==
    RecordAliases @@ CertificateAliases @@ CertificateIssuanceJobAliases
        @@ CertificateTaskRunAliases @@ CertificateDetailsAliases @@ TaskAliases
        @@ ConfigurationAliases @@ SmallAliases

PurposeNames == <<"RECORD_PURPOSE_DDNS", "RECORD_PURPOSE_CERT", "RECORD_PURPOSE_BOTH">>
TriggerNames == <<"TASK_TRIGGER_IP", "TASK_TRIGGER_CERT", "TASK_TRIGGER_BOTH">>

Unrecognized == -1

EnumNames(type) == IF type = "RecordPurpose" THEN PurposeNames ELSE TriggerNames

EnumToJson(type, v) ==
    IF v \in DOMAIN EnumNames(type) THEN EnumNames(type)[v] ELSE "UNRECOGNIZED"

EnumFromJson(type, name) ==
    LET known == {v \in DOMAIN EnumNames(type) : EnumNames(type)[v] = name}
    IN  IF known = {} THEN Unrecognized ELSE CHOOSE v \in known : TRUE

----------------------------------------------------------------------------
Enums == {"RecordPurpose", "TaskTrigger"}
IsMessage(type) == type \in DOMAIN Schema

Varint == 0
Fixed64 == 1
Delimited == 2
Fixed32 == 5

WireType(type) ==
    IF type = "string" \/ IsMessage(type) THEN Delimited
    ELSE IF type = "double" THEN Fixed64 ELSE Varint

FieldsOf(type) == ToSet(Schema[type])

CreateBase(type) ==
    [n \in {f.name : f \in FieldsOf(type)} |->
        LET f == CHOOSE g \in FieldsOf(type) : g.name = n
        IN  IF f.many \/ IsMessage(f.type) THEN <<>> ELSE 0]

\* Integers of 64 bits beyond what a JavaScript number holds exactly.
MaxSafe == 99
LongIsSafe(v) == v \in -MaxSafe..MaxSafe

Zero == [no |-> 0, wire |-> Varint, val |-> 0, len |-> 0]
Token(no, wire, val) == [no |-> no, wire |-> wire, val |-> val, len |-> 0]
Header(no, len) == [no |-> no, wire |-> Delimited, val |-> 0, len |-> len]

\* What a newer or different sender may put in front of a message's fields: an
\* unknown number, an unknown message whose content looks like a field of this
\* one, a known field in another wire type.
Extras == {"none", "number", "message", "otherWire"}
Unknown == 50

ExtraTokens(type, extra) ==
    CASE extra = "none"      -> <<>>
      [] extra = "number"    -> <<Token(Unknown, Varint, 7)>>
      [] extra = "otherWire" -> <<Token(1, Fixed32, 7)>>
      [] extra = "message"   ->
            <<Header(Unknown, 1),
              Token(1, IF Schema[type] = <<>> THEN Varint ELSE WireType(Schema[type][1].type), 7)>>

RECURSIVE Encode(_, _, _)
Encode(type, m, extra) ==
    LET Single(f, v) ==
            IF IsMessage(f.type)
            THEN LET body == Encode(f.type, v, extra)
                 IN  <<Header(f.no, Len(body))>> \o body
            ELSE <<Token(f.no, WireType(f.type), v)>>
        Field(f) ==
            IF f.many \/ IsMessage(f.type)
            THEN FlattenSeq([i \in DOMAIN m[f.name] |-> Single(f, m[f.name][i])])
            ELSE IF m[f.name] = 0 THEN <<>> ELSE Single(f, m[f.name])
    IN  ExtraTokens(type, extra)
          \o FlattenSeq([i \in DOMAIN Schema[type] |-> Field(Schema[type][i])])

ProtoName(n) == IF n \in DOMAIN Aliases THEN Aliases[n] ELSE n
Spelled(spelling, n) == IF spelling = "proto" THEN ProtoName(n) ELSE n

\* JSON leaves out what has its default value; names in the sender's spelling.
RECURSIVE ToJson(_, _, _)
ToJson(type, m, spelling) ==
    LET Value(f, v) ==
            IF IsMessage(f.type) THEN ToJson(f.type, v, spelling)
            ELSE IF f.type \in Enums THEN EnumToJson(f.type, v) ELSE v
        sent == {f \in FieldsOf(type) : m[f.name] # CreateBase(type)[f.name]}
    IN  [k \in {Spelled(spelling, f.name) : f \in sent} |->
            LET f == CHOOSE g \in sent : Spelled(spelling, g.name) = k
            IN  IF f.many \/ IsMessage(f.type)
                THEN [i \in DOMAIN m[f.name] |-> Value(f, m[f.name][i])]
                ELSE Value(f, m[f.name])]

\* fromJSON: the camel-case key, else the proto spelling, else the default.
RECURSIVE FromJson(_, _)
FromJson(type, obj) ==
    LET Value(f, v) ==
            IF IsMessage(f.type) THEN FromJson(f.type, v)
            ELSE IF f.type \in Enums THEN EnumFromJson(f.type, v) ELSE v
        Key(n) == IF n \in DOMAIN obj THEN n ELSE ProtoName(n)
    IN  [n \in {f.name : f \in FieldsOf(type)} |->
            LET f == CHOOSE g \in FieldsOf(type) : g.name = n
            IN  IF Key(n) \notin DOMAIN obj THEN CreateBase(type)[n]
                ELSE IF f.many \/ IsMessage(f.type)
                THEN [i \in DOMAIN obj[Key(n)] |-> Value(f, obj[Key(n)][i])]
                ELSE Value(f, obj[Key(n)])]

----------------------------------------------------------------------------
\* The messages sent: the empty one, one with every field set, and those with a
\* single field set to each value that matters for its type.
NewerEnum == 4      \* a value a newer version has added to either enumeration

ScalarValues(f) ==
    CASE f.type \in Enums   -> 1..NewerEnum
      [] f.type = "bool"    -> {1}
      [] f.type = "int64"   -> {f.no, MaxSafe + 1, -MaxSafe - 1}
      [] OTHER              -> {f.no}

RECURSIVE Full(_)
Full(type) ==
    [n \in DOMAIN CreateBase(type) |->
        LET f == CHOOSE g \in FieldsOf(type) : g.name = n
            v == IF IsMessage(f.type) THEN Full(f.type)
                 ELSE CHOOSE x \in ScalarValues(f) : LongIsSafe(x) /\ (f.type \in Enums => x # NewerEnum)
        IN  IF f.many THEN <<v, v>> ELSE IF IsMessage(f.type) THEN <<v>> ELSE v]

Singles(type) ==
    LET With(f) ==
            IF IsMessage(f.type)
            THEN {<<CreateBase(f.type)>>, <<Full(f.type)>>}
            ELSE IF f.many THEN {<<x>> : x \in ScalarValues(f)} ELSE ScalarValues(f)
    IN  UNION {{[CreateBase(type) EXCEPT ![f.name] = v] : v \in With(f)} : f \in FieldsOf(type)}

Samples(type) == {CreateBase(type), Full(type)} \cup Singles(type)

HasUnsafe(type, m) ==
    \E f \in FieldsOf(type) : f.type = "int64" /\ ~f.many /\ ~LongIsSafe(m[f.name])

VARIABLES
    sent,     \* the message, its type, and the type its receiver reads it as
    input,    \* the tokens on the wire
    pos,      \* the reader's position, the tokens read so far
    frames,   \* the decode calls in progress, outermost first
    stage     \* "reading", "thrown", "decoded" or "json"

apiVars == <<sent, input, pos, frames, stage>>

\* Requests are written by the pages and read as the service defines them,
\* answers the other way round.
Passes ==
    {[writer |-> ServiceCalls[m].request, reader |-> Methods[m].request] : m \in DOMAIN ServiceCalls}
      \cup {[writer |-> Methods[m].response, reader |-> ServiceCalls[m].response]
               : m \in DOMAIN ServiceCalls}
      \cup {[writer |-> "LogEntry", reader |-> "LogEntry"]}

Frame(type, end, into) == [type |-> type, end |-> end, message |-> CreateBase(type), into |-> into]

ApiInit ==
    \E p \in Passes : \E m \in Samples(p.writer), extra \in Extras, trailer \in {<<>>, <<Zero>>} :
        /\ sent = [type |-> p.writer, as |-> p.reader, message |-> m]
        /\ input = Encode(p.writer, m, extra) \o trailer
        /\ pos = 0
        /\ frames = <<Frame(p.reader, Len(input), "")>>
        /\ stage = "reading"

top == Last(frames)
tag == input[pos + 1]
Reading == stage = "reading" /\ pos < top.end
Known(f) == f.no = tag.no /\ WireType(f.type) = tag.wire

\* A scalar field, or one element of a repeated one.
DecodeScalar ==
    /\ Reading
    /\ \E f \in FieldsOf(top.type) :
        /\ Known(f) /\ ~IsMessage(f.type)
        /\ f.type = "int64" => LongIsSafe(tag.val)
        /\ frames' = Front(frames) \o
                <<[top EXCEPT !.message[f.name] = IF f.many THEN Append(@, tag.val) ELSE tag.val]>>
    /\ pos' = pos + 1
    /\ UNCHANGED <<sent, input, stage>>

\* A number that JavaScript cannot hold ends the whole decoding with an error.
LongToNumberThrows ==
    /\ Reading
    /\ \E f \in FieldsOf(top.type) : Known(f) /\ f.type = "int64" /\ ~LongIsSafe(tag.val)
    /\ stage' = "thrown"
    /\ UNCHANGED <<sent, input, pos, frames>>

\* A message inside a message: its decoder stops where its length ends.
DecodeMessage ==
    /\ Reading
    /\ \E f \in FieldsOf(top.type) :
        /\ Known(f) /\ IsMessage(f.type)
        /\ frames' = Append(frames, Frame(f.type, pos + 1 + tag.len, f.name))
    /\ pos' = pos + 1
    /\ UNCHANGED <<sent, input, stage>>

\* mutant: an unknown field's content is taken for fields of the message.
SkipTagOnly ==
    /\ Reading
    /\ tag # Zero
    /\ ~\E f \in FieldsOf(top.type) : Known(f)
    /\ pos' = pos + 1
    /\ UNCHANGED <<sent, input, frames, stage>>

\* A field this version does not know is skipped with all its content.
Skip ==
    /\ Reading
    /\ tag # Zero
    /\ ~\E f \in FieldsOf(top.type) : Known(f)
    /\ pos' = pos + 1 + tag.len
    /\ UNCHANGED <<sent, input, frames, stage>>

\* The loop ends at the message's end or at a zero tag; a nested message goes
\* into its field, repeated ones at the end, others in place of an earlier one.
EndMessage ==
    /\ stage = "reading"
    /\ \/ pos >= top.end /\ pos' = pos
       \/ pos < top.end /\ tag = Zero /\ pos' = pos + 1
    /\ IF Len(frames) = 1
       THEN stage' = "decoded" /\ UNCHANGED frames
       ELSE LET parent == frames[Len(frames) - 1]
                f == CHOOSE g \in FieldsOf(parent.type) : g.name = top.into
                value == IF f.many THEN Append(parent.message[f.name], top.message) ELSE <<top.message>>
            IN  /\ frames' = Append(SubSeq(frames, 1, Len(frames) - 2),
                                    [parent EXCEPT !.message[f.name] = value])
                /\ UNCHANGED stage
    /\ UNCHANGED <<sent, input>>

\* A decoded message written as JSON, in either spelling, and read again.
ThroughJson ==
    /\ stage = "decoded"
    /\ \E spelling \in {"camel", "proto"} :
        frames' = <<[top EXCEPT !.message =
                        FromJson(top.type, ToJson(top.type, @, spelling))]>>
    /\ stage' = "json"
    /\ UNCHANGED <<sent, input, pos>>

ApiNext ==
    \/ DecodeScalar \/ LongToNumberThrows \/ DecodeMessage \/ Skip \/ EndMessage
    \/ ThroughJson

ApiSpec == ApiInit /\ [][ApiNext]_apiVars

----------------------------------------------------------------------------
(* The reader stays inside the message, and every decoder inside the part of
   the input that is its own: what a nested decoder reads never belongs to the
   message around it. *)
ApiTypeOK ==
    /\ stage \in {"reading", "thrown", "decoded", "json"}
    /\ pos \in 0..Len(input)
    /\ Len(frames) \in 1..3
    /\ \A i \in DOMAIN frames :
        /\ frames[i].type \in DOMAIN Schema
        /\ DOMAIN frames[i].message = DOMAIN CreateBase(frames[i].type)
        /\ i > 1 => pos <= frames[i].end /\ frames[i].end <= frames[i - 1].end

(* decode (every message of api.ts): the receiver gets the message that was
   sent, read as the type the other side uses, whatever fields of a newer
   version stand between its own; a number beyond the safe range is an error
   and never a changed value. *)
WireRoundTrip ==
    /\ stage = "decoded" => sent.as = sent.type /\ top.message = sent.message
    /\ stage = "thrown" => HasUnsafe(sent.type, sent.message)

(* toJSON, fromJSON: a message survives the trip through JSON in the client's
   spelling and in the proto spelling, with the fields that were left out
   because they had their defaults.  A newer version's value of an enumeration,
   whose number the binary form keeps, comes out as UNRECOGNIZED and never as a
   value this version knows (recordPurposeFromJSON, taskTriggerFromJSON). *)
JsonRoundTrip ==
    stage = "json" =>
        \A f \in FieldsOf(top.type) :
            top.message[f.name] = IF f.type \in Enums /\ sent.message[f.name] = NewerEnum
                                  THEN Unrecognized ELSE sent.message[f.name]

(* All three: the bytes and the JSON of a message are read as it was written,
   and every decoder reads its own part of them. *)
MessagesIntact == ApiTypeOK /\ WireRoundTrip /\ JsonRoundTrip
=============================================================================
