-------------------------- MODULE TriggerDefinitions --------------------------
(* Trigger definitions as pure functions: what trigger_validator.ts accepts,  *)
(* and what the two compilers make of a definition: the backend's             *)
(* TriggerActionCompiler (manifest triggers, installed when a manifest is     *)
(* applied) and the trigger engine's TriggerTranspiler (registry triggers,    *)
(* installed by a DEPLOY_TRIGGER job).  A definition is reduced to the kinds  *)
(* of value its fields may hold; SQL text is reduced to what it does.         *)
EXTENDS Integers, Sequences, FiniteSets
LOCAL INSTANCE SequencesExt

\* A name: missing, bare, qualified with a schema of the workspace or with a
\* schema of somebody else.  A condition: missing, a {left, operator, right}
\* tree, a tree with an unknown operator, or legacy free text.
NameKinds == {"none", "bare", "own", "foreign"}
ConditionKinds == {"none", "tree", "unknownOp", "text"}
Timings == {"none", "BEFORE", "AFTER"}
Ops == {"INSERT", "DELETE", "TRUNCATE"}
ExecuteTypes == {"FUNCTION", "WEBHOOK", "EXCEPTION", "AUDIT"}
ActionTypes == {"INSERT", "UPDATE", "DELETE", "RAISE", "PERFORM", "SQL"}

Definitions ==
    [form : {"execute"}, type : ExecuteTypes \cup {"unknown"}, name : NameKinds,
     when : ConditionKinds, condition : ConditionKinds, timing : Timings, op : Ops,
     url : {"none", "public", "internal"}, schedule : {"none", "RELATIVE", "unknown"}]
    \cup
    [form : {"action"}, type : ActionTypes, name : NameKinds, when : ConditionKinds,
     condition : {"none", "tree"}, timing : Timings, op : Ops, url : {"none"},
     schedule : {"none"}]
    \cup
    [form : {"procedure", "none"}, type : {"none"}, name : NameKinds, when : {"none"},
     condition : {"none", "tree"}, timing : Timings, op : Ops, url : {"none"},
     schedule : {"none"}]

Condition(c) == c # "none"
----------------------------------------------------------------------------
(* trigger_validator.ts                                                      *)

\* qualified: a name is required, and a schema must be the tenant's.
QualifiedOk(n) == n \in {"bare", "own"}
\* validateCondition: operators are checked, the legacy string form passes.
ConditionOk(c) == c # "unknownOp"
UrlOk(u) == u # "internal"

ValidateExecute(d) ==
    /\ d.type \in ExecuteTypes
    /\ d.type = "FUNCTION" => QualifiedOk(d.name)
    /\ d.type = "EXCEPTION" => ConditionOk(d.when)
    /\ UrlOk(d.url)

\* validateAction: free SQL is for those who may write it.
ValidateAction(d, allowFreeSql) ==
    CASE d.type = "SQL" -> allowFreeSql
      [] d.type = "INSERT" -> QualifiedOk(d.name)
      [] d.type \in {"UPDATE", "DELETE"} ->
            QualifiedOk(d.name) /\ Condition(d.when) /\ ConditionOk(d.when)
      [] d.type = "RAISE" -> ConditionOk(d.when)
      [] OTHER -> QualifiedOk(d.name)

ValidateSchedule(s) == s # "unknown"

ValidateDefinition(d, allowFreeSql) ==
    /\ ConditionOk(d.condition)
    /\ d.form = "execute" => ValidateExecute(d)
    /\ d.form = "action" => ValidateAction(d, allowFreeSql)
    /\ d.form = "procedure" => QualifiedOk(d.name)
    /\ ValidateSchedule(d.schedule)

ValidateManifestTrigger(d, allowFreeSql) ==
    d.form # "none" /\ ValidateDefinition(d, allowFreeSql)

\* validateTriggerPayload: registry triggers have an execute block, and an
\* event unless they have a schedule.
ValidateTriggerPayload(d) == ValidateDefinition(d, FALSE) /\ d.form = "execute"

----------------------------------------------------------------------------
(* The compilers.  A compiled trigger is its firing event and timing, a       *)
(* guard, what its body does, the schemas its SQL names, and the row it       *)
(* returns.                                                                   *)

Rejected == [ok |-> FALSE]
Compiled(timing, op, guard, effect, schemas, returns) ==
    [ok |-> TRUE, timing |-> timing, op |-> op, guard |-> guard, effect |-> effect,
     schemas |-> schemas, returns |-> returns]

\* qualify: the schema a name ends up in; a foreign schema throws.
Qualify(n, bareSchema) == IF n = "bare" THEN bareSchema ELSE n

\* condition: free text has no left and right, which compile to NULL = NULL.
ConditionCompiles(c) == c # "unknownOp"

\* compileActionBody
ActionBody(d, allowFreeSql) ==
    CASE d.type = "SQL" -> [ok |-> allowFreeSql, effect |-> "sql", schemas |-> {}]
      [] d.type \in {"INSERT", "UPDATE", "DELETE"} ->
            [ok |-> /\ QualifiedOk(d.name)
                    /\ d.type # "INSERT" => Condition(d.when) /\ ConditionCompiles(d.when),
             effect |-> "dml", schemas |-> {Qualify(d.name, "own")}]
      [] d.type = "RAISE" ->
            [ok |-> ConditionCompiles(d.when), effect |-> "raise", schemas |-> {}]
      [] OTHER ->
            [ok |-> QualifiedOk(d.name), effect |-> "call", schemas |-> {Qualify(d.name, "own")}]

\* compileExecute; AUDIT is the built-in audit_log_fn, the messages enqueue a
\* job for the engine.
ExecuteBody(d) ==
    CASE d.type = "AUDIT" -> [ok |-> TRUE, effect |-> "audit", schemas |-> {"public"}]
      [] d.type = "FUNCTION" ->
            [ok |-> QualifiedOk(d.name), effect |-> "call", schemas |-> {Qualify(d.name, "own")}]
      [] d.type = "EXCEPTION" ->
            [ok |-> ConditionCompiles(d.when), effect |-> "raise", schemas |-> {}]
      [] d.type = "WEBHOOK" -> [ok |-> UrlOk(d.url), effect |-> "enqueue", schemas |-> {"public"}]
      [] OTHER -> [ok |-> FALSE, effect |-> "none", schemas |-> {}]

ProcedureBody(d) ==
    [ok |-> QualifiedOk(d.name), effect |-> "procedure", schemas |-> {Qualify(d.name, "public")}]

\* TriggerActionCompiler.toSql: action, then execute, then procedure; the
\* trigger-level condition is not compiled; an event without a timing is AFTER.
CompileManifest(d, allowFreeSql) ==
    LET body == CASE d.form = "action" -> ActionBody(d, allowFreeSql)
                  [] d.form = "execute" -> ExecuteBody(d)
                  [] d.form = "procedure" -> ProcedureBody(d)
                  [] OTHER -> [ok |-> FALSE]
    IN  IF ~body.ok THEN Rejected
        ELSE Compiled(IF d.timing = "none" THEN "AFTER" ELSE d.timing, d.op, "none",
                      body.effect, body.schemas, "newOrOld")

\* astToSql of the engine rejects free text.
EngineConditionCompiles(c) == c \in {"none", "tree"}

\* TriggerTranspiler.toSql: the event must name timing and operation; the body
\* ends in RETURN NEW.
CompileEngine(d) ==
    LET body == CASE d.type = "EXCEPTION" ->
                       [ok |-> EngineConditionCompiles(d.when), effect |-> "raise", schemas |-> {}]
                  [] d.type = "AUDIT" ->
                       [ok |-> UrlOk(d.url), effect |-> "audit", schemas |-> {"public"}]
                  [] d.type = "WEBHOOK" ->
                       [ok |-> UrlOk(d.url), effect |-> "enqueue", schemas |-> {"public"}]
                  [] d.type = "FUNCTION" ->
                       [ok |-> QualifiedOk(d.name), effect |-> "call",
                        schemas |-> {Qualify(d.name, "own")}]
                  [] OTHER -> [ok |-> FALSE]
    IN  IF \/ d.timing = "none" \/ d.op = "TRUNCATE"
           \/ ~EngineConditionCompiles(d.condition) \/ ~body.ok
        THEN Rejected
        ELSE Compiled(d.timing, d.op, d.condition, body.effect, body.schemas, "new")

----------------------------------------------------------------------------
(* What an installed trigger does when a row operation `op` happens: whether  *)
(* it runs unconditionally, what it does, and whether the row operation goes  *)
(* ahead (a BEFORE trigger that returns NULL cancels it; NEW is NULL in a     *)
(* DELETE).                                                                   *)
OnRow(c, op) ==
    [runs |-> c.op = op, guard |-> c.guard, effect |-> c.effect,
     cancels |-> c.timing = "BEFORE" /\ c.op = op /\ op = "DELETE" /\ c.returns = "new"]

----------------------------------------------------------------------------
(* Properties of one definition                                              *)

\* A manifest trigger the validator accepts compiles, so an apply does not
\* fail halfway through its statements because of a trigger.
AcceptedManifestCompiles(d) ==
    \A free \in BOOLEAN :
        ValidateManifestTrigger(d, free) => CompileManifest(d, free).ok

\* Whatever a registry row holds (it is user-writable and compiled without
\* being validated again), neither compiler emits SQL that names a schema
\* outside the workspace, except the built-in objects in public.
CompiledIsConfined(d) ==
    \A c \in {CompileManifest(d, FALSE)} \cup (IF d.form = "execute" THEN {CompileEngine(d)} ELSE {}) :
        c.ok => c.schemas \subseteq {"own", "public"}

\* The same definition does the same, deployed by the engine or applied with a
\* manifest, where it has no trigger-level condition (manifests ignore it) and
\* is not BEFORE DELETE (the engine's body returns NEW, which cancels it).
CompilersAgree(d) ==
    LET m == CompileManifest(d, FALSE)
        e == CompileEngine(d)
    IN  /\ d.form = "execute" /\ d.condition = "none" /\ m.ok /\ e.ok
        /\ ~(d.timing = "BEFORE" /\ d.op = "DELETE")
        => \A op \in Ops : OnRow(m, op) = OnRow(e, op)

\* What the validator accepts from the API deploys, if its conditions are
\* structured and its event names a timing and a row operation.
AcceptedPayloadDeploys(d) ==
    /\ ValidateTriggerPayload(d)
    /\ d.condition # "text" /\ d.when # "text" /\ d.timing # "none" /\ d.op # "TRUNCATE"
    => CompileEngine(d).ok

----------------------------------------------------------------------------
(* Notifications the engine's worker sends.  A value of a row is the text     *)
(* String() makes of it, the numbers Number() makes of it (none for NaN) and  *)
(* the place of that text among strings.  A text is a sequence of parts, so   *)
(* that a value may itself look like a placeholder.                           *)

Undefined == [kind |-> "undefined", text |-> <<>>, num |-> {}, rank |-> 0]
Literal(s) == <<[part |-> "text", s |-> s]>>
Placeholder(path) == [part |-> "path", path |-> path]
Choice(left, op, right, yes, no) ==
    [part |-> "choice", left |-> left, op |-> op, right |-> right, yes |-> yes, no |-> no]

GetPath(ctx, path) == IF path \in DOMAIN ctx THEN ctx[path] ELSE Undefined

\* A bare word that names no path stands for itself.
ResolveLiteralOrPath(raw, ctx) ==
    IF raw.word = "none" \/ GetPath(ctx, raw.word) = Undefined THEN raw.value ELSE GetPath(ctx, raw.word)

Compare(op, a, b) ==
    CASE op = "==" -> a = b
      [] op = "!=" -> a # b
      [] op = ">" -> a > b
      [] op = "<" -> a < b
      [] op = ">=" -> a >= b
      [] op = "<=" -> a <= b

\* Numbers are compared as numbers if both sides are, as text otherwise; an
\* expression that is not a comparison is false.
EvaluateCondition(c, ctx) ==
    LET l == GetPath(ctx, c.left)
        r == ResolveLiteralOrPath(c.right, ctx)
    IN  /\ c.op # "malformed"
        /\ IF l.num # {} /\ r.num # {} THEN \A a \in l.num, b \in r.num : Compare(c.op, a, b)
           ELSE Compare(c.op, l.rank, r.rank)

ReplaceChoice(p, ctx) ==
    IF p.part # "choice" THEN <<p>> ELSE IF EvaluateCondition(p, ctx) THEN p.yes ELSE p.no
ReplacePath(p, ctx) == IF p.part = "path" THEN GetPath(ctx, p.path).text ELSE <<p>>

\* One pass for the choices, a second one for the placeholders.
RenderTemplate(template, ctx) ==
    LET chosen == FlattenSeq([i \in DOMAIN template |-> ReplaceChoice(template[i], ctx)])
    IN  FlattenSeq([i \in DOMAIN chosen |-> ReplacePath(chosen[i], ctx)])
RenderObject(obj, ctx) == [k \in DOMAIN obj |-> RenderTemplate(obj[k], ctx)]

\* The channel of an action: the default first, then the one changed last.
LoadChannelConfig(channels, tenant, actionType) ==
    LET active == {c \in channels : c.tenant = tenant /\ c.type = actionType /\ c.status = "ACTIVE"}
        defaults == {c \in active : c.default}
        first == IF defaults # {} THEN defaults ELSE active
    IN  IF actionType \notin {"EMAIL", "TELEGRAM", "WEBHOOK"} THEN {}
        ELSE {c \in first : \A d \in first : d.updated <= c.updated}

\* The Authorization header of a webhook, and where a secret was posted for it.
Authorized(header, posted) == [ok |-> TRUE, header |-> header, posted |-> posted]
ResolveAuth(auth, endpointSafe, answer) ==
    CASE auth.type = "BASIC" /\ auth.complete -> Authorized("Basic", FALSE)
      [] auth.type = "BEARER" /\ auth.complete -> Authorized("Bearer", FALSE)
      [] auth.type = "OIDC" ->
            IF ~auth.complete \/ ~endpointSafe THEN [ok |-> FALSE, header |-> "none", posted |-> FALSE]
            ELSE IF answer # "token" THEN [ok |-> FALSE, header |-> "none", posted |-> TRUE]
            ELSE Authorized("Bearer", TRUE)
      [] OTHER -> Authorized("none", FALSE)

\* A message is its template with every placeholder, those of the branch chosen
\* included, replaced by the row's value and nothing else: a value that looks
\* like a placeholder is sent as it is.
MessageHolds(template, ctx) ==
    LET say(p) == IF p.part = "path" THEN GetPath(ctx, p.path).text ELSE <<p>>
        sayAll(ps) == FlattenSeq([i \in DOMAIN ps |-> say(ps[i])])
        part(p) == IF p.part # "choice" THEN say(p)
                   ELSE sayAll(IF EvaluateCondition(p, ctx) THEN p.yes ELSE p.no)
    IN  /\ RenderTemplate(template, ctx) = FlattenSeq([i \in DOMAIN template |-> part(template[i])])
        /\ RenderObject([body |-> template], ctx).body = RenderTemplate(template, ctx)

\* Of <, == and > exactly one holds, and each other sign is the negation of
\* one of them; a number means the same written as a text.
ConditionHolds(left, right, ctx) ==
    LET holds(op) == EvaluateCondition([left |-> left, op |-> op, right |-> right], ctx)
    IN  /\ Cardinality({op \in {"<", "==", ">"} : holds(op)}) = 1
        /\ holds("!=") # holds("==") /\ holds(">=") # holds("<") /\ holds("<=") # holds(">")
        /\ \A v \in {GetPath(ctx, left)}, w \in {ResolveLiteralOrPath(right, ctx)} :
              v.num # {} /\ v.num = w.num => holds("==")

\* A message leaves through a channel of its own workspace that is switched on,
\* the default one unless that is off, whenever there is one.
ChannelHolds(channels, tenant, actionType) ==
    LET chosen == LoadChannelConfig(channels, tenant, actionType)
        usable == {c \in channels : c.tenant = tenant /\ c.type = actionType /\ c.status = "ACTIVE"}
    IN  /\ chosen \subseteq usable
        /\ actionType # "AUDIT" /\ usable # {} => chosen # {}
        /\ \A c \in chosen, d \in usable : d.default => c.default

\* The client secret goes to an endpoint that was judged safe only, and a
\* webhook that asks for a token is not sent without one.
AuthorizationHolds(auth, endpointSafe, answer) ==
    LET a == ResolveAuth(auth, endpointSafe, answer)
    IN  /\ a.posted => endpointSafe /\ auth.complete
        /\ auth.type = "OIDC" /\ a.ok => a.header = "Bearer" /\ answer = "token"
        /\ auth.complete /\ auth.type \in {"BASIC", "BEARER"} => a.ok /\ a.header # "none"
=============================================================================
