--------------------------- MODULE SourceAddresses ---------------------------
(* Which addresses a remote source or a webhook may name (netGuard.ts): hosts *)
(* as they are written, the classes of their addresses, the targets that a    *)
(* configuration names, and the hub itself.                                   *)
EXTENDS AccessRules

\* A host as it is written, trimmed, in small letters and without a final dot:
\* a name; an IPv4 address of one to four parts, each the bytes of its number;
\* or an IPv6 address, the groups before and after its `::` and a tail in IPv4.
NoV6 == [head |-> <<>>, elided |-> FALSE, tail |-> <<>>, v4 |-> <<>>]
HostName(n) == [form |-> "name", name |-> n, parts |-> <<>>, v6 |-> NoV6]
HostV4(parts) == [form |-> "v4", name |-> "", parts |-> parts, v6 |-> NoV6]
HostV6(v6) == [form |-> "v6", name |-> "", parts |-> <<>>, v6 |-> v6]
Dotted(octets) == HostV4([i \in DOMAIN octets |-> <<octets[i]>>])
NoHost == HostName("")

\* The last part fills the octets the leading ones leave over.
ParseIPv4Loose(host) ==
    LET n == Len(host.parts)
        last == host.parts[n]
    IN  IF \/ host.form # "v4" \/ n > 4
           \/ Len(last) > 5 - n
           \/ \E i \in 1 .. n - 1 : Len(host.parts[i]) > 1
        THEN <<>>
        ELSE [i \in 1 .. n - 1 |-> host.parts[i][1]] \o [i \in 1 .. 5 - n - Len(last) |-> 0] \o last
\* The eight groups, or none for what is no IPv6 address.
ParseIPv6(host) ==
    LET o == host.v6.v4
        tail == host.v6.tail \o (IF o = <<>> THEN <<>> ELSE <<o[1] * 256 + o[2], o[3] * 256 + o[4]>>)
        given == Len(host.v6.head) + Len(tail)
    IN  IF host.form # "v6" \/ (IF host.v6.elided THEN given > 7 ELSE given # 8) THEN <<>>
        ELSE host.v6.head \o [i \in 1 .. 8 - given |-> 0] \o tail
IsLiteral(host) == ParseIPv6(host) # <<>> \/ ParseIPv4Loose(host) # <<>>
HostCanonical(host) == IF ParseIPv4Loose(host) = <<>> THEN host ELSE Dotted(ParseIPv4Loose(host))

HostClasses == {"metadata", "loopback", "private", "public"}
ClassifyV4(o) ==
    CASE (o[1] = 169 /\ o[2] = 254) \/ o = <<100, 100, 100, 200>> -> "metadata"
      [] o[1] \in {0, 127} -> "loopback"
      [] \/ o[1] = 10 \/ (o[1] = 172 /\ o[2] \in 16 .. 31) \/ (o[1] = 192 /\ o[2] = 168)
         \/ (o[1] = 100 /\ o[2] \in 64 .. 127) -> "private"
      [] OTHER -> "public"
ClassifyV6(g) ==
    CASE (\A i \in 1 .. 7 : g[i] = 0) /\ g[8] \in {0, 1} -> "loopback"
      [] (\A i \in 1 .. 5 : g[i] = 0) /\ g[6] = 65535 -> ClassifyV4(<<g[7] \div 256, g[7] % 256, g[8] \div 256, g[8] % 256>>)
      [] g[1] \in 65152 .. 65215 \/ (g[1] = 64768 /\ g[2] = 3778) -> "metadata"
      [] g[1] \in 64512 .. 65023 -> "private"
      [] OTHER -> "public"
MetadataHosts == {"metadata.google.internal", "metadata", "metadata.goog", "instance-data", "instance-data.ec2.internal",
                  "kubernetes.default", "kubernetes.default.svc"}
\* "any.localhost" stands for the names under localhost.
LocalNames == {"localhost", "localhost.localdomain", "ip6-localhost", "ip6-loopback", "any.localhost"}
HubAliases == {"db", "datafabric-hub", "datafabric_hub"}
ClassifyHost(host) ==
    CASE host.form = "name" -> IF host.name \in MetadataHosts THEN "metadata"
                               ELSE IF host.name \in LocalNames \cup {""} THEN "loopback" ELSE "public"
      [] ParseIPv6(host) # <<>> -> ClassifyV6(ParseIPv6(host))
      [] ParseIPv4Loose(host) # <<>> -> ClassifyV4(ParseIPv4Loose(host))
      [] OTHER -> "public"

\* What a connection configuration names.  NoPort stands for a missing port and
\* for one that is none; a blank host names nothing.
NoPort == 0
Target(host, port) == [host |-> host, port |-> port]
Push(targets) ==
    LET named == SelectSeq(targets, LAMBDA t : t.host # NoHost)
    IN  [i \in DOMAIN named |-> Target(named[i].host, IF named[i].port \in 1 .. 65535 THEN named[i].port ELSE NoPort)]

\* A string is a URL, whose hosts have ports of their own and whose query may
\* name more hosts, libpq's pairs, with one port for all, an Oracle descriptor
\* or easy-connect; "socket" stands for a path in the place of a host.
StringTargets(string) ==
    CASE string.shape = "url" -> string.hosts \o [i \in DOMAIN string.params |-> Target(string.params[i], NoPort)]
      [] string.shape = "key=value" -> [i \in DOMAIN string.hosts |-> Target(string.hosts[i].host, string.port)]
      [] string.shape = "descriptor" -> [i \in DOMAIN string.hosts |-> Target(string.hosts[i].host, NoPort)]
      [] OTHER -> string.hosts
\* `direct` are host, hostname and hostaddr.  A Snowflake account with a dot is
\* a host, one without is a name under Snowflake's domain.
AccountTargets(account) ==
    CASE account = "none" -> <<>>
      [] account = "dotted" -> <<Target(HostName("site"), NoPort)>>
      [] OTHER -> <<Target(HostName("snowflakecomputing.com"), NoPort)>>
ExtractTargets(config) ==
    IF ~ config.object \/ config.socketPath \/ \E i \in DOMAIN config.strings : config.strings[i].shape \in {"socket", "unknown"}
    THEN [code |-> "INVALID_TARGET", targets |-> <<>>]
    ELSE [code |-> "ok",
          targets |-> Push(config.direct \o Concat([i \in DOMAIN config.strings |-> StringTargets(config.strings[i])])
                           \o config.hosts \o AccountTargets(config.account))]

\* The hub as the environment describes it: DB_HOST and DB_PORT, DATABASE_URL.
DefaultPort == 5432
HubTargets(env) ==
    LET urls == Range(env.url)
        ports == ({env.db.port} \ {NoPort}) \cup {IF u.port = NoPort THEN DefaultPort ELSE u.port : u \in urls}
    IN  [hosts |-> {HostCanonical(h) : h \in ({env.db.host} \cup {u.host : u \in urls}) \ {NoHost}},
         ports |-> IF ports = {} THEN {DefaultPort} ELSE ports]
HubHost(env) ==
    IF env.db.host # NoHost THEN env.db.host ELSE IF env.url # <<>> THEN env.url[1].host ELSE NoHost
IsHubTarget(t, env) ==
    LET host == HostCanonical(t.host)
        port == IF t.port = NoPort THEN DefaultPort ELSE t.port
    IN  CASE host.form = "name" /\ host.name \in HubAliases -> port = DefaultPort \/ port \in HubTargets(env).ports
          [] ClassifyHost(host) = "loopback" \/ host \in HubTargets(env).hosts -> port \in HubTargets(env).ports
          [] OTHER -> FALSE
ApplyDockerAlias(t) ==
    IF t.host \in {HostName("localhost"), Dotted(<<127, 0, 0, 1>>)} /\ t.port \in {5434, 5436}
    THEN Target(HostName(IF t.port = 5436 THEN "datafabric-remote" ELSE "datafabric-hub"), DefaultPort)
    ELSE t

AllowHub(env, admin) == admin /\ env.allowHub
ClassFault(class, allowPrivate) ==
    IF class = "metadata" THEN "SSRF_BLOCKED"
    ELSE IF ~ allowPrivate /\ class \in {"loopback", "private"} THEN "PRIVATE_TARGET_BLOCKED" ELSE "ok"
TargetFault(t, env, admin) ==
    IF ClassifyHost(t.host) # "metadata" /\ IsHubTarget(t, env) /\ ~ AllowHub(env, admin) THEN "HUB_SOURCE_NOT_ALLOWED"
    ELSE ClassFault(ClassifyHost(t.host), env.allowPrivate)
AssertSourceTargetsAllowed(targets, env, admin) ==
    FirstFault(Concat([i \in DOMAIN targets |->
        <<TargetFault(targets[i], env, admin), TargetFault(ApplyDockerAlias(targets[i]), env, admin)>>]))

\* The addresses a name resolves to, an address to itself; none where the
\* resolver fails or does not answer in time.
Resolved(host, env) ==
    IF IsLiteral(host) THEN <<HostCanonical(host)>>
    ELSE IF host.name \in DOMAIN env.dns THEN env.dns[host.name] ELSE <<>>
\* A literal was judged as it is written; a name that does not resolve passes.
ResolvedFault(t, env, admin) ==
    LET addrs == IF IsLiteral(t.host) THEN <<>> ELSE Resolved(t.host, env)
        fault == FirstFault([i \in DOMAIN addrs |-> ClassFault(ClassifyHost(addrs[i]), env.allowPrivate)])
    IN  IF fault # "ok" THEN fault
        ELSE IF /\ ~ AllowHub(env, admin) /\ HubHost(env) # NoHost /\ t.port # NoPort
                /\ Range(addrs) \cap Range(Resolved(HubHost(env), env)) # {}
                /\ IsHubTarget(Target(HubHost(env), t.port), env)
        THEN "HUB_SOURCE_NOT_ALLOWED" ELSE "ok"
AssertSourceAllowed(config, env, admin) ==
    LET extracted == ExtractTargets(config)
        written == AssertSourceTargetsAllowed(extracted.targets, env, admin)
    IN  IF extracted.code # "ok" THEN extracted.code
        ELSE IF written # "ok" THEN written
        ELSE FirstFault([i \in DOMAIN extracted.targets |-> ResolvedFault(extracted.targets[i], env, admin)])

\* `illegal` stands for the characters and for what is no URL; the host is the
\* one the URL parser gives, an IPv4 address in four parts.
AssertSafeWebhookUrl(url, env) ==
    CASE \/ url.length = 0 \/ url.length > 2048 \/ url.illegal
         \/ url.protocol \notin {"http", "https"} \/ url.credentials -> "INVALID_WEBHOOK_URL"
      [] ClassFault(ClassifyHost(url.host), env.allowPrivate) # "ok" -> ClassFault(ClassifyHost(url.host), env.allowPrivate)
      [] ~ env.allowPrivate /\ (url.host.name \in HubAliases \/ url.host \in HubTargets(env).hosts) -> "PRIVATE_TARGET_BLOCKED"
      [] OTHER -> "ok"
\* Before a webhook is called its host must resolve, to admissible addresses.
AssertWebhookResolvesSafe(url, env) ==
    LET addrs == Resolved(url.host, env)
    IN  IF AssertSafeWebhookUrl(url, env) # "ok" \/ IsLiteral(url.host) THEN AssertSafeWebhookUrl(url, env)
        ELSE IF url.host.name \notin DOMAIN env.dns THEN "WEBHOOK_UNRESOLVABLE"
        ELSE FirstFault([i \in DOMAIN addrs |-> ClassFault(ClassifyHost(addrs[i]), env.allowPrivate)])

\* An address has the class of the block it lies in, however it is written, in
\* IPv6 too; what is malformed is no address.
BlockClass(o) ==
    CASE InBlock(o, <<169, 254, 0, 0>>, 16) \/ InBlock(o, <<100, 100, 100, 200>>, 32) -> "metadata"
      [] InBlock(o, <<127, 0, 0, 0>>, 8) \/ InBlock(o, <<0, 0, 0, 0>>, 8) -> "loopback"
      [] \/ InBlock(o, <<10, 0, 0, 0>>, 8) \/ InBlock(o, <<172, 16, 0, 0>>, 12)
         \/ InBlock(o, <<192, 168, 0, 0>>, 16) \/ InBlock(o, <<100, 64, 0, 0>>, 10) -> "private"
      [] OTHER -> "public"
ClassHolds(octets, written, mapped, malformed) ==
    /\ \A h \in written : ParseIPv4Loose(h) = octets /\ ClassifyHost(h) = BlockClass(octets)
    /\ \A h \in mapped : ClassifyHost(h) = BlockClass(octets)
    /\ \A h \in malformed : ~ IsLiteral(h) /\ ClassifyHost(h) = "public"

\* A configuration is admitted when each of the addresses it names would be
\* alone, whichever field names it and in whichever order; each switch of the
\* environment opens its own class, and nothing opens the metadata service.  A
\* source reaches a port of the hub, by its name or by a name of its address,
\* only for an administrator who may.
SourceHolds(config, env, admin) ==
    LET ok(c, e, a) == AssertSourceAllowed(c, e, a) = "ok"
        alone(t) == [object |-> TRUE, direct |-> <<t>>, strings |-> <<>>, hosts |-> <<>>, account |-> "none", socketPath |-> FALSE]
        targets == ExtractTargets(config).targets
        reached(t) == {t.host} \cup Range(Resolved(t.host, env))
        hub(t) == /\ t.port \in HubTargets(env).ports
                  /\ \/ HostCanonical(t.host) \in HubTargets(env).hosts
                     \/ ~ IsLiteral(t.host) /\ Range(Resolved(t.host, env)) \cap Range(Resolved(HubHost(env), env)) # {}
    IN  /\ ExtractTargets(config).code = "ok" => (ok(config, env, admin) <=> \A i \in DOMAIN targets : ok(alone(targets[i]), env, admin))
        /\ ok(config, env, admin) => ok(config, [env EXCEPT !.allowPrivate = TRUE], admin) /\ ok(config, [env EXCEPT !.allowHub = TRUE], admin)
        /\ ok(config, env, TRUE) # ok(config, env, FALSE) => env.allowHub
        /\ ok(config, env, admin) =>
              \A i \in DOMAIN targets :
                  /\ \A h \in reached(targets[i]) : ClassifyHost(h) # "metadata" /\ (~ env.allowPrivate => ClassifyHost(h) = "public")
                  /\ hub(targets[i]) => AllowHub(env, admin)
\* The test at definition and the one before the call agree but for the names.
WebhookHolds(url, env) ==
    /\ AssertWebhookResolvesSafe(url, env) = "ok" =>
          /\ AssertSafeWebhookUrl(url, env) = "ok"
          /\ \A h \in {url.host} \cup Range(Resolved(url.host, env)) : ClassFault(ClassifyHost(h), env.allowPrivate) = "ok"
    /\ AssertSafeWebhookUrl(url, env) = "ok" /\ IsLiteral(url.host) => AssertWebhookResolvesSafe(url, env) = "ok"
=============================================================================
