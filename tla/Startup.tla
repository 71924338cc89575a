------------------------------ MODULE Startup -------------------------------
(***************************************************************************)
(* From argv and a TOML file to a running router: main.rs, parsers/cli.rs, *)
(* parsers/toml.rs, config.rs and the sizing at the head of lib.rs's run.  *)
(*                                                                         *)
(* argv is what clap hands over; the file is what the toml crate hands     *)
(* over: an ordered table of [endpoint.NAME] entries with typed fields, of *)
(* which an absent one is not in the entry's domain.  Every Option is a    *)
(* sequence of length 0 or 1.                                              *)
(***************************************************************************)
EXTENDS EndpointText, FiniteSets

CONSTANTS
  Inputs,             \* the [argv, file] pairs the process may start with
  DEFAULT_STATS_INTERVAL_SECS, MIN_STATS_INTERVAL_SECS,
  DEFAULT_DEDUP_MS, MAX_DEDUP_MS,
  DEFAULT_PEER_CAPACITY, DEFAULT_TCPS_PEER_BUDGET

VARIABLES
  argv,       \* Cli
  file,       \* the file --config names
  pc,         \* the point main has reached
  toml,       \* TomlConfig
  cli_cfg,    \* CliConfig
  cfg,        \* Config, once merged
  overrides,  \* overridden_names
  plan,       \* what run derives from the configuration before it spawns
  exit        \* the exit code: <<>> while the process lives

vars == <<argv, file, pc, toml, cli_cfg, cfg, overrides, plan, exit>>

-----------------------------------------------------------------------------
(***************************************************************************)
(* parsers/toml.rs.  An entry is [type, known, fields]; `known' is false   *)
(* when serde refuses it: an unknown key, or a value of the wrong type.    *)
(***************************************************************************)
SchemeFields == {"path", "baud", "flow_control", "bind", "host", "port",
                 "idle_secs", "latch_idle_secs"}

AllowedFields == [serial |-> {"path", "baud", "flow_control"},
                  udps   |-> {"bind", "idle_secs"},
                  tcps   |-> {"bind"},
                  udpc   |-> {"host", "port", "latch_idle_secs"},
                  tcpc   |-> {"host", "port"}]

RequiredFields == [serial |-> {"path", "baud"}, udps |-> {"bind"}, tcps |-> {"bind"},
                   udpc |-> {"host", "port"}, tcpc |-> {"host", "port"}]

scheme_from_toml_type(type) ==
  IF type \in Schemes THEN Ok(type) ELSE Err("ConfigSchema")

reject_disallowed_fields(entry, scheme) ==
  IF DOMAIN entry.fields \cap SchemeFields \subseteq AllowedFields[scheme]
    THEN Ok(<<>>) ELSE Err("ConfigSchema")

\* Mutant: an IPv6 host is not bracketed.
synthesize_body_NoBrackets(entry, scheme) ==
  LET f == entry.fields
  IN  IF ~(RequiredFields[scheme] \subseteq DOMAIN f) THEN Err("ConfigSchema")
      ELSE CASE scheme = "serial"           -> Ok(f.path \o <<":">> \o to_string(f.baud))
             [] scheme \in {"udps", "tcps"} -> Ok(f.bind)
             [] OTHER                       -> Ok(f.host \o <<":">> \o to_string(f.port))

synthesize_body(entry, scheme) ==
  LET f == entry.fields
  IN  IF ~(RequiredFields[scheme] \subseteq DOMAIN f) THEN Err("ConfigSchema")
      ELSE CASE scheme = "serial"           -> Ok(f.path \o <<":">> \o to_string(f.baud))
             [] scheme \in {"udps", "tcps"} -> Ok(f.bind)
             [] Contains(f.host, ":")       ->
                  Ok(<<"[">> \o f.host \o <<"]", ":">> \o to_string(f.port))
             [] OTHER                       -> Ok(f.host \o <<":">> \o to_string(f.port))

\* The fields that become query pairs, in the order collect_pairs takes them.
PairFields == <<"flow_control", "idle_secs", "latch_idle_secs", "sniffer", "group",
  "allow_msgid_in", "block_msgid_in", "allow_msgid_out", "block_msgid_out",
  "allow_src_sys_in", "block_src_sys_in", "allow_src_sys_out", "block_src_sys_out",
  "allow_src_comp_in", "block_src_comp_in", "allow_src_comp_out",
  "block_src_comp_out", "allow_src_endpoint_out", "block_src_endpoint_out">>

collect_pairs(entry) ==
  LET present == SelectSeq(PairFields, LAMBDA k : k \in DOMAIN entry.fields)
      text(k) == CASE k \in {"idle_secs", "latch_idle_secs"} -> to_string(entry.fields[k])
                   [] k = "sniffer" -> IF entry.fields[k] THEN <<"true">> ELSE <<"false">>
                   [] OTHER -> entry.fields[k]
  IN  [i \in DOMAIN present |-> <<<<present[i]>>, text(present[i])>>]

\* TomlEndpoint::into_spec, after the typed conversion of the table's value.
into_spec(name, entry) ==
  IF ~entry.known THEN Err("ConfigParse")
  ELSE Then(scheme_from_toml_type(entry.type), LAMBDA scheme :
         Then(reject_disallowed_fields(entry, scheme), LAMBDA none :
           Then(synthesize_body(entry, scheme), LAMBDA body :
             build(scheme, body, <<name>>, collect_pairs(entry)))))

\* TomlFile::into_toml_config: the first entry that fails is the error.
into_toml_config(f) ==
  Then(TryFold(LAMBDA out, e : Then(into_spec(e[1], e[2]), LAMBDA spec : Ok(Append(out, spec))),
               <<>>, f.endpoint),
       LAMBDA specs : Ok([globals |-> f.globals, endpoints |-> specs]))

\* TomlConfig::from_path and parse_str
from_path(f) ==
  CASE f.state = "unreadable" -> Err("ConfigIo")
    [] f.state = "not_toml"   -> Err("ConfigParse")
    [] f.state = "good"       -> into_toml_config(f)

-----------------------------------------------------------------------------
(***************************************************************************)
(* parsers/cli.rs.  --stats and --skip-config-log are flags: their absence *)
(* is None, so that it does not override the file.                         *)
(***************************************************************************)
Globals == {"log_level", "log_format", "stats", "stats_interval_secs", "dedup_ms",
            "skip_config_log"}

NoGlobals == [g \in Globals |-> <<>>]

has_values(source) ==
  source.endpoints # <<>> \/ \E g \in Globals : source.globals[g] # <<>>

parse_specs(raw) ==
  TryFold(LAMBDA out, text : Then(parse(text), LAMBDA spec : Ok(Append(out, spec))),
          <<>>, raw)

into_cli_config(cli) ==
  LET flag(g) == IF g \in cli.flags THEN <<TRUE>> ELSE <<>>
  IN  Then(parse_specs(cli.endpoints), LAMBDA specs :
        Ok([globals |-> [g \in Globals |->
              IF g \in {"stats", "skip_config_log"} THEN flag(g) ELSE cli.globals[g]],
            endpoints |-> specs]))

-----------------------------------------------------------------------------
(***************************************************************************)
(* config.rs.                                                              *)
(***************************************************************************)
Names(specs) == {specs[i].name : i \in DOMAIN specs}

check_unique_names(specs) ==
  IF Cardinality(Names(specs)) = Len(specs) THEN Ok(<<>>) ELSE Err("DuplicateName")

\* src_endpoint_out_entries
References(spec) ==
  ToSet(spec.kind.identity.filters.allow_src_endpoint_out)
    \cup ToSet(spec.kind.identity.filters.block_src_endpoint_out)

validate_endpoint_references(specs) ==
  IF \A i \in DOMAIN specs : References(specs[i]) \subseteq Names(specs)
    THEN Ok(<<>>) ELSE Err("FilterReferencesUnknownEndpoint")

validate(c) ==
  IF c.dedup_ms > MAX_DEDUP_MS THEN Err("DedupMsTooLarge")
  ELSE IF c.stats_interval_secs < MIN_STATS_INTERVAL_SECS THEN Err("StatsIntervalTooSmall")
  ELSE Then(check_unique_names(c.endpoints), LAMBDA none :
         validate_endpoint_references(c.endpoints))

\* Mutant: the file wins over the command line.
merge_endpoints_FileWins(toml_endpoints, cli_endpoints) ==
  <<toml_endpoints \o SelectSeq(cli_endpoints, LAMBDA e : e.name \notin Names(toml_endpoints)),
    SelectSeq(toml_endpoints, LAMBDA e : e.name \in Names(cli_endpoints))>>

\* The merged list, and the TOML endpoints it leaves out.
merge_endpoints(toml_endpoints, cli_endpoints) ==
  <<SelectSeq(toml_endpoints, LAMBDA e : e.name \notin Names(cli_endpoints)) \o cli_endpoints,
    SelectSeq(toml_endpoints, LAMBDA e : e.name \in Names(cli_endpoints))>>

Defaults == [log_level |-> "info", log_format |-> "text", stats |-> FALSE,
             stats_interval_secs |-> DEFAULT_STATS_INTERVAL_SECS,
             dedup_ms |-> DEFAULT_DEDUP_MS, skip_config_log |-> FALSE]

\* cli.or(toml).unwrap_or(default)
Resolve(g, t, c) ==
  Head(c.globals[g] \o t.globals[g] \o <<Defaults[g]>>)

\* Config::merge
merge(t, c) ==
  LET both == merge_endpoints(t.endpoints, c.endpoints)
      config == [g \in Globals |-> Resolve(g, t, c)]
                  @@ [endpoints |-> both[1], merged |-> has_values(t) /\ has_values(c)]
  IN  Then(check_unique_names(t.endpoints), LAMBDA a :
        Then(check_unique_names(c.endpoints), LAMBDA b :
          Then(validate(config), LAMBDA d :
            Ok([config |-> config,
                overridden_names |-> [i \in DOMAIN both[2] |-> both[2][i].name]]))))

-----------------------------------------------------------------------------
(***************************************************************************)
(* lib.rs: what run works out before it spawns a task.                     *)
(***************************************************************************)
Members(specs, group) ==
  {i \in DOMAIN specs : /\ ~specs[i].kind.identity.sniffer
                        /\ specs[i].kind.identity.group = group}

groups_needing_dedup_warning(specs, dedup_ms) ==
  LET groups == {specs[i].kind.identity.group : i \in DOMAIN specs} \ {<<>>}
  IN  IF dedup_ms > 0 THEN {}
      ELSE {g \in groups : Cardinality(Members(specs, g)) >= 2}

estimate_registry_size(specs) ==
  FoldLeft(LAMBDA n, spec : CASE spec.kind.scheme = "udps" -> n + DEFAULT_PEER_CAPACITY
                              [] spec.kind.scheme = "tcps" -> n + DEFAULT_TCPS_PEER_BUDGET
                              [] OTHER -> n,
           Len(specs), specs)

\* event_q_cap and stats_q_cap
QueueCapacity(specs) == Max({2 * estimate_registry_size(specs), 64})

-----------------------------------------------------------------------------
(***************************************************************************)
(* main.rs: one action per point at which main can return.                 *)
(***************************************************************************)
NoSource == [globals |-> NoGlobals, endpoints |-> <<>>]

Init ==
  /\ \E input \in Inputs : argv = input.argv /\ file = input.file
  /\ pc = "load"
  /\ toml = NoSource /\ cli_cfg = NoSource
  /\ cfg = <<>> /\ overrides = <<>> /\ plan = <<>> /\ exit = <<>>

Fail == pc' = "done" /\ exit' = <<"FAILURE">>

LoadToml ==
  LET result == from_path(file)
  IN  /\ pc = "load"
      /\ IF ~argv.config
           THEN pc' = "cli" /\ UNCHANGED <<toml, exit>>
           ELSE IF result.ok
             THEN toml' = result.value /\ pc' = "cli" /\ UNCHANGED exit
             ELSE Fail /\ UNCHANGED toml
      /\ UNCHANGED <<argv, file, cli_cfg, cfg, overrides, plan>>

IntoCliConfig ==
  LET result == into_cli_config(argv)
  IN  /\ pc = "cli"
      /\ IF result.ok
           THEN cli_cfg' = result.value /\ pc' = "merge" /\ UNCHANGED exit
           ELSE Fail /\ UNCHANGED cli_cfg
      /\ UNCHANGED <<argv, file, toml, cfg, overrides, plan>>

Merge ==
  LET result == merge(toml, cli_cfg)
  IN  /\ pc = "merge"
      /\ IF ~result.ok
           THEN Fail /\ UNCHANGED <<cfg, overrides>>
           ELSE /\ cfg' = <<result.value.config>>
                /\ overrides' = result.value.overridden_names
                /\ IF ~argv.dry_run /\ result.value.config.endpoints = <<>>
                     THEN Fail ELSE pc' = "merged" /\ UNCHANGED exit
      /\ UNCHANGED <<argv, file, toml, cli_cfg, plan>>

\* init_tracing, one WARN per override, then --dry-run's print and return.
DryRun ==
  /\ pc = "merged" /\ argv.dry_run
  /\ pc' = "done" /\ exit' = <<"SUCCESS">>
  /\ UNCHANGED <<argv, file, toml, cli_cfg, cfg, overrides, plan>>

\* run, up to the point where the endpoints are spawned (Router, RouterSystem).
Run ==
  LET specs == cfg[1].endpoints
  IN  /\ pc = "merged" /\ ~argv.dry_run
      /\ plan' = <<[queue_cap |-> QueueCapacity(specs),
                    warned    |-> groups_needing_dedup_warning(specs, cfg[1].dedup_ms)]>>
      /\ pc' = "running"
      /\ UNCHANGED <<argv, file, toml, cli_cfg, cfg, overrides, exit>>

Next == LoadToml \/ IntoCliConfig \/ Merge \/ DryRun \/ Run

Spec == Init /\ [][Next]_vars

-----------------------------------------------------------------------------
(***************************************************************************)
(* Properties.                                                             *)
(***************************************************************************)
Specs == IF cfg = <<>> THEN <<>> ELSE cfg[1].endpoints

ValidKind(kind) ==
  CASE kind.scheme = "serial" -> kind.port > 0
    [] kind.scheme = "udps"   -> /\ kind.host \in IpLiterals
                                 /\ ToSet(kind.knob) \subseteq MIN_IDLE_SECS..MAX_IDLE_SECS
    [] kind.scheme = "tcps"   -> kind.host \in IpLiterals
    [] kind.scheme = "udpc"   ->
         ToSet(kind.knob) \subseteq MIN_LATCH_IDLE_SECS..MAX_LATCH_IDLE_SECS
    [] kind.scheme = "tcpc"   -> TRUE

\* Endpoint i may deliver the frames of group g.
Leg(i, g) == Specs[i].kind.identity.group = g /\ ~Specs[i].kind.identity.sniffer

\* The stats channel takes the Finalize events of the final sweep, which are sent
\* without waiting, for every endpoint and every peer a full UDP table can hold,
\* with as many Register events still unread.
QueuesFit ==
  LET udps == {i \in DOMAIN Specs : Specs[i].kind.scheme = "udps"}
  IN  plan[1].queue_cap >= 2 * (Len(Specs) + DEFAULT_PEER_CAPACITY * Cardinality(udps))

\* When dedup is off the operator is warned of a group exactly when it has two
\* legs that may deliver the same frame.
WarnedOf(g) ==
  cfg[1].dedup_ms = 0 /\ \E i, j \in DOMAIN Specs : i # j /\ Leg(i, g) /\ Leg(j, g)

\* What the tasks take for granted of a configuration, whichever of the six
\* files checks it: when `run' spawns them there is an endpoint, every name is
\* well formed and belongs to one endpoint only (an auto-name as much as an
\* explicit one), every endpoint a filter names exists, a listener has an
\* address it can bind, every interval is in its bounds, and what `run' derives
\* from it, the capacities and the warnings, fits.
RunsOnlyValid ==
  pc = "running" =>
    /\ Specs # <<>>
    /\ \A i, j \in DOMAIN Specs : Specs[i].name = Specs[j].name => i = j
    /\ \A i \in DOMAIN Specs :
         /\ name_matches_regex(Specs[i].name)
         /\ ValidKind(Specs[i].kind)
         /\ \A ref \in References(Specs[i]) : \E j \in DOMAIN Specs : Specs[j].name = ref
    /\ cfg[1].dedup_ms \in 0..MAX_DEDUP_MS
    /\ cfg[1].stats_interval_secs >= MIN_STATS_INTERVAL_SECS
    /\ QueuesFit
    /\ \A i \in DOMAIN Specs :
         LET g == Specs[i].kind.identity.group
         IN  g # <<>> => (g \in plan[1].warned <=> WarnedOf(g))
    /\ \A g \in plan[1].warned : WarnedOf(g)

\* The value the operator gave: argv first, a flag given on it included, then
\* the file if it was named, then the default.
Asked(g) ==
  CASE g \in argv.flags -> TRUE
    [] argv.globals[g] # <<>> -> argv.globals[g][1]
    [] argv.config /\ file.globals[g] # <<>> -> file.globals[g][1]
    [] OTHER -> Defaults[g]

\* Config::merge loses nothing silently: every global has the value the
\* operator asked for, every endpoint of argv is in the result as it was
\* written, after those of the file, and an endpoint of the file is missing
\* only if argv has one of that name, in which case main reports it.
NothingIsLost ==
  (pc = "merged" \/ pc = "running" \/ exit = <<"SUCCESS">>) =>
    LET kept == Len(Specs) - Len(argv.endpoints)
    IN  /\ \A g \in Globals : cfg[1][g] = Asked(g)
        /\ kept >= 0
        /\ \A i \in DOMAIN argv.endpoints :
             Specs[kept + i] = parse(argv.endpoints[i]).value
        /\ argv.config =>
             \A i \in DOMAIN file.endpoint :
               LET name == file.endpoint[i][1]
               IN  IF \E j \in DOMAIN argv.endpoints : parse(argv.endpoints[j]).value.name = name
                     THEN Contains(overrides, name)
                     ELSE /\ ~Contains(overrides, name)
                          /\ \E k \in 1..kept :
                               Specs[k] = into_spec(name, file.endpoint[i][2]).value

\* The command-line text that says what a TOML entry says: every field that
\* is not part of the address becomes a query pair.
AddressFields == {"path", "baud", "bind", "host", "port"}

BodyText(entry) ==
  LET f == entry.fields
      has == DOMAIN f \cap AddressFields
  IN  CASE entry.type = "serial" /\ has = {"path", "baud"} ->
             f.path \o <<",">> \o to_string(f.baud)
        [] entry.type \in {"udps", "tcps"} /\ has = {"bind"} -> f.bind
        [] entry.type \in {"udpc", "tcpc"} /\ has = {"host", "port"} ->
             IF Contains(f.host, ":")
               THEN <<"[">> \o f.host \o <<"]", ":">> \o to_string(f.port)
               ELSE f.host \o <<":">> \o to_string(f.port)
        [] OTHER -> <<>>

FieldText(value, k) ==
  CASE k \in {"idle_secs", "latch_idle_secs"} -> to_string(value)
    [] k = "sniffer" -> IF value THEN <<"true">> ELSE <<"false">>
    [] OTHER -> value

CommandLine(name, entry) ==
  LET keys  == SetToSeq(DOMAIN entry.fields \ AddressFields)
      pairs == [i \in DOMAIN keys |->
                  <<"&", keys[i], "=">> \o FieldText(entry.fields[keys[i]], keys[i])]
  IN  <<entry.type, ":">> \o BodyText(entry) \o <<"#">> \o name \o <<"?">>
        \o FlattenSeq(pairs)

\* No value of the table holds a character at which the command-line grammar would
\* cut it: '#' and '?' in an address, '&' in the value of a pair.
Quotable(entry) ==
  LET f == entry.fields
      typed == {"idle_secs", "latch_idle_secs", "sniffer"}
  IN  /\ \A k \in DOMAIN f \cap {"path", "bind", "host"} : ToSet(f[k]) \cap {"#", "?"} = {}
      /\ \A k \in DOMAIN f \ (AddressFields \cup typed) : ~Contains(f[k], "&")

\* The endpoint has what its table says, field by field, and nothing else.  Only the
\* brackets around a host are taken off.
SaysItsTable(spec, name, entry) ==
  LET f == entry.fields
      kind == spec.kind
      id == kind.identity
      key == Knob[kind.scheme]
  IN  /\ spec.name = name /\ kind.scheme = entry.type
      /\ kind.scheme = "serial" => kind.host = f.path /\ kind.port = f.baud
      /\ kind.scheme \in {"udpc", "tcpc"} =>
           /\ f.host \in {kind.host, <<"[">> \o kind.host \o <<"]">>}
           /\ kind.port = f.port
      /\ key \in DOMAIN f =>
           kind.knob = IF kind.scheme = "serial" THEN f[key] ELSE <<f[key]>>
      /\ id.sniffer = ("sniffer" \in DOMAIN f /\ f.sniffer)
      /\ id.group = IF "group" \in DOMAIN f THEN f.group ELSE <<>>
      /\ \A k \in FilterKeys : id.filters[k] # <<>> <=> k \in DOMAIN f

\* The two ways in agree: an [endpoint.NAME] table whose values hold none of the
\* separators is accepted exactly when the command-line text with the same content
\* is, and both give the same EndpointSpec.  The two differ where a value does hold
\* one (into_spec hands the body to build unsplit and the pairs as they are), and
\* there too an accepted table gives the endpoint it says, although its address went
\* through a text on the way: no field runs over into another.
TomlMatchesCommandLine ==
  pc = "load" /\ file.state = "good" =>
    \A i \in DOMAIN file.endpoint :
      LET name  == file.endpoint[i][1]
          entry == file.endpoint[i][2]
          spec  == into_spec(name, entry)
          text  == parse(CommandLine(name, entry))
      IN  /\ entry.known /\ Quotable(entry) =>
               spec.ok = text.ok /\ spec.value = text.value
          /\ spec.ok => SaysItsTable(spec.value, name, entry)

\* The values a text gives for a key, and the numbers such a value names.
Written(text, key) ==
  LET query == IF Contains(text, "?") THEN split_once(text, "?")[2] ELSE <<>>
      pairs == {p \in ToSet(split(query, "&")) : Len(p) > 2}
  IN  {SubSeq(p, 3, Len(p)) : p \in {q \in pairs : q[1] = key /\ q[2] = "="}}

Spells(value, v) ==
  LET items == split(SelectSeq(value, LAMBDA t : t # " "), ",")
  IN  \E i \in DOMAIN items : v \in Value[items[i][1]]..Value[Last(items[i])]

RangeAxes == {<<"allow_msgid_in", "block_msgid_in">>,
              <<"allow_msgid_out", "block_msgid_out">>,
              <<"allow_src_sys_in", "block_src_sys_in">>,
              <<"allow_src_sys_out", "block_src_sys_out">>,
              <<"allow_src_comp_in", "block_src_comp_in">>,
              <<"allow_src_comp_out", "block_src_comp_out">>}

\* Every number a text spells, and its neighbours.
Samples == UNION {{n - 1, n, n + 1} : n \in {Value[t] : t \in DOMAIN Value}}

\* A filter means what its text says: of an accepted command-line text, a
\* frame's number passes an axis exactly when each allow list written for the
\* axis names it and no block list does.  This is the set reading of filters
\* on which the routing model rests.
FilterMeansItsText ==
  pc = "merge" =>
    \A i \in DOMAIN argv.endpoints, axis \in RangeAxes, v \in Samples :
      LET text    == argv.endpoints[i]
          filters == cli_cfg.endpoints[i].kind.identity.filters
      IN  pass_range_axis(v, filters[axis[1]], filters[axis[2]])
            <=> /\ \A value \in Written(text, axis[1]) : Spells(value, v)
                /\ \A value \in Written(text, axis[2]) : ~Spells(value, v)

=============================================================================
