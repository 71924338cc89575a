----------------------------- MODULE MCStartup ------------------------------
(***************************************************************************)
(* Inputs for Startup: one command-line text out of a product of schemes,  *)
(* bodies, names and queries; one TOML entry out of a product of types and *)
(* fields; and two short lists that meet in the merge.                     *)
(***************************************************************************)
EXTENDS Startup

MCValue == ("0" :> 0) @@ ("1" :> 1) @@ ("33" :> 33) @@ ("100" :> 100) @@ ("255" :> 255)
             @@ ("256" :> 256) @@ ("300" :> 300) @@ ("14550" :> 14550)
             @@ ("57600" :> 57600) @@ ("70000" :> 70000) @@ ("86400" :> 86400)
             @@ ("86401" :> 86401)

MCLower == "GROUP" :> "group"

IPv4 == <<"10", ".", "1">>

IPv6 == <<":", ":", "1">>

MCIpLiterals == {IPv4, IPv6}

NoFile == [state |-> "unreadable", globals |-> NoGlobals, endpoint |-> <<>>]

NoArgv == [config |-> FALSE, dry_run |-> FALSE, globals |-> NoGlobals,
           flags |-> {}, endpoints |-> <<>>]

-----------------------------------------------------------------------------
SchemeTexts == {<<s>> : s \in Schemes \cup {"ftp"}} \cup {<<>>}

Bodies == {
  IPv4 \o <<":", "14550">>, <<"[">> \o IPv6 \o <<"]", ":", "14550">>,
  IPv6 \o <<":", "14550">>, <<"[">> \o IPv6 \o <<":", "14550">>,
  <<"[">> \o IPv6 \o <<"]", "14550">>, <<"[", "]", ":", "14550">>,
  <<"gcs", ".", "lan", ":", "14550">>, <<"gcs", ":", "70000">>, <<":", "14550">>,
  <<"gcs">>, <<>>, <<"gcs", "?", "x">>,
  <<"/", "tty", ":", "57600">>, <<"/", "tty", ",", "57600">>,
  <<"/", "a", ":", "b", ":", "57600">>, <<"/", "tty", ":", "0">>, <<",", "57600">> }

NameTexts == {<<>>, <<"#", "fc">>, <<"#">>, <<"#", "f", ".", "c">>}

Queries == {
  <<>>, <<"?">>, <<"?", "x">>, <<"?", "=", "1">>, <<"?", "group", "=">>,
  <<"?", "bogus", "=", "1">>,
  <<"?", "idle_secs", "=", "0">>, <<"?", "idle_secs", "=", "1">>,
  <<"?", "idle_secs", "=", "86400">>, <<"?", "idle_secs", "=", "86401">>,
  <<"?", "latch_idle_secs", "=", "86401">>, <<"?", "latch_idle_secs", "=", "33">>,
  <<"?", "flow_control", "=", "rtscts">>, <<"?", "flow_control", "=", "hw">>,
  <<"?", "sniffer", "=", "true", "&", "&", "group", "=", "g">>,
  <<"?", "sniffer", "=", "yes">>,
  <<"?", "GROUP", "=", "g", "&", "group", "=", "h">>,
  <<"?", "allow_msgid_in", "=", "33", ",", " ", "1", "-", "255", "&",
    "block_msgid_in", "=", "100", "-", "300">>,
  <<"?", "allow_msgid_out", "=", "300", "-", "33">>,
  <<"?", "block_src_sys_in", "=", "1", ",", ",", "33">>,
  <<"?", "allow_src_sys_in", "=", "255", "-", "256">>,
  <<"?", "block_src_comp_out", "=", "0", " ", "-", " ", "255">>,
  <<"?", "allow_src_endpoint_out", "=", "fc", ",", " ", "udps", "&",
    "block_src_endpoint_out", "=", "fc">> }

Text(s, b, n, q) == s \o <<":">> \o b \o n \o q

\* Every scheme with every body, and every query with a body its scheme takes.
Texts == {Text(s, b, n, q) : s \in SchemeTexts, b \in Bodies, n \in NameTexts,
                             q \in {<<>>, <<"?", "x">>, <<"?", "group", "=", "g">>}}
  \cup {Text(<<s>>, b, n, q) : s \in {"udps", "udpc", "tcps", "ftp"},
          b \in {IPv4 \o <<":", "14550">>}, n \in {<<>>, <<"#", "fc">>}, q \in Queries}
  \cup {Text(<<"serial">>, <<"/", "tty", ":", "57600">>, <<"#", "fc">>, q) : q \in Queries}
  \cup {<<"gcs">>}

OneText == {[argv |-> [NoArgv EXCEPT !.endpoints = <<t>>], file |-> NoFile] : t \in Texts}

-----------------------------------------------------------------------------
Nothing == [k \in {} |-> <<>>]

Addresses == {
  ("path" :> <<"/", "a", ":", "b">>) @@ ("baud" :> 57600), "path" :> <<"/", "tty">>,
  ("path" :> <<"/", "tty">>) @@ ("baud" :> 0),
  "bind" :> (<<"[">> \o IPv6 \o <<"]", ":", "14550">>), "bind" :> <<"gcs", ":", "14550">>,
  ("host" :> IPv6) @@ ("port" :> 14550), ("host" :> <<"gcs", ".", "lan">>) @@ ("port" :> 1),
  ("host" :> <<>>) @@ ("port" :> 1), ("host" :> IPv4) @@ ("port" :> 1) @@ ("bind" :> IPv4),
  Nothing,
  \* with a separator of the command line inside
  ("path" :> <<"/", "tty", "#", "1">>) @@ ("baud" :> 57600),
  ("host" :> <<"gcs", "?", "group", "=", "g">>) @@ ("port" :> 1),
  ("host" :> <<"[", "gcs", "]">>) @@ ("port" :> 1) }

Extras == {
  Nothing, "idle_secs" :> 86401, "idle_secs" :> 33, "latch_idle_secs" :> 1,
  "flow_control" :> <<"rtscts">>, ("sniffer" :> TRUE) @@ ("group" :> <<"g">>),
  ("sniffer" :> FALSE) @@ ("group" :> <<"a", ".", "b">>),
  "block_src_endpoint_out" :> <<"fc">>,
  ("allow_src_sys_in" :> <<"1", "-", "256">>) @@ ("allow_msgid_in" :> <<"33">>),
  ("allow_msgid_in" :> <<"33">>) @@ ("block_src_comp_out" :> <<"0", ",", "255">>),
  "group" :> <<"g", "&", "sniffer", "=", "true">>, "group" :> <<"g", "=", "#">>,
  "flow_control" :> <<"rtscts", "&", "group", "=", "g">> }

WithFile(state, globals, endpoint, cli) ==
  [argv |-> cli, file |-> [state |-> state, globals |-> globals, endpoint |-> endpoint]]

FromFile == [NoArgv EXCEPT !.config = TRUE]

OneEntry ==
  {WithFile("good", NoGlobals, <<<<n, [type |-> t, known |-> TRUE, fields |-> a @@ e]>>>>, FromFile) :
     n \in {<<"fc">>, <<"f", ".", "c">>, <<"fc", "?", "group", "=", "g">>}, t \in Schemes \cup {"ftp"}, a \in Addresses, e \in Extras}
  \cup {WithFile(s, NoGlobals, <<<<<<"fc">>, [type |-> "tcps", known |-> FALSE, fields |-> Nothing]>>>>, FromFile) :
          s \in {"good", "unreadable", "not_toml"}}

-----------------------------------------------------------------------------
MergeTexts == {
  <<"udps", ":">> \o IPv4 \o <<":", "14550", "#", "fc", "?", "group", "=", "g">>,
  <<"tcpc", ":", "gcs", ":", "1", "#", "gcs", "?", "block_src_endpoint_out", "=", "fc">>,
  <<"tcpc", ":", "gcs", ":", "1", "?", "group", "=", "g">>,
  <<"udpc", ":", "gcs", ":", "1", "#", "tap", "?", "group", "=", "g", "&", "sniffer", "=", "true">> }

MergeEntries == {
  <<<<"fc">>, [type |-> "serial", known |-> TRUE,
               fields |-> ("path" :> <<"/", "tty">>) @@ ("baud" :> 57600) @@ ("group" :> <<"g">>)]>>,
  <<<<"tap">>, [type |-> "tcps", known |-> TRUE,
                fields |-> ("bind" :> (IPv4 \o <<":", "1">>)) @@ ("allow_src_endpoint_out" :> <<"fc">>)]>> }

Given(g, v) == [NoGlobals EXCEPT ![g] = <<v>>]

TwoSources ==
  {WithFile("good", fg, f,
            [FromFile EXCEPT !.dry_run = d, !.globals = cg, !.flags = fl, !.endpoints = c]) :
     c \in SeqOf(MergeTexts, 2), f \in {g \in SeqOf(MergeEntries, 2) : Len(g) < 2 \/ g[1] # g[2]},
     cg \in {NoGlobals, Given("dedup_ms", 0), Given("dedup_ms", 14550),
             Given("stats_interval_secs", 0)},
     fg \in {NoGlobals, Given("dedup_ms", 100), Given("stats", FALSE), Given("skip_config_log", TRUE)},
     fl \in {{}, {"stats"}}, d \in BOOLEAN}

MCInputs == OneText \cup OneEntry \cup TwoSources

=============================================================================
