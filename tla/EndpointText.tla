---------------------------- MODULE EndpointText ----------------------------
(***************************************************************************)
(* How an endpoint declaration becomes an EndpointSpec: the pure functions *)
(* of endpoint/spec/, endpoint/identity_flags.rs and the parsing half of   *)
(* endpoint/filters.rs.  Both ways in share them: EndpointSpec::parse      *)
(* reads a command-line text, and the TOML side builds a body and a list   *)
(* of pairs from its typed fields and calls EndpointSpec::build.           *)
(*                                                                         *)
(* A text is a sequence of tokens: one token for each separator the        *)
(* grammar knows, one for a word or a number.  Keys, names and values are  *)
(* texts.  The wording of error messages, and the did-you-mean suggestion  *)
(* that is part of it, is left out; which error is returned is not.        *)
(***************************************************************************)
EXTENDS Integers, Sequences, SequencesExt

CONSTANTS
  Value,              \* the decimal tokens, and the number each one spells
  Lower,              \* the tokens with capitals, and their lower-case forms
  IpLiterals,         \* the texts that str::parse::<IpAddr> accepts
  MIN_IDLE_SECS, MAX_IDLE_SECS,              \* of a udps: endpoint
  MIN_LATCH_IDLE_SECS, MAX_LATCH_IDLE_SECS   \* of a udpc: endpoint

(***************************************************************************)
(* Result, and str's splitting functions.  An Option of a text or a pair   *)
(* is the empty sequence for None.                                         *)
(***************************************************************************)
Ok(value) == [ok |-> TRUE, value |-> value, err |-> "none"]

Err(err) == [ok |-> FALSE, value |-> <<>>, err |-> err]

\* The `?` operator.
Then(result, Continue(_)) ==
  IF result.ok THEN Continue(result.value) ELSE result

\* A `for` loop whose body may return early with an error.
TryFold(Step(_, _), base, items) ==
  FoldLeft(LAMBDA acc, item : Then(acc, LAMBDA value : Step(value, item)),
           Ok(base), items)

Find(text, token) == SelectInSeq(text, LAMBDA t : t = token)

RFind(text, tokens) == SelectLastInSeq(text, LAMBDA t : t \in tokens)

SplitAt(text, i) == << SubSeq(text, 1, i - 1), SubSeq(text, i + 1, Len(text)) >>

split_once(text, token) ==
  IF Contains(text, token) THEN SplitAt(text, Find(text, token)) ELSE <<>>

rsplit_once(text, tokens) ==
  IF RFind(text, tokens) = 0 THEN <<>> ELSE SplitAt(text, RFind(text, tokens))

split(text, token) ==
  LET index == [i \in 1..Len(text) |-> i]
      cuts  == <<0>> \o SelectSeq(index, LAMBDA i : text[i] = token)
                     \o <<Len(text) + 1>>
  IN  [k \in 1..(Len(cuts) - 1) |-> SubSeq(text, cuts[k] + 1, cuts[k + 1] - 1)]

trim(text) ==
  LET ink == {i \in 1..Len(text) : text[i] # " "}
  IN  IF ink = {} THEN <<>> ELSE SubSeq(text, Min(ink), Max(ink))

\* str::parse::<u32> and ::<u64>; a number too wide for them is not in Value.
parse_uint(text) ==
  IF Len(text) = 1 /\ text[1] \in DOMAIN Value
    THEN Ok(Value[text[1]])
    ELSE Err("NotANumber")

\* str::parse::<u16>
parse_u16(text) ==
  Then(parse_uint(text), LAMBDA n : IF n < 2^16 THEN Ok(n) ELSE Err("NotANumber"))

\* Display of an unsigned integer.
to_string(n) == << CHOOSE t \in DOMAIN Value : Value[t] = n >>

\* The given error instead of the one in hand (map_err).
MapErr(result, err) == IF result.ok THEN result ELSE Err(err)

-----------------------------------------------------------------------------
(***************************************************************************)
(* Names (spec/parse.rs).                                                  *)
(***************************************************************************)
\* The tokens that are not letters, digits, '_' or '-'.
Punctuation == {":", ",", "#", "?", "&", "=", "[", "]", "/", ".", " "}

name_matches_regex(name) == name # <<>> /\ ToSet(name) \cap Punctuation = {}

validate_name(name) ==
  IF name_matches_regex(name) THEN Ok(name) ELSE Err("InvalidName")

validate_name_value(value) ==
  IF name_matches_regex(value) THEN Ok(value) ELSE Err("InvalidQueryValue")

\* Mutant: '.' is taken for a name character.
sanitize_for_name_KeepsDots(text) ==
  [i \in DOMAIN text |-> IF text[i] \in Punctuation \ {"."} THEN "_" ELSE text[i]]

sanitize_for_name(text) ==
  [i \in DOMAIN text |-> IF text[i] \in Punctuation THEN "_" ELSE text[i]]

-----------------------------------------------------------------------------
(***************************************************************************)
(* Filter lists (filters.rs).  A range list is a sequence of [lo, hi].     *)
(***************************************************************************)
MsgIdKeys == {"allow_msgid_in", "block_msgid_in", "allow_msgid_out",
              "block_msgid_out"}

U8Keys == {"allow_src_sys_in", "block_src_sys_in", "allow_src_sys_out",
           "block_src_sys_out", "allow_src_comp_in", "block_src_comp_in",
           "allow_src_comp_out", "block_src_comp_out"}

NameKeys == {"allow_src_endpoint_out", "block_src_endpoint_out"}

FilterKeys == MsgIdKeys \cup U8Keys \cup NameKeys

parse_range_pair_u32(item) ==
  LET pair == split_once(item, "-")
      lo   == parse_uint(IF pair = <<>> THEN item ELSE trim(pair[1]))
      hi   == parse_uint(IF pair = <<>> THEN item ELSE trim(pair[2]))
  IN  IF lo.ok /\ hi.ok /\ lo.value <= hi.value
        THEN Ok([lo |-> lo.value, hi |-> hi.value])
        ELSE Err("InvalidQueryValue")

\* The loop the three list parsers share: entries are trimmed, none is empty.
ParseList(value, ParseItem(_)) ==
  TryFold(LAMBDA out, item :
            IF trim(item) = <<>>
              THEN Err("InvalidQueryValue")
              ELSE Then(ParseItem(trim(item)), LAMBDA v : Ok(Append(out, v))),
          <<>>, split(value, ","))

parse_msgid_ranges(value) == ParseList(value, parse_range_pair_u32)

\* Mutant: the values are cut to eight bits instead of refused.
parse_u8_ranges_Truncates(value) ==
  ParseList(value, LAMBDA item :
    Then(parse_range_pair_u32(item), LAMBDA range :
      Ok([lo |-> range.lo % 2^8, hi |-> range.hi % 2^8])))

parse_u8_ranges(value) ==
  ParseList(value, LAMBDA item :
    Then(parse_range_pair_u32(item), LAMBDA range :
      IF range.lo >= 2^8 \/ range.hi >= 2^8
        THEN Err("InvalidQueryValue")
        ELSE Ok(range)))

parse_endpoint_name_list(value) == ParseList(value, validate_name_value)

\* Filters::apply for a key of FilterKeys.
parse_filter(key, value) ==
  CASE key \in MsgIdKeys -> parse_msgid_ranges(value)
    [] key \in U8Keys    -> parse_u8_ranges(value)
    [] key \in NameKeys  -> parse_endpoint_name_list(value)

\* MsgIdRange::contains and U8Range::contains
InRange(range, value) == range.lo <= value /\ value <= range.hi

\* pass_msgid_axis and pass_u8_axis
pass_range_axis(value, allow, block) ==
  /\ allow = <<>> \/ \E i \in DOMAIN allow : InRange(allow[i], value)
  /\ ~\E i \in DOMAIN block : InRange(block[i], value)

NoFilters == [key \in FilterKeys |-> <<>>]

-----------------------------------------------------------------------------
(***************************************************************************)
(* IdentityFlags and the query pairs (identity_flags.rs, spec/query.rs).   *)
(* A kind is one record for the five EndpointKind variants: a serial path  *)
(* is its `host', a baud rate its `port', and `knob' is the one query key  *)
(* a scheme adds to the shared ones.                                       *)
(***************************************************************************)
DefaultIdentity == [filters |-> NoFilters, sniffer |-> FALSE, group |-> <<>>]

parse_bool(value) ==
  CASE value = <<"true">>  -> Ok(TRUE)
    [] value = <<"false">> -> Ok(FALSE)
    [] OTHER               -> Err("InvalidQueryValue")

Handled(identity) == Ok([handled |-> TRUE, identity |-> identity])

\* IdentityFlags::apply
apply(identity, key, value) ==
  CASE Len(key) = 1 /\ key[1] \in FilterKeys ->
         Then(parse_filter(key[1], value), LAMBDA list :
           Handled([identity EXCEPT !.filters[key[1]] = list]))
    [] key = <<"sniffer">> ->
         Then(parse_bool(value), LAMBDA b : Handled([identity EXCEPT !.sniffer = b]))
    [] key = <<"group">> ->
         Then(validate_name_value(value), LAMBDA g : Handled([identity EXCEPT !.group = g]))
    [] OTHER -> Ok([handled |-> FALSE, identity |-> identity])

check_u64_range(value, min, max) ==
  IF value < min \/ value > max THEN Err("InvalidQueryValue") ELSE Ok(value)

parse_flow_control(value) ==
  IF value \in {<<"none">>, <<"rtscts">>}
    THEN Ok(value[1]) ELSE Err("InvalidQueryValue")

\* The scheme's own key, and how its value is read.
Knob == [serial |-> "flow_control", udps |-> "idle_secs",
         udpc |-> "latch_idle_secs", tcps |-> "", tcpc |-> ""]

parse_seconds(value, min, max) ==
  Then(MapErr(parse_uint(value), "InvalidQueryValue"),
       LAMBDA secs : check_u64_range(secs, min, max))

parse_knob(scheme, value) ==
  CASE scheme = "serial" -> parse_flow_control(value)
    [] scheme = "udps"   -> parse_seconds(value, MIN_IDLE_SECS, MAX_IDLE_SECS)
    [] scheme = "udpc"   -> parse_seconds(value, MIN_LATCH_IDLE_SECS, MAX_LATCH_IDLE_SECS)

\* QueryApplier::set, for the applier of the kind's scheme, and the check of
\* its answer in apply_pairs.
set(kind, pair) ==
  IF Knob[kind.scheme] # "" /\ pair[1] = <<Knob[kind.scheme]>>
    THEN Then(parse_knob(kind.scheme, pair[2]), LAMBDA v :
           Ok([kind EXCEPT !.knob = <<v>>]))
    ELSE Then(apply(kind.identity, pair[1], pair[2]), LAMBDA answer :
           IF answer.handled
             THEN Ok([kind EXCEPT !.identity = answer.identity])
             ELSE Err("UnknownQueryKey"))

apply_pairs(kind, pairs) == TryFold(set, kind, pairs)

to_ascii_lowercase(text) ==
  [i \in DOMAIN text |-> IF text[i] \in DOMAIN Lower THEN Lower[text[i]] ELSE text[i]]

\* One turn of the loop over the '&'-separated pairs.
AddPair(pairs, pair) ==
  LET kv  == split_once(pair, "=")
      key == to_ascii_lowercase(kv[1])
  IN  IF pair = <<>> THEN Ok(pairs)
      ELSE IF kv = <<>> THEN Err("MalformedQuery")
      ELSE IF kv[1] = <<>> THEN Err("MalformedQuery")
      ELSE IF \E i \in DOMAIN pairs : pairs[i][1] = key
        THEN Err("DuplicateQueryKey")
      ELSE Ok(Append(pairs, <<key, kv[2]>>))

parse_query_pairs(text) == TryFold(AddPair, <<>>, split(text, "&"))

-----------------------------------------------------------------------------
(***************************************************************************)
(* Addresses, kinds and the two entry points (spec/parse.rs, spec/mod.rs). *)
(***************************************************************************)
Schemes == {"serial", "udps", "udpc", "tcps", "tcpc"}

parse_serial_body(body) ==
  LET parts == rsplit_once(body, {":", ","})
      baud  == parse_uint(parts[2])
  IN  IF body = <<>> \/ parts = <<>> THEN Err("MalformedBody")
      ELSE IF parts[1] = <<>> \/ ~baud.ok THEN Err("MalformedBody")
      ELSE IF baud.value = 0 THEN Err("MalformedBody")
      ELSE Ok(<<parts[1], baud.value>>)

\* "[v6]:port": the host is what the brackets hold.
SplitBracketed(body) ==
  LET rest  == Tail(body)
      parts == split_once(rest, "]")
  IN  IF parts = <<>> THEN <<>>
      ELSE IF parts[2] = <<>> THEN <<>>
      ELSE IF parts[2][1] # ":" THEN <<>>
      ELSE <<parts[1], Tail(parts[2])>>

\* "host:port", where the host holds no ':'.
SplitPlain(body) ==
  LET parts == rsplit_once(body, {":"})
  IN  IF parts = <<>> THEN <<>>
      ELSE IF Contains(parts[1], ":") THEN <<>>
      ELSE parts

parse_host_port(body) ==
  IF body = <<>> THEN Err("MalformedBody")
  ELSE LET parts == IF body[1] = "[" THEN SplitBracketed(body) ELSE SplitPlain(body)
       IN  IF parts = <<>> THEN Err("MalformedBody")
           ELSE IF parts[1] = <<>> THEN Err("MalformedBody")
           ELSE Then(MapErr(parse_u16(parts[2]), "MalformedBody"),
                     LAMBDA port : Ok(<<parts[1], port>>))

parse_listen_addr(body) ==
  Then(parse_host_port(body), LAMBDA addr :
    IF addr[1] \in IpLiterals THEN Ok(addr) ELSE Err("MalformedBody"))

parse_address(scheme, body) ==
  CASE scheme = "serial"           -> parse_serial_body(body)
    [] scheme \in {"udps", "tcps"} -> parse_listen_addr(body)
    [] scheme \in {"udpc", "tcpc"} -> parse_host_port(body)

parse_kind(scheme, body, pairs) ==
  Then(parse_address(scheme, body), LAMBDA addr :
    apply_pairs([scheme |-> scheme, host |-> addr[1], port |-> addr[2],
                 knob |-> IF scheme = "serial" THEN <<"none">> ELSE <<>>,
                 identity |-> DefaultIdentity], pairs))

default_name(kind) ==
  <<kind.scheme, "-">> \o sanitize_for_name(kind.host) \o <<"-">> \o to_string(kind.port)

\* EndpointSpec::build.  explicit_name is an Option: <<>> or <<name>>.
build(scheme, body, explicit_name, pairs) ==
  Then(parse_kind(scheme, body, pairs), LAMBDA kind :
    IF explicit_name = <<>>
      THEN Ok([kind |-> kind, name |-> default_name(kind)])
      ELSE Then(validate_name(explicit_name[1]), LAMBDA name :
             Ok([kind |-> kind, name |-> name])))

\* (body, name, query): '#name' precedes '?query'.
split_body_name_query(rest) ==
  LET hash == split_once(rest, "#")
      tail == split_once(IF hash = <<>> THEN rest ELSE hash[2], "?")
  IN  IF hash # <<>>
        THEN IF tail = <<>> THEN <<hash[1], <<hash[2]>>, <<>>>>
             ELSE <<hash[1], <<tail[1]>>, tail[2]>>
        ELSE IF tail = <<>> THEN <<rest, <<>>, <<>>>>
             ELSE <<tail[1], <<>>, tail[2]>>

from_cli_prefix(text) ==
  IF Len(text) = 1 /\ text[1] \in Schemes THEN Ok(text[1]) ELSE Err("UnknownScheme")

\* EndpointSpec::parse
parse(input) ==
  LET parts == split_once(input, ":")
  IN  IF parts = <<>> THEN Err("MissingScheme")
      ELSE IF parts[1] = <<>> THEN Err("MissingScheme")
      ELSE LET bnq == split_body_name_query(parts[2])
           IN  IF Contains(bnq[1], "?") THEN Err("MalformedQuery")
               ELSE Then(parse_query_pairs(bnq[3]), LAMBDA pairs :
                      Then(from_cli_prefix(parts[1]), LAMBDA scheme :
                        build(scheme, bnq[1], bnq[2], pairs)))

=============================================================================
