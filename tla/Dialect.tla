------------------------------ MODULE Dialect -------------------------------
(***************************************************************************)
(* The build script (src/build.rs and src/build_support/): from the        *)
(* vendored dialect files to the msgid table the framer looks frames up    *)
(* in.  A file is the sequence of events the XML reader returns for it,    *)
(* [kind, tag, attrs] or [kind, text]; the files are a function from their *)
(* canonical paths, which are also what an include says, and a path        *)
(* outside of its domain names nothing.  The type attribute of a field is  *)
(* split at its brackets, [elem, bracket, len], len being NotU8 where      *)
(* Rust's parse fails.  An Option is a sequence of at most one element.    *)
(*                                                                         *)
(* The state threaded through a build is                                   *)
(* [entries, watched, visited, in_progress, outcome]: whatever panics, or  *)
(* returns an error that main turns into a panic, leaves its name in       *)
(* outcome, and nothing happens after that.                                *)
(***************************************************************************)
EXTENDS Integers, Sequences, SequencesExt, FiniteSets, Crc

CONSTANT as_bytes(_)   \* str::as_bytes of a name

Ok == "ok"
NotU8 == -1
NotU32 == -1
Absent == ""

\* A file that is there and that read_to_string fails on.
Unreadable == <<[kind |-> "Unreadable"]>>

-----------------------------------------------------------------------------
type_size ==
  [t \in {"char", "int8_t", "uint8_t", "uint8_t_mavlink_version"} |-> 1]
    @@ [t \in {"int16_t", "uint16_t"} |-> 2]
    @@ [t \in {"int32_t", "uint32_t", "float"} |-> 4]
    @@ [t \in {"int64_t", "uint64_t", "double"} |-> 8]

crc_type(type_name) ==
  IF type_name = "uint8_t_mavlink_version" THEN "uint8_t" ELSE type_name

\* The fields without the extensions, stably sorted by descending size.
SortedBase(fields) ==
  LET OfSize(n) ==
        SelectSeq(fields, LAMBDA f : ~f.is_extension /\ type_size[f.type_name] = n)
  IN  OfSize(8) \o OfSize(4) \o OfSize(2) \o OfSize(1)

\* What a field adds to the sum.
CrcText(field) ==
  as_bytes(crc_type(field.type_name)) \o <<32>> \o as_bytes(field.name) \o <<32>>
    \o (IF field.array_length > 0 THEN <<field.array_length>> ELSE <<>>)

crc_extra_for_message(msg_name, fields) ==
  LET crc == FoldLeft(LAMBDA acc, field : update_slice(acc, CrcText(field)),
                      update_slice(CRC_INIT, as_bytes(msg_name) \o <<32>>), SortedBase(fields))
  IN  (crc % 256) ^^ (crc \div 256)

-----------------------------------------------------------------------------
ElemCount(field) == IF field.array_length = 0 THEN 1 ELSE field.array_length

\* One field of compute_offsets: where it starts, if it is a target, and where
\* the next one does.  Any scalar uint8_t that starts past byte 255 panics.
PlaceField(acc, field) ==
  LET scalar == field.array_length = 0 /\ field.type_name = "uint8_t"
      end    == acc.off + type_size[field.type_name] * ElemCount(field)
      At(name, found) == IF scalar /\ field.name = name THEN <<acc.off>> ELSE found
  IN  IF acc.outcome # Ok THEN acc
      ELSE IF scalar /\ acc.off > 255 THEN [acc EXCEPT !.outcome = "target offset exceeds u8"]
      ELSE IF end >= 65536 THEN [acc EXCEPT !.outcome = "payload overflow"]
      ELSE [acc EXCEPT !.off = end, !.tsys = At("target_system", @),
                       !.tcomp = At("target_component", @)]

compute_offsets(fields) ==
  FoldLeft(PlaceField, [off |-> 0, tsys |-> <<>>, tcomp |-> <<>>, outcome |-> Ok],
           SortedBase(fields))

\* Result of the type attribute: the element type and the array length.  The
\* slice between brackets that close before they open panics.
parse_array_suffix(type) ==
  CASE type.bracket = "none"     -> [elem |-> type.elem, len |-> 0, outcome |-> Ok]
    [] type.bracket = "unclosed" -> [elem |-> type.elem, len |-> 0, outcome |-> "Malformed"]
    [] type.bracket = "reversed" -> [elem |-> type.elem, len |-> 0, outcome |-> "begin > end"]
    [] OTHER -> [elem |-> type.elem, len |-> type.len,
                 outcome |-> CASE type.len \notin 0..255 -> "BadLength"
                               [] type.len = 0           -> "ZeroLength"
                               [] OTHER                  -> Ok]

\* The first file to declare a msgid gives its entry; another may only repeat it.
merge_entry(b, msg_id, new) ==
  IF msg_id \notin DOMAIN b.entries THEN [b EXCEPT !.entries = (msg_id :> new) @@ @]
  ELSE IF b.entries[msg_id].crc_extra # new.crc_extra
    THEN [b EXCEPT !.outcome = "CrcExtraConflict"]
  ELSE IF b.entries[msg_id].name # new.name THEN [b EXCEPT !.outcome = "NameConflict"]
  ELSE b

\* type_size panics for the first base field of an unknown type.
ingest_message(b, msg) ==
  LET offsets == compute_offsets(msg.fields)
      known   == \A i \in DOMAIN msg.fields :
                   msg.fields[i].is_extension \/ msg.fields[i].type_name \in DOMAIN type_size
  IN  IF b.outcome # Ok THEN b
      ELSE IF ~known THEN [b EXCEPT !.outcome = "unknown MAVLink type"]
      ELSE IF offsets.outcome # Ok THEN [b EXCEPT !.outcome = offsets.outcome]
      ELSE merge_entry(b, msg.id,
             [name |-> msg.name, crc_extra |-> crc_extra_for_message(msg.name, msg.fields),
              target_sys_offset |-> offsets.tsys, target_comp_offset |-> offsets.tcomp])

-----------------------------------------------------------------------------
Attr(event, key, default) == IF key \in DOMAIN event.attrs THEN event.attrs[key] ELSE default

\* A parser: [includes, messages, in_include, current_msg, past_extensions, outcome].
NewParser ==
  [includes |-> <<>>, messages |-> <<>>, in_include |-> FALSE, current_msg |-> <<>>,
   past_extensions |-> FALSE, outcome |-> Ok]

\* parse_msg_attrs, for the message an opening tag starts.
StartMessage(p, event) ==
  LET id == Attr(event, "id", 0)
  IN  IF id = NotU32 THEN [p EXCEPT !.outcome = "bad message id"]
      ELSE [p EXCEPT !.past_extensions = FALSE,
                     !.current_msg = <<[id |-> id, name |-> Attr(event, "name", Absent),
                                        fields |-> <<>>]>>]

\* Fields outside of a message are skipped, whatever they say.
push_field(p, event) ==
  LET type == parse_array_suffix(Attr(event, "type", [elem |-> Absent, bracket |-> "none"]))
      field == [name |-> Attr(event, "name", Absent), type_name |-> type.elem,
                array_length |-> type.len, is_extension |-> p.past_extensions]
  IN  IF p.current_msg = <<>> THEN p
      ELSE IF type.outcome # Ok THEN [p EXCEPT !.outcome = type.outcome]
      ELSE [p EXCEPT !.current_msg[1].fields = Append(@, field)]

EndMessage(p) == [p EXCEPT !.messages = @ \o p.current_msg, !.current_msg = <<>>]

\* An element that closes itself is neither an include nor a message.
ParseEvent(p, event) ==
  LET opens == event.kind \in {"Start", "Empty"}
      Is(kind, tag) == event.kind = kind /\ event.tag = tag
  IN  IF p.outcome # Ok THEN p
      ELSE CASE event.kind = "Err" -> [p EXCEPT !.outcome = "XML parse error"]
             [] event.kind = "Text" ->
                  IF p.in_include /\ event.text # Absent
                    THEN [p EXCEPT !.includes = Append(@, event.text)] ELSE p
             [] Is("Start", "include") -> [p EXCEPT !.in_include = TRUE]
             [] Is("End", "include")   -> [p EXCEPT !.in_include = FALSE]
             [] Is("Start", "message") -> StartMessage(p, event)
             [] Is("End", "message")   -> EndMessage(p)
             [] opens /\ event.tag = "extensions" ->
                  [p EXCEPT !.past_extensions = @ \/ p.current_msg # <<>>]
             [] opens /\ event.tag = "field" -> push_field(p, event)
             [] OTHER -> p

parse_xml(content) == FoldLeft(ParseEvent, NewParser, content)

-----------------------------------------------------------------------------
\* The closure main hands to walk_includes: the includes of a file, whose
\* messages are ingested before one of the includes turns out not to exist.
load(files, b, canon) ==
  LET parsed  == parse_xml(files[canon])
      watched == [b EXCEPT !.watched = Append(@, canon)]
      after   == FoldLeft(ingest_message, watched, parsed.messages)
  IN  IF files[canon] = Unreadable THEN [watched EXCEPT !.outcome = "LoadFailed"]
      ELSE IF parsed.outcome # Ok THEN [watched EXCEPT !.outcome = parsed.outcome]
      ELSE IF after.outcome = Ok /\ ~ Range(parsed.includes) \subseteq DOMAIN files
        THEN [after EXCEPT !.outcome = "LoadFailed"]
      ELSE after

RECURSIVE walk_inner(_, _, _)
walk_inner(files, b, key) ==
  LET entered == [b EXCEPT !.visited = @ \cup {key}, !.in_progress = @ \cup {key}]
      loaded  == load(files, entered, key)
      walked  == FoldLeft(LAMBDA acc, inc : walk_inner(files, acc, inc), loaded,
                          parse_xml(files[key]).includes)
  IN  IF b.outcome # Ok THEN b
      ELSE IF key \in b.in_progress THEN [b EXCEPT !.outcome = "Cycle"]
      ELSE IF key \in b.visited THEN b
      ELSE IF loaded.outcome # Ok THEN loaded
      ELSE [walked EXCEPT !.in_progress = IF walked.outcome = Ok THEN @ \ {key} ELSE @]

walk_includes(files, b, root) ==
  walk_inner(files, [b EXCEPT !.visited = {}, !.in_progress = {}], root)

NewBuild ==
  [entries |-> <<>>, watched |-> <<>>, visited |-> {}, in_progress |-> {}, outcome |-> Ok]

\* One turn of main's loop: a dialect whose path has no canonical form panics.
WalkDialect(files, b, dialect) ==
  IF b.outcome # Ok THEN b
  ELSE IF dialect \notin DOMAIN files THEN [b EXCEPT !.outcome = "dialect XML not found"]
  ELSE walk_includes(files, b, dialect)

\* main, up to the file it writes: the build's end state.
main(files, DIALECTS) ==
  LET b == FoldLeft(LAMBDA acc, dialect : WalkDialect(files, acc, dialect), NewBuild, DIALECTS)
  IN  IF b.outcome # Ok THEN b
      ELSE IF DOMAIN b.entries = {} THEN [b EXCEPT !.outcome = "no MAVLink messages"]
      ELSE IF 0 \notin DOMAIN b.entries THEN [b EXCEPT !.outcome = "HEARTBEAT not found"]
      ELSE b

\* The table written to generated_msgid_table.rs: the entries without their names.
GeneratedTable(b) ==
  [id \in DOMAIN b.entries |->
     [crc_extra |-> b.entries[id].crc_extra,
      target_sys_offset |-> b.entries[id].target_sys_offset,
      target_comp_offset |-> b.entries[id].target_comp_offset]]

=============================================================================
