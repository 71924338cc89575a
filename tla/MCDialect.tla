----------------------------- MODULE MCDialect ------------------------------
(***************************************************************************)
(* Dialects for the build script, and what it makes of them, compared with *)
(* definitions that do not walk, sort or count.                            *)
(***************************************************************************)
EXTENDS Dialect, Relation

Letters ==
  "uint8_t" :> <<117, 105, 110, 116, 56, 95, 116>> @@
  "uint16_t" :> <<117, 105, 110, 116, 49, 54, 95, 116>> @@
  "uint32_t" :> <<117, 105, 110, 116, 51, 50, 95, 116>> @@
  "HEARTBEAT" :> <<72, 69, 65, 82, 84, 66, 69, 65, 84>> @@
  "type" :> <<116, 121, 112, 101>> @@
  "autopilot" :> <<97, 117, 116, 111, 112, 105, 108, 111, 116>> @@
  "base_mode" :> <<98, 97, 115, 101, 95, 109, 111, 100, 101>> @@
  "custom_mode" :> <<99, 117, 115, 116, 111, 109, 95, 109, 111, 100, 101>> @@
  "system_status" :> <<115, 121, 115, 116, 101, 109, 95, 115, 116, 97, 116, 117, 115>> @@
  "mavlink_version" :> <<109, 97, 118, 108, 105, 110, 107, 95, 118, 101, 114, 115, 105, 111, 110>> @@
  "MISSION_REQUEST_LIST" :> <<77, 73, 83, 83, 73, 79, 78, 95, 82, 69, 81, 85, 69, 83, 84, 95, 76, 73, 83, 84>> @@
  "target_system" :> <<116, 97, 114, 103, 101, 116, 95, 115, 121, 115, 116, 101, 109>> @@
  "target_component" :> <<116, 97, 114, 103, 101, 116, 95, 99, 111, 109, 112, 111, 110, 101, 110, 116>> @@
  "A" :> <<65>> @@
  "JT" :> <<74, 84>>

Ascii(text) == Letters[text]

Scalar(type, name) ==
  [kind |-> "Empty", tag |-> "field",
   attrs |-> [type |-> [elem |-> type, bracket |-> "none"], name |-> name]]

Array(type, len, name) ==
  [kind |-> "Start", tag |-> "field",
   attrs |-> [type |-> [elem |-> type, bracket |-> "closed", len |-> len], name |-> name]]

Extensions == [kind |-> "Empty", tag |-> "extensions", attrs |-> <<>>]

Message(id, name, fields) ==
  <<[kind |-> "Start", tag |-> "message", attrs |-> [id |-> id, name |-> name]]>>
    \o fields \o <<[kind |-> "End", tag |-> "message"]>>

Include(file) ==
  <<[kind |-> "Start", tag |-> "include", attrs |-> <<>>], [kind |-> "Text", text |-> file],
    [kind |-> "End", tag |-> "include"]>>

Heartbeats ==
  Message(0, "HEARTBEAT",
    <<Scalar("uint8_t", "type"), Scalar("uint8_t", "autopilot"), Scalar("uint8_t", "base_mode"),
      Scalar("uint32_t", "custom_mode"), Scalar("uint8_t", "system_status"),
      Scalar("uint8_t_mavlink_version", "mavlink_version")>>)

RequestLists ==
  Message(43, "MISSION_REQUEST_LIST",
    <<Scalar("uint8_t", "target_system"), Scalar("uint8_t", "target_component"), Extensions,
      Scalar("uint8_t", "mission_type")>>)

\* common.xml and a dialect that includes it, each with one message.
Vendored == ("common.xml" :> Heartbeats) @@ ("ardupilotmega.xml" :> Include("common.xml") \o RequestLists)

Built == main(Vendored, <<"common.xml", "ardupilotmega.xml">>)

\* The entries of HEARTBEAT and MISSION_REQUEST_LIST, with the crc_extra bytes that
\* MAVLink publishes.
Published ==
  (0 :> [crc_extra |-> 50, target_sys_offset |-> <<>>, target_comp_offset |-> <<>>])
    @@ (43 :> [crc_extra |-> 132, target_sys_offset |-> <<0>>, target_comp_offset |-> <<1>>])

\* The build of these two messages generates the published table, the targets at
\* the first two bytes of MISSION_REQUEST_LIST.
ASSUME PublishedTable == Built.outcome = Ok /\ GeneratedTable(Built) = Published

-----------------------------------------------------------------------------
\* Files that each declare a message of their own and include any of the others.
Paths == {"a", "b", "c"}
MsgId(path) == CASE path = "a" -> 0 [] path = "b" -> 1 [] path = "c" -> 2

Library(graph) ==
  [path \in Paths |->
     FoldLeft(LAMBDA acc, inc : acc \o Include(inc), <<>>, SetToSeq(graph[path]))
       \o Message(MsgId(path), "A", <<Scalar("uint8_t", "type")>>)]

\* The walk of an include graph fails exactly if a file it reaches includes
\* itself, directly or through others; if it does not fail, it has loaded
\* every file it reaches once, in a diamond too, and the table has their
\* messages.
ASSUME IncludesWalked ==
  \A graph \in [Paths -> SUBSET Paths] :
    LET below   == TransitiveClosure([e \in Paths \X Paths |-> e[2] \in graph[e[1]]], Paths)
        reached == {"a"} \cup {path \in Paths : below[<<"a", path>>]}
        built   == main(Library(graph), <<"a">>)
    IN  IF \E path \in reached : below[<<path, path>>]
          THEN built.outcome = "Cycle"
          ELSE /\ built.outcome = Ok
               /\ IsInjective(built.watched) /\ Range(built.watched) = reached
               /\ DOMAIN built.entries = {MsgId(path) : path \in reached}

\* Messages for one msgid: two names, which with the second and the third list of
\* fields have the same crc_extra, and fields of which some are in another order.
Declarations ==
  {Message(0, name, fields) :
     name \in {"A", "JT"},
     fields \in {<<>>, <<Scalar("uint8_t", "type"), Scalar("uint8_t", "target_system")>>,
                <<Scalar("uint8_t", "target_system"), Scalar("uint8_t", "type")>>,
                <<Scalar("uint8_t", "type"), Array("uint8_t", 2, "target_system")>>,
                <<Extensions, Scalar("uint8_t", "target_system")>>}}

\* Two dialects agree on a msgid, or the build fails: the table does not depend
\* on which of them comes first.
ASSUME DialectsAgree ==
  \A one, two \in Declarations :
    LET files == ("a" :> one) @@ ("b" :> two)
        ab == main(files, <<"a", "b">>)
        ba == main(files, <<"b", "a">>)
        Fields(file) == SelectSeq(parse_xml(file).messages[1].fields, LAMBDA f : ~f.is_extension)
    IN  /\ ab.outcome = ba.outcome
        /\ ab.outcome = Ok => GeneratedTable(ab) = GeneratedTable(ba)
        /\ ab.outcome = Ok <=> /\ parse_xml(one).messages[1].name = parse_xml(two).messages[1].name
                              /\ Fields(one) = Fields(two)

-----------------------------------------------------------------------------
ParsedField(name, type, len, ext) ==
  [name |-> name, type_name |-> type, array_length |-> len, is_extension |-> ext]

FieldKinds ==
  {ParsedField("target_system", "uint8_t", 0, FALSE),
   ParsedField("target_component", "uint8_t", 0, FALSE),
   ParsedField("target_system", "uint8_t", 0, TRUE),
   ParsedField("target_component", "uint8_t", 3, FALSE),
   ParsedField("type", "uint16_t", 0, FALSE), ParsedField("type", "double", 32, FALSE)}

\* A field of the base layout lies behind the larger ones and behind those of its
\* size that are declared before it; the offset of a target is the last such
\* scalar uint8_t's, and one past byte 255 fails the build.
ASSUME OffsetsAreTheLayout ==
  \A fields \in UNION {[1..n -> FieldKinds] : n \in 0..3} :
    LET base == {i \in DOMAIN fields : ~fields[i].is_extension}
        size(i) == type_size[fields[i].type_name]
        before(i) == {j \in base : size(j) > size(i) \/ (size(j) = size(i) /\ j < i)}
        offset(i) == MapThenSumSet(LAMBDA j : size(j) * ElemCount(fields[j]), before(i))
        scalars(name) == {i \in base : fields[i].array_length = 0 /\ fields[i].name = name
                                         /\ fields[i].type_name = "uint8_t"}
        last(name) == IF scalars(name) = {} THEN <<>> ELSE <<offset(Max(scalars(name)))>>
        found == compute_offsets(fields)
    IN  IF \E i \in scalars("target_system") \cup scalars("target_component") : offset(i) > 255
          THEN found.outcome # Ok
          ELSE found.outcome = Ok /\ found.tsys = last("target_system")
                                 /\ found.tcomp = last("target_component")

=============================================================================
