----------------------------- MODULE MCIngress ------------------------------
(***************************************************************************)
(* Streams for Ingress, put together by a sender of its own: frames of     *)
(* both versions, signed or not, of known and unknown msgids, intact,      *)
(* corrupt or cut short, garbage, and STX bytes where none belong.         *)
(***************************************************************************)
EXTENDS Ingress, MCDialect

\* The generated table of HEARTBEAT and MISSION_REQUEST_LIST (PublishedTable).
Table == Published

Unlisted == 200

\* Everything but the heartbeats of component 9.
Filter(header) == header.msgid # 0 \/ header.source[2] # 9

Extra(msgid) == IF msgid \in DOMAIN Table THEN Table[msgid].crc_extra ELSE 0

Checked(stx, body, msgid) ==
  LET crc == Crc16(Append(body, Extra(msgid)))
  IN  <<stx>> \o body \o <<crc % 256, crc \div 256>>

\* A sender's frame: the bytes, and what the receiver is to make of them.
Frame(bytes, start, number, source, msgid, payload, targets) ==
  [bytes |-> bytes, number |-> number, targets |-> targets, intact |-> TRUE,
   header |-> [payload_start |-> start, payload_len |-> Len(payload), seq |-> number % 256,
               source |-> source, msgid |-> msgid]]

V1(number, source, msgid, payload, targets) ==
  Frame(Checked(254, <<Len(payload), number % 256>> \o source \o <<msgid>> \o payload, msgid),
        6, number, source, msgid, payload, targets)

V2(number, source, msgid, payload, targets, signature) ==
  Frame(Checked(253, <<Len(payload), IF signature = <<>> THEN 0 ELSE 1, 0, number % 256>>
                       \o source \o <<msgid, 0, 0>> \o payload, msgid) \o signature,
        10, number, source, msgid, payload, targets)

Debris(bytes) == [bytes |-> bytes, intact |-> FALSE]

Broken(f, i) == Debris([f.bytes EXCEPT ![i] = (@ + 1) % 256])

NoTargets == <<<<>>, <<>>>>

Heartbeat(n, source) == V1(n, source, 0, <<>>, NoTargets)

Plain   == Heartbeat(7, <<1, 1>>)
Muted   == Heartbeat(3, <<1, 9>>)
Target1 == V1(8, <<1, 1>>, 43, <<5, 254>>, <<<<5>>, <<254>>>>)
Trimmed == V2(8, <<1, 1>>, 43, <<5>>, <<<<5>>, <<>>>>, <<>>)
Signed  == V2(8, <<1, 1>>, 0, <<>>, NoTargets, [i \in 1..13 |-> IF i = 4 THEN 253 ELSE i])
Foreign == V2(9, <<2, 1>>, Unlisted, <<254>>, NoTargets, <<>>)

Palette ==
  {Plain, Muted, Target1, Trimmed, Signed, Foreign,
   Broken(Plain, 3), Broken(Plain, 2), Broken(Trimmed, 3),
   Debris(SubSeq(Target1.bytes, 1, 7)), Debris(<<9, 254>>), Debris(<<254, 12>>),
   Debris(<<253, 2, 4>>)}

Bytes(segments) == FoldLeft(LAMBDA acc, s : acc \o s.bytes, <<>>, segments)

Start(segments, k) == Len(Bytes(SubSeq(segments, 1, k - 1))) + 1

Stream(segments, cuts(_)) ==
  LET intact == SelectSeq([k \in 1..Len(segments) |-> k], LAMBDA k : segments[k].intact)
  IN  [bytes |-> Bytes(segments), cuts |-> cuts(segments),
       frames |-> [i \in 1..Len(intact) |->
                     LET s == segments[intact[i]]
                     IN  [at |-> Start(segments, intact[i]), len |-> Len(s.bytes),
                          number |-> s.number, header |-> s.header, targets |-> s.targets]]]

Anywhere(segments) == 1..Len(Bytes(segments))

\* Cut inside a segment's header and behind it.
Coarse(segments) ==
  {Start(segments, k) - 1 : k \in 2..Len(segments) + 1}
    \cup {Start(segments, k) + 3 : k \in 1..Len(segments)}

Between(segments) == {Start(segments, k) - 1 : k \in 2..Len(segments) + 1}

\* Single sessions: any two segments, cut anywhere.
Pairs == {<<Stream(<<a, b>>, Anywhere)>> : a, b \in Palette}

\* Two sessions: the first one breaks off anywhere.
Reconnects ==
  {<<Stream(<<Broken(Plain, 3), a>>, Anywhere), Stream(<<b, Plain>>, Coarse)>> :
     a \in {Signed, Foreign}, b \in {Debris(<<7, 7>>), Broken(Target1, 2)}}

\* Numbers for three frames of a first source and one or two of others, with
\* losses around the threshold and the wrap.
Losses == {0, 1, 63, 64, 256}
Others(n) == {<<>>, <<Heartbeat(n, <<2, 1>>)>>, <<Heartbeat(n, <<2, 1>>), Heartbeat(n, <<3, 1>>)>>}

Gaps ==
  {LET a == Heartbeat(250, <<1, 1>>)
       b == Heartbeat(251 + i, <<1, 1>>)
       c == Heartbeat(252 + i + j, <<1, 1>>)
   IN  <<Stream(<<a>> \o o \o <<b>> \o p \o <<c>>, Between)>> :
     i, j \in Losses, o \in Others(40), p \in Others(42)}

AllPlans == Pairs \cup Reconnects \cup Gaps

=============================================================================
