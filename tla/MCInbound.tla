----------------------------- MODULE MCInbound ------------------------------
\* Small instances of Inbound for TLC: one packet of each type a client
\* sends, packets with an illegal length, and the streams they form.
EXTENDS Inbound, SequencesExt

MCBase == 4
Unit(b) == [b |-> b, field |-> JsonText]
MCZero == Unit(0)
Digit2(n) == <<Unit(n \div MCBase), Unit(n % MCBase)>>

Packet(type, body, request) ==
    [type |-> type, request |-> request, legal |-> TRUE,
     units |-> Digit2(HeaderSize + Len(body)) \o Digit2(type)
               \o [i \in DOMAIN body |-> [b |-> 1, field |-> body[i]]]]

\* A client writes the fields the server's own encoder does.
Encoded(type, members, ids, request) ==
    Packet(type, EncodeJsonToProto(type, Json(members, ids)), request)

Chat == LET m == [sender |-> <<"ann">>, target |-> <<"bob">>, message |-> <<"hi", "you">>]
        IN  Encoded(1, m, <<>>, m)
Heartbeat == Packet(2, <<>>, <<>>)
Bind == LET m == [sender |-> <<"ann">>] IN Encoded(3, m, <<>>, m)
Login == LET m == [username |-> <<"ann">>, password |-> <<"pw">>] IN Encoded(4, m, <<>>, m)
HistoryOf == LET m == [last_timestamp |-> <<"t1">>, peer |-> <<"bob">>]
             IN  Encoded(7, m, <<>>, m)
AddFriend == LET m == [friend |-> <<"bob">>] IN Encoded(9, m, <<>>, m)
AckOne == Encoded(13, [result |-> <<"ok">>, type |-> <<"1">>, msg_id |-> <<"2">>,
                       user |-> <<"bob">>], <<>>, [user |-> <<"bob">>, msg_ids |-> <<2>>])
AckSome == Encoded(13, [user |-> <<"bob">>], <<2, 3, 1>>,
                   [user |-> <<"bob">>, msg_ids |-> <<2, 3>>])
\* Field 3 as a text, an unknown field, and a field given twice.
AckText == Packet(13, <<Field(4, 2, <<"ann">>), Field(3, 2, <<"2">>), Field(6, 2, <<"x">>),
                        Field(4, 2, <<"bob">>)>>,
                  [user |-> <<"bob">>, msg_ids |-> <<2>>])
JsonBind == Packet(3, <<JsonText>>, [sender |-> <<>>])
BadLength(n) == [type |-> 0, request |-> <<>>, legal |-> FALSE, units |-> Digit2(n)]

\* The packets with their ends, and the stream.
Script(packets) ==
    LET units(n) == FlattenSeq([i \in 1 .. n |-> packets[i].units])
    IN  [packets |-> [i \in DOMAIN packets |->
                         [type |-> packets[i].type, request |-> packets[i].request,
                          legal |-> packets[i].legal, end |-> Len(units(i))]],
         stream |-> units(Len(packets))]

MCScripts ==
    {Script(<<Bind, Heartbeat, Login>>), Script(<<Heartbeat, AckOne, Heartbeat>>),
     Script(<<HistoryOf, AddFriend>>), Script(<<AckSome, JsonBind>>),
     Script(<<Chat, Heartbeat>>), Script(<<AckText, Bind>>),
     Script(<<Heartbeat, Bind, BadLength(3), Heartbeat>>),
     Script(<<Heartbeat, BadLength(10), Bind, Heartbeat>>)}
MCFields == UNION {{s.stream[i].field : i \in DOMAIN s.stream} : s \in MCScripts}
MCCapacities == {1, 2, 4, 8, 16, 32}
=============================================================================
