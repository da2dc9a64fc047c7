------------------------------- MODULE Codec --------------------------------
(***************************************************************************)
(* The bodies of packets: decodeProtoToJson, encodeJsonToProto and the     *)
(* functions with which processPacket reads the JSON text back.            *)
(*                                                                         *)
(* A body is a sequence of fields, each with its number, its wire type and *)
(* its value: a number for wire type 0, a text for wire type 2.  Any other *)
(* wire type stands for what readVarint or skipField refuses, a field that *)
(* is cut short and JSON text included.  A text is the sequence of pieces  *)
(* between the characters ',' and '}', at which extractJsonValue stops.    *)
(* JSON text is its string members, a function of the keys, and the array  *)
(* msg_ids; the empty string and "{}" are both NoJson.                     *)
(***************************************************************************)
EXTENDS Integers, Sequences, TLC

CONSTANTS
    MaxId,     \* bound: the largest message id or type
    MaxAckIds  \* the limit of parseJsonUint64ArrayFast

Field(no, wt, val) == [no |-> no, wt |-> wt, val |-> val]
JsonText == Field(15, 3, <<>>)  \* '{' is the key of field 15, wire type 3

Readable(body) == \A i \in DOMAIN body : body[i].wt \in {0, 2}

ParseUint64Safe(text) ==
    IF \E n \in 1 .. MaxId : text = <<ToString(n)>>
    THEN CHOOSE n \in 1 .. MaxId : text = <<ToString(n)>>
    ELSE 0

Digits(n) == IF n = 0 THEN <<>> ELSE <<ToString(n)>>

\* The variable of decodeProtoToJson that a text field 1 .. 5 is put in.
TextVariables(type) ==
    CASE type = 4         -> <<"username", "password", "message", "msgId", "timestamp">>
      [] type \in {5, 10} -> <<"result", "errMsg", "message", "msgId", "timestamp">>
      [] type = 7         -> <<"lastTs", "peer", "message", "msgId", "timestamp">>
      [] type = 9         -> <<"friendName", "peer", "message", "msgId", "timestamp">>
      [] type = 13        -> <<"result", "errMsg", "msgId", "user", "errMsg">>
      [] OTHER            -> <<"sender", "peer", "message", "msgId", "timestamp">>

\* The same for a field of wire type 0.
NumberVariables(type) ==
    IF type = 13 THEN <<"none", "ackType", "msgId", "msgId", "msgIds">>
                 ELSE <<"none", "none", "none", "msgId", "none">>

\* Mutation: the first field of a history request is taken for the sender.
VariableNoTimestamp(type, f) ==
    IF f.no \notin 1 .. 5 THEN "none"
    ELSE IF f.wt = 2 THEN TextVariables(IF type = 7 /\ f.no = 1 THEN 1 ELSE type)[f.no]
    ELSE NumberVariables(type)[f.no]

\* The variable a field is put in; one that nothing reads is "none".
Variable(type, f) ==
    IF f.no \notin 1 .. 5 THEN "none"
    ELSE IF f.wt = 2 THEN TextVariables(type)[f.no] ELSE NumberVariables(type)[f.no]

\* The loop over the fields: the last assignment to a variable stays, and a
\* text that is not a number above 0 is not assigned to msgId.
TextIn(type, body, var) ==
    LET hits == SelectSeq(body, LAMBDA f : Variable(type, f) = var)
    IN  IF hits = <<>> THEN <<>> ELSE hits[Len(hits)].val

NumberIn(type, body, var) ==
    LET Value(f) == IF f.wt = 0 THEN f.val ELSE ParseUint64Safe(f.val)
        hits == SelectSeq(body, LAMBDA f : Variable(type, f) = var
                                           /\ (f.wt = 2 => Value(f) > 0))
    IN  IF hits = <<>> THEN 0 ELSE Value(hits[Len(hits)])

NumbersIn(type, body, var) ==
    LET hits == SelectSeq(body, LAMBDA f : Variable(type, f) = var)
    IN  [i \in DOMAIN hits |-> hits[i].val]

\* addKV and addKVNum leave out what is empty or zero.
Json(members, ids) ==
    [text |-> [k \in {k \in DOMAIN members : members[k] # <<>>} |-> members[k]],
     ids  |-> ids]
NoJson == Json(<<>>, <<>>)

DecodeProtoToJson(type, body) ==
    LET T(var) == TextIn(type, body, var)
        N(var) == Digits(NumberIn(type, body, var))
    IN  IF ~ Readable(body) THEN NoJson
        ELSE CASE type = 1  -> Json([sender |-> T("sender"), target |-> T("target"),
                                     message |-> T("message"), timestamp |-> T("timestamp"),
                                     msg_id |-> N("msgId")], <<>>)
               [] type = 3  -> Json([sender |-> T("sender")], <<>>)
               [] type = 4  -> Json([username |-> T("username"),
                                     password |-> T("password")], <<>>)
               [] type = 7  -> Json([last_timestamp |-> T("lastTs"), peer |-> T("peer")], <<>>)
               [] type = 9  -> Json([friend |-> T("friendName")], <<>>)
               [] type = 13 -> Json([result |-> T("result"), type |-> N("ackType"),
                                     msg_id |-> N("msgId"), user |-> T("user"),
                                     message |-> T("errMsg")],
                                    NumbersIn(type, body, "msgIds"))
               [] OTHER     -> NoJson

-----------------------------------------------------------------------------
\* get(k) of encodeJsonToProto: extractJsonStringFast takes the whole value
\* of a string member, extractJsonValueLite reads the bare number of a type.
Get(json, key) == IF key \in DOMAIN json.text THEN json.text[key] ELSE <<>>

AckIds(json) == SubSeq(json.ids, 1, IF Len(json.ids) < MaxAckIds THEN Len(json.ids) ELSE MaxAckIds)

EncodeJsonToProto(type, json) ==
    LET S(no, key) == IF Get(json, key) = <<>> THEN <<>> ELSE <<Field(no, 2, Get(json, key))>>
        U(no, key) == LET v == ParseUint64Safe(Get(json, key))
                      IN  IF v = 0 THEN <<>> ELSE <<Field(no, 0, v)>>
        ids == SelectSeq(AckIds(json), LAMBDA v : v > 0)
    IN  IF json = NoJson THEN <<>>
        ELSE CASE type = 1  -> S(1, "sender") \o S(2, "target") \o S(3, "message")
                               \o U(4, "msg_id") \o S(5, "timestamp")
               [] type = 3  -> S(1, "sender")
               [] type = 4  -> S(1, "username") \o S(2, "password")
               [] type = 5  -> S(1, "result") \o S(2, "message")
               [] type = 7  -> S(1, "last_timestamp")
                               \o (IF Get(json, "peer") = <<>> THEN S(2, "target") ELSE S(2, "peer"))
               [] type = 9  -> S(1, "friend")
               [] type = 10 -> S(1, "result") \o S(2, "message") \o S(3, "friend")
               [] type = 13 -> S(1, "result") \o U(2, "type") \o U(3, "msg_id")
                               \o S(4, "user") \o S(5, "message")
                               \o [i \in DOMAIN ids |-> Field(5, 0, ids[i])]
               [] OTHER     -> <<JsonText>>

-----------------------------------------------------------------------------
\* extractJsonValue: the value of a member up to the first ',' or '}'.
FirstPiece(text) == IF text = <<>> \/ text[1] = "" THEN <<>> ELSE <<text[1]>>
ExtractJsonValue(json, key) == FirstPiece(Get(json, key))

ParseChatFieldsFast(json) == \A k \in {"sender", "target", "message"} : k \in DOMAIN json.text

\* What processPacket takes from the body before it acts on it.
Request(type, json) ==
    LET V(key) == ExtractJsonValue(json, key)
        one == ParseUint64Safe(V("msg_id"))
    IN  CASE type = 3  -> [sender |-> V("sender")]
          [] type = 1  -> LET R(key) == IF ParseChatFieldsFast(json) THEN Get(json, key) ELSE V(key)
                          IN  [sender |-> R("sender"), target |-> R("target"),
                               message |-> R("message")]
          [] type = 4  -> [username |-> V("username"), password |-> V("password")]
          [] type = 13 -> [user    |-> V("user"),
                           msg_ids |-> IF json.ids # <<>> THEN AckIds(json)
                                       ELSE IF one > 0 THEN <<one>> ELSE <<>>]
          [] type = 7  -> [last_timestamp |-> V("last_timestamp"),
                           peer |-> IF V("peer") = <<>> THEN V("target") ELSE V("peer")]
          [] type = 9  -> [friend |-> V("friend")]
          [] OTHER     -> <<>>
=============================================================================
