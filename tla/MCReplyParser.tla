---------------------------- MODULE MCReplyParser ----------------------------
(***************************************************************************)
(* ReplyParser for TLC: what the server says.                              *)
(***************************************************************************)
EXTENDS ReplyParser

MCByte ==
    {"CR", "LF", "+", "-", ":", "$", "*", "_",
     "0", "1", "2", "3", "4", "5", "6", "7", "8", "9",
     "a", "b", "c", "d", "e", "f", "g", "h", "i", "j", "A", "B", "C", "K", "O"}

One(kind, val) == <<[kind |-> kind, val |-> val]>>

Integer(n)   == One("integer", <<n>>)
Bulk(text)   == One("bulk", text)
Simple(text) == One("simple", text)
Error(text)  == One("error", text)
Null         == One("null", <<>>)
NullArray    == One("nullarray", <<>>)
ArrayOf(replies) == One("array", <<Len(replies)>>) \o FlattenSeq(replies)
Resp3        == One("resp3", <<>>)
BadBulk      == One("badbulk", <<"a", "b">>)

OK == Simple(<<"O", "K">>)

(* Replies a cut cannot spoil, with the contents a parser might stumble on: a line end
   and a lone '\r' inside a bulk string, two digits, a sign, nothing at all.  A longer
   simple string and a null array are in LongScripts and NullArrayScripts; an error is
   an element of an array, as the connection throws at one that is a whole reply. *)
Plain == {Integer(12), Integer(-1), OK, Simple(<<>>), Null,
          Bulk(<<>>), Bulk(<<"CR", "LF">>), Bulk(<<"a", "CR">>),
          Bulk(<<"a", "b", "c", "d", "e", "f", "g", "h", "i", "j">>)}

Arrays == {ArrayOf(<<>>), ArrayOf(<<NullArray, OK>>), ArrayOf(<<Error(<<"K">>), Null>>),
           ArrayOf(<<Integer(7), ArrayOf(<<Bulk(<<"a">>), Null>>)>>),
           ArrayOf(<<ArrayOf(<<ArrayOf(<<>>), Integer(1)>>), OK>>)}

Genuine == Plain \cup Arrays

(* Two replies in a row, and replies behind or before a broken one. *)
MCScripts ==
    {<<a, b>> : a \in Genuine, b \in Genuine} \cup
    {<<OK, Resp3, OK>>, <<Integer(3), BadBulk, OK>>, <<ArrayOf(<<OK, Resp3>>), OK>>}

(* The hypotheses of the theorems hold of these. *)
ASSUME MCUnspoilt == \A s \in MCScripts : \A k \in DOMAIN s : Unspoilt(s[k])
ASSUME MCRoom == RoomForLines

LongScripts == {<<Simple(<<"A", "B", "C">>)>>}
NullArrayScripts == {<<NullArray>>}
Resp3Scripts == {<<Resp3, OK>>}

=============================================================================
