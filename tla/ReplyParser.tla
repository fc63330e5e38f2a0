----------------------------- MODULE ReplyParser -----------------------------
(***************************************************************************)
(* From bytes to replies: the incremental parser (src/base/reply_parser)   *)
(* and the builder over it (src/io/KjReplyBuilder), fed by the read loop   *)
(* of a connection.  Redis' replies arrive cut anywhere; after each chunk  *)
(* the parser goes on where it stopped, from a stack of frames that        *)
(* outlives the C calls that made it.                                      *)
(*                                                                         *)
(* A byte is a one-character string ("CR" and "LF" for two of them), the   *)
(* input buffer a queue of bytes, which is what module BipBuf shows it to  *)
(* be.  One step is one round of an RRB_LOOP.  A C call that re-enters the *)
(* loops walks down the stack to its top frame without touching the rest:  *)
(* the steps act on the top frame.  The reply under construction is kept   *)
(* in the frames: what a frame has got so far.                             *)
(*                                                                         *)
(* Nesting stays below the 16 frames the stack is allocated for, a simple  *)
(* string below the 4096 bytes of its first chunk, and numbers within the  *)
(* 64 bits they are read into (32 for the length of a string).             *)
(*                                                                         *)
(* A reply is delivered when PopReply() hands it to the connection.  What  *)
(* the connection does with it, and that it throws when a reply is an      *)
(* error, is the subject of KjRedisClientConn.                             *)
(***************************************************************************)
EXTENDS Integers, SequencesExt

CONSTANTS
    Byte,         \* what travels: one-character strings, "CR" and "LF"
    Scripts,      \* what a server may have to say: sequences of replies
    ReadSize,     \* KJ_TCP_CONNECTION_READ_SIZE: the most bytes one read returns
    InitCapacity, \* KJ_TCP_CONNECTION_READ_RESERVE_SIZE: what the buffer starts with
    MaxBreaks     \* bound: how often the connection breaks

ASSUME ByteAssumption ==
    {"CR", "LF", "+", "-", ":", "$", "*", "_",
     "0", "1", "2", "3", "4", "5", "6", "7", "8", "9"} \subseteq Byte
ASSUME SizesAssumption == ReadSize \in Nat \ {0} /\ InitCapacity \in Nat \ {0}
ASSUME BreaksAssumption == MaxBreaks \in Nat

VARIABLES
    script,      \* the replies to the commands sent, in order
    next,        \* where the server is in it: the reply and the token it writes next
    wire,        \* bytes sent by the server, not yet read
    bb,          \* the committed bytes of _bb
    capacity,    \* and its capacity
    busy,        \* ProcessInput() is running
    error,       \* it has left with a protocol error
    stack_rrb,   \* the frames
    available,   \* _available_replies
    delivered,   \* history: the replies popped and matched with a pipeline
    breaks       \* breaks of the connection so far

parserVars == <<bb, busy, error, stack_rrb, available, delivered>>
serverVars == <<next, wire>>
vars == <<script, serverVars, breaks, capacity, parserVars>>

-----------------------------------------------------------------------------
(* What Redis sends (RESP2).  A reply is written in prefix notation: a token for an
   array says how many replies follow as its elements, any other token is a reply of
   its own.  A server may also break the protocol as this parser knows it: "resp3" is
   a null of RESP3, "badbulk" a bulk string one byte longer than it says. *)

Text == Seq(Byte \ {"CR", "LF"})

Token ==
    [kind : {"simple", "error"}, val : Text]
        \cup [kind : {"integer"}, val : [1 .. 1 -> Int]]
        \cup [kind : {"array"}, val : [1 .. 1 -> Nat]]
        \cup [kind : {"bulk"}, val : Seq(Byte)]
        \cup [kind : {"badbulk"}, val : Seq(Byte) \ {<<>>}]
        \cup [kind : {"null", "nullarray", "resp3"}, val : {<<>>}]

NullReply == [kind |-> "null", val |-> <<>>]
Array(val) == [kind |-> "array", val |-> val]

(* The CRedisReply a token ought to become: a null array is a null. *)
ValueOf(t) == IF t.kind = "nullarray" THEN NullReply ELSE t

(* What the tokens of a reply say, read from the last one backwards: an array takes
   its elements from the replies behind it. *)
Reduce(t, vs) ==
    IF t.kind = "array"
    THEN <<Array(SubSeq(vs, 1, t.val[1]))>> \o SubSeq(vs, t.val[1] + 1, Len(vs))
    ELSE <<ValueOf(t)>> \o vs

Reading(ts) ==
    LET from[i \in 1 .. Len(ts) + 1] ==
            IF i > Len(ts) THEN <<>> ELSE Reduce(ts[i], from[i + 1])
    IN  from

(* These tokens are one reply, with no element missing. *)
IsReply(ts) ==
    /\ Len(Reading(ts)[1]) = 1
    /\ \A i \in DOMAIN ts : ts[i].kind = "array" => ts[i].val[1] <= Len(Reading(ts)[i + 1])

ASSUME ScriptsAssumption ==
    \A s \in Scripts : s \in Seq(Seq(Token)) /\ \A k \in DOMAIN s : IsReply(s[k])

Expected == [k \in DOMAIN script |-> Reading(script[k])[1][1]]

Digits == <<"0", "1", "2", "3", "4", "5", "6", "7", "8", "9">>

Decimal(n) ==
    LET abs == IF n < 0 THEN -n ELSE n
        digits[m \in 0 .. abs] ==
            IF m < 10 THEN <<Digits[m + 1]>> ELSE Append(digits[m \div 10], Digits[(m % 10) + 1])
    IN  IF n < 0 THEN <<"-">> \o digits[abs] ELSE digits[abs]

Line(text) == text \o <<"CR", "LF">>

(* A token on the wire: a byte for its type, a line, and for a bulk string its bytes. *)
Leading(t) ==
    CASE t.kind = "simple" -> "+"  [] t.kind = "error" -> "-"  [] t.kind = "integer" -> ":"
      [] t.kind \in {"array", "nullarray"} -> "*"  [] t.kind = "resp3" -> "_"
      [] OTHER -> "$"

Heading(t) ==
    CASE t.kind \in {"simple", "error", "resp3"} -> t.val
      [] t.kind \in {"integer", "array"}         -> Decimal(t.val[1])
      [] t.kind \in {"null", "nullarray"}        -> Decimal(-1)
      [] t.kind = "bulk"                         -> Decimal(Len(t.val))
      [] t.kind = "badbulk"                      -> Decimal(Len(t.val) - 1)

Content(t) == IF t.kind \in {"bulk", "badbulk"} THEN Line(t.val) ELSE <<>>

Encode(t) == <<Leading(t)>> \o Line(Heading(t)) \o Content(t)

WellFormed(ts) == \A i \in DOMAIN ts : ts[i].kind \notin {"resp3", "badbulk"}

-----------------------------------------------------------------------------
(* The helpers of reply_build_helper.c.                                     *)

(* bip_buf_find_str(bb, "\r\n", 2): where "\r\n" starts, 0 if it is not found, which is
   also so when it stands behind another '\r'.  fast_strstr() compares at the first '\r';
   for what follows it keeps a sum that leaves the '\r' of "\r\n" out, and so is never 0
   at a match.  (It is 0 at a later '\r' before a byte 0xFD where a char is signed, which
   would be taken for one: no line of the protocol has a '\r' in it.) *)
LineEnd ==
    LET ends == {i \in 1 .. Len(bb) - 1 : /\ bb[i] = "CR" /\ bb[i + 1] = "LF"
                                          /\ \A j \in 1 .. i - 1 : bb[j] # "CR"}
    IN  IF ends = {} THEN 0 ELSE CHOOSE i \in ends : TRUE

LineKnown == LineEnd > 0

(* redis_reply_read_integer(): the number on a line.  It is not asked whether its
   characters are digits: one that is not has a weight too (':' is 10). *)
Weight(c) == IF Contains(Digits, c) THEN CHOOSE d \in 0 .. 9 : Digits[d + 1] = c ELSE 10

NumberOf(text) ==
    LET v64[i \in 0 .. Len(text)] ==
            IF i = 0 THEN 0
            ELSE IF text[i] = "-" THEN v64[i - 1] ELSE v64[i - 1] * 10 + Weight(text[i])
    IN  IF Contains(text, "-") THEN -v64[Len(text)] ELSE v64[Len(text)]

LineInteger == NumberOf(SubSeq(bb, 1, LineEnd - 1))

ConsumeLine == bb' = SubSeq(bb, LineEnd + 2, Len(bb))

LeadingType(c) ==
    CASE c = "+" -> "simple"  [] c = "-" -> "error"  [] c = ":" -> "integer"
      [] c = "$" -> "bulk"    [] c = "*" -> "array"  [] OTHER -> "unknown"

-----------------------------------------------------------------------------
(* The stack of frames.                                                     *)

(* A frame of r_build_reply, r_build_array, r_build_bulk_string or
   r_build_simple_string, in its first state. *)
Frame(kind) ==
    [kind  |-> kind,
     state |-> CASE kind = "reply" -> "type"  [] kind \in {"array", "bulk"} -> "len"
                 [] OTHER -> "plain",
     elemtype |-> "unknown", len |-> 0, got |-> <<>>]

top == Last(stack_rrb)

At(kinds, state) == busy /\ top.kind \in kinds /\ top.state = state

SetTop(frame) == stack_rrb' = Front(stack_rrb) \o <<frame>>

(* PushReply(): unlike SetReply() it does not ask an array whether it is null. *)
PushReply(value) == IF value.kind = "nullarray" THEN Array(<<>>) ELSE value

(* SetReply(), for an element of an array. *)
SetReply(value) == IF value.kind = "nullarray" THEN NullReply ELSE value

(* RRB_OVER from the builders above the last of the frames fs: their reply goes
   to fs, which starts on its next element, is over itself, or, at the bottom,
   gives the reply to the builder and is popped (a new one is pushed for the
   next reply). *)
Over(fs, value) ==
    LET f   == Last(fs)
        got == Append(f.got, SetReply(value))
    IN  IF f.kind = "reply"
        THEN /\ available' = Append(available, PushReply(value))
             /\ stack_rrb' = <<Frame("reply")>>
        ELSE /\ stack_rrb' = Front(fs) \o
                  <<[f EXCEPT !.got = got, !.state = IF Len(got) < f.len THEN "type" ELSE "over"]>>
             /\ UNCHANGED available

(* RRB_ERROR_PREMATURE: every loop is left, the frames stay.  ProcessInput()
   returns, and OnClientReceive() pops the replies that are complete. *)
GoesOnLooping == UNCHANGED <<busy, delivered, available, error>>  \* mutant: RRB_AGAIN
Stops ==
    /\ busy' = FALSE
    /\ delivered' = delivered \o available
    /\ available' = <<>>
    /\ UNCHANGED error

Premature == Stops /\ UNCHANGED <<bb, stack_rrb>>

(* Any other error leaves ProcessInput() by an exception, which OnClientReceive()
   swallows: nothing is popped or consumed. *)
Throws ==
    /\ busy' = FALSE
    /\ error' = TRUE
    /\ UNCHANGED <<available, delivered>>

Unfailing == UNCHANGED <<busy, error, delivered>>

-----------------------------------------------------------------------------
(* The rounds of the loops.                                                 *)

(* __build_reply_type() and __build_array_element_type(). *)
BuildType ==
    /\ At({"reply", "array"}, "type")
    /\ \/ bb = <<>> /\ Premature
       \/ bb # <<>> /\ LeadingType(Head(bb)) = "unknown" /\ Throws /\ UNCHANGED <<bb, stack_rrb>>
       \/ /\ bb # <<>> /\ LeadingType(Head(bb)) # "unknown"
          /\ SetTop([top EXCEPT !.state = "content", !.elemtype = LeadingType(Head(bb))])
          /\ bb' = Tail(bb)
          /\ Unfailing /\ UNCHANGED available

(* __build_reply_content() and __build_array_element(): an integer is read at
   once, anything else has a frame of its own. *)
BuildContent ==
    /\ At({"reply", "array"}, "content")
    /\ IF top.elemtype = "integer"
       THEN \/ ~LineKnown /\ Premature
            \/ /\ LineKnown
               /\ Over(stack_rrb, [kind |-> "integer", val |-> <<LineInteger>>])
               /\ ConsumeLine
               /\ Unfailing
       ELSE /\ stack_rrb' = Append(stack_rrb, Frame(top.elemtype))
            /\ Unfailing /\ UNCHANGED <<bb, available>>

(* __build_array_len() and __build_bulk_string_store_len(). *)
BuildLen ==
    /\ At({"array", "bulk"}, "len")
    /\ \/ ~LineKnown /\ Premature
       \/ /\ LineKnown
          /\ ConsumeLine
          /\ LET len == LineInteger
                 more == IF top.kind = "array" THEN len > 0 ELSE len >= 0
             IN  \/ /\ more
                    /\ SetTop([top EXCEPT !.len = len,
                                 !.state = IF top.kind = "array" THEN "type" ELSE "plain"])
                    /\ UNCHANGED available
                 \/ /\ ~more
                    /\ Over(Front(stack_rrb),
                            IF top.kind = "bulk" THEN NullReply
                            ELSE IF len < 0 THEN [kind |-> "nullarray", val |-> <<>>]
                            ELSE Array(<<>>))
          /\ Unfailing

(* An array whose last element is over is over. *)
BuildOver ==
    /\ At({"array"}, "over")
    /\ Over(Front(stack_rrb), Array(top.got))
    /\ Unfailing /\ UNCHANGED bb

(* __build_bulk_string_plain(): whatever is there is taken, up to the length and
   the "\r\n" behind it. *)
BulkAppendSize(want) == IF Len(bb) < want THEN 0 ELSE want       \* mutant: all or nothing
AppendSize(want) == IF Len(bb) < want THEN Len(bb) ELSE want

BuildBulkPlain ==
    /\ At({"bulk"}, "plain")
    /\ LET want == top.len + 2 - Len(top.got)
           n    == AppendSize(want)
           got  == top.got \o SubSeq(bb, 1, n)
           over == n = want
           good == SubSeq(got, top.len + 1, top.len + 2) = <<"CR", "LF">>
       IN  \/ /\ ~over
              /\ SetTop([top EXCEPT !.got = got])
              /\ bb' = SubSeq(bb, n + 1, Len(bb))
              /\ Stops
           \/ /\ over /\ ~good
              /\ SetTop([top EXCEPT !.got = got])
              /\ UNCHANGED bb
              /\ Throws
           \/ /\ over /\ good
              /\ Over(Front(stack_rrb), [kind |-> "bulk", val |-> SubSeq(got, 1, top.len)])
              /\ bb' = SubSeq(bb, n + 1, Len(bb))
              /\ Unfailing

(* nx_memcpy(b->pos, p1, n); b->last += n: the new bytes go to the START of the
   temporary buffer, whatever it already holds, and its end moves on by their
   number; what lies between is memory nobody wrote. *)
Overlaid(got, bytes) ==
    [i \in 1 .. Len(got) + Len(bytes) |->
        IF i <= Len(bytes) THEN bytes[i] ELSE IF i <= Len(got) THEN got[i] ELSE "junk"]

(* __build_simple_string_plain(): without an end of line everything is taken, but
   for a '\r' at the end, whose '\n' may follow. *)
EverythingTaken == Len(bb)                                      \* mutant: the '\r' too
TakenOfLine ==
    IF LineKnown THEN LineEnd - 1 ELSE IF Last(bb) = "CR" THEN Len(bb) - 1 ELSE Len(bb)

BuildSimplePlain ==
    /\ At({"simple", "error"}, "plain")
    /\ \/ Len(bb) < 2 /\ Premature
       \/ /\ Len(bb) >= 2
          /\ LET got == Overlaid(top.got, SubSeq(bb, 1, TakenOfLine))
             IN  \/ /\ ~LineKnown
                    /\ SetTop([top EXCEPT !.got = got])
                    /\ bb' = SubSeq(bb, TakenOfLine + 1, Len(bb))
                    /\ Stops
                 \/ /\ LineKnown
                    /\ Over(Front(stack_rrb), [kind |-> top.kind, val |-> got])
                    /\ ConsumeLine
                    /\ Unfailing

Parse ==
    /\ \/ BuildType \/ BuildContent \/ BuildLen \/ BuildOver
       \/ BuildBulkPlain \/ BuildSimplePlain
    /\ UNCHANGED <<script, serverVars, breaks, capacity>>

-----------------------------------------------------------------------------
(* The server and the read loop.                                            *)

(* The server writes the next token.  It is never further ahead than one read can see,
   which nobody can tell who reads. *)
ServerWrites ==
    /\ next[1] <= Len(script)
    /\ Len(wire) < ReadSize
    /\ wire' = wire \o Encode(script[next[1]][next[2]])
    /\ next' = IF next[2] < Len(script[next[1]]) THEN <<next[1], next[2] + 1>>
               ELSE <<next[1] + 1, 1>>
    /\ UNCHANGED <<script, breaks, capacity, parserVars>>

next_power_of_two(x) ==
    LET power[k \in 0 .. x] == IF k = 0 THEN 1 ELSE 2 * power[k - 1]
    IN  power[CHOOSE k \in 0 .. x : power[k] >= x /\ \A j \in 0 .. k - 1 : power[j] < x]

(* AsyncReadLoop(): room for ReadSize bytes is reserved (bip_buf_force_reserve
   grows a buffer that has some space left, but not that much), a read returns
   the next n bytes, they are committed and the parser runs.  With no space left
   at all the reservation is null and the program stops at the assertion. *)
Receive(n) ==
    /\ ~busy
    /\ Len(bb) # capacity
    /\ capacity' = IF ReadSize > capacity - Len(bb)
                   THEN next_power_of_two(capacity + ReadSize) ELSE capacity
    /\ bb' = bb \o SubSeq(wire, 1, n)
    /\ wire' = SubSeq(wire, n + 1, Len(wire))
    /\ busy' = TRUE
    /\ UNCHANGED <<script, next, breaks, error, stack_rrb, available, delivered>>

(* The connection breaks: taskFailed() flushes the stream (bip_buf_reset) and
   resets the builder (reset_reply_parser, _available_replies.clear()); on the
   next connection the unanswered commands are sent again, and answered. *)
ResetBufferOnly == bb' = <<>> /\ UNCHANGED <<stack_rrb, available>>   \* mutant: builder kept
ResetParser == bb' = <<>> /\ stack_rrb' = <<Frame("reply")>> /\ available' = <<>>

Break ==
    /\ ~busy
    /\ breaks < MaxBreaks
    /\ breaks' = breaks + 1
    /\ ResetParser
    /\ error' = FALSE
    /\ wire' = <<>>
    /\ next' = <<Len(delivered) + 1, 1>>
    /\ UNCHANGED <<script, busy, delivered, capacity>>

Init ==
    /\ script \in Scripts
    /\ next = <<1, 1>>
    /\ wire = <<>>
    /\ bb = <<>>
    /\ capacity = InitCapacity
    /\ busy = FALSE
    /\ error = FALSE
    /\ stack_rrb = <<Frame("reply")>>
    /\ available = <<>>
    /\ delivered = <<>>
    /\ breaks = 0

Next ==
    \/ Parse
    \/ ServerWrites
    \/ \E n \in 1 .. (IF ReadSize < Len(wire) THEN ReadSize ELSE Len(wire)) : Receive(n)
    \/ Break

(* ProcessInput() runs without a pause. *)
Spec == Init /\ [][Next]_vars /\ WF_vars(Parse)

-----------------------------------------------------------------------------
(* What the theorems ask of the scripts: the builder spoils a longer simple string that
   is cut, and takes a null array for an empty one. *)

Short(t) == t.kind \in {"simple", "error"} => Len(t.val) <= 2

Unspoilt(ts) == ts[1].kind # "nullarray" /\ \A i \in DOMAIN ts : Short(ts[i])

(* There is room for one read behind a line that lacks only its '\n'. *)
RoomForLines ==
    /\ ReadSize + 1 <= InitCapacity
    /\ \A s \in Scripts : \A k \in DOMAIN s : \A i \in DOMAIN s[k] :
          s[k][i].kind \notin {"simple", "error"} =>
              ReadSize + Len(Heading(s[k][i])) + 1 <= InitCapacity

-----------------------------------------------------------------------------
(* Properties.                                                              *)

(* The stack of builders begins with that of a reply, only arrays have builders above
   them, and no type is pushed that is not known. *)
TypeOK ==
    /\ busy \in BOOLEAN /\ error \in BOOLEAN
    /\ breaks \in 0 .. MaxBreaks
    /\ capacity \in Nat \ {0}
    /\ stack_rrb # <<>> /\ stack_rrb[1].kind = "reply"
    /\ \A i \in 2 .. Len(stack_rrb) : stack_rrb[i].kind \in {"array", "bulk", "simple", "error"}
    /\ \A i \in 2 .. Len(stack_rrb) - 1 : stack_rrb[i].kind = "array"

(* Wherever the bytes are cut, and however often a half-built reply is thrown away
   with its connection and sent again, the replies are those the server gave, in
   order, none lost, doubled or mixed with another. *)
RepliesFaithful == IsPrefix(delivered \o available, Expected)

(* Once the last byte has been read, no reply is held back for bytes to come. *)
NothingHeldBack ==
    next[1] > Len(script) /\ wire = <<>> /\ ~busy /\ ~error => delivered = Expected

(* A cut never makes well-formed input look like a violation of the protocol:
   the parser throws only on what no Redis server of RESP2 sends. *)
OnlyGenuineErrors ==
    error => \E i \in DOMAIN script : ~WellFormed(script[i])

(* assert(bufbase) in AsyncReadLoop() (KjRedisTcpConn.cpp:211): between two reads the
   parser has left enough space that the buffer can give some, or grow.  It does not
   hold after a violation of the protocol. *)
ReadHasRoom == ~busy => Len(bb) # capacity

(* What the parser leaves in the buffer is less than a line of digits or a lone
   '\r', so that the buffer neither fills up nor grows beyond its first size. *)
BufferStaysSmall ==
    (\A i \in DOMAIN script : WellFormed(script[i])) => capacity = InitCapacity /\ ReadHasRoom

(* The loops of the parser end: whatever is in the buffer, ProcessInput() returns
   to the event loop. *)
ParserReturns == busy ~> ~busy

=============================================================================
