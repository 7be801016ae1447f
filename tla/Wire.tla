--------------------------------- MODULE Wire ---------------------------------
(***************************************************************************)
(* The reader of the canonical encodings (ByteReader and the read_ functions *)
(* built on it): it takes what is expected from a stream, from a position    *)
(* on, and says where it stopped.                                            *)
(***************************************************************************)
EXTENDS WireKinds, TLC

CONSTANTS Layout(_),   \* the fields of a message
          Valid(_, _)  \* what its validator says of the value read

Fail == [ok |-> FALSE]
Got(value, at) == [ok |-> TRUE, value |-> value, at |-> at]

Remaining(s, at) == Len(s) - at + 1

Number(s, at, width) ==
    FoldLeft(LAMBDA n, cell : n * Base + cell[1], 0, SubSeq(s, at, at + width - 1))

(* u8, u16be, u32be, u64be *)
GetUInt(s, at, width) ==
    IF Remaining(s, at) < width \/ \E i \in at..(at + width - 1) : ~IsByte(s[i]) THEN Fail
    ELSE Got(Number(s, at, width), at + width)

(* Reading goes on with what was read, from where that ended.                *)
Then(got, Next(_, _)) == IF got.ok THEN Next(got.value, got.at) ELSE Fail
Checked(fits, value, at) == IF fits THEN Got(value, at) ELSE Fail

(* bytes: a length, and that many bytes if there are as many. *)
GetBytes(s, at) ==
    Then(GetUInt(s, at, 4), LAMBDA n, next :
         IF n > Remaining(s, next) THEN Fail ELSE Got(SubSeq(s, next, next + n - 1), next + n))

(* string *)
GetText(s, at) ==
    Then(GetBytes(s, at), LAMBDA bytes, next : Checked(IsUtf8(bytes), bytes, next))

(* Mutant: any byte but zero says that there is a value. *)
LenientPresence(s, at) ==
    Then(GetUInt(s, at, 1), LAMBDA n, next : Got(n > 0, next))

(* boolean, and the presence byte of an optional value *)
GetPresence(s, at) ==
    Then(GetUInt(s, at, 1), LAMBDA n, next : Checked(n <= 1, n = 1, next))

RECURSIVE Get(_, _, _), GetList(_, _, _, _), GetFields(_, _, _, _)

GetList(kind, s, at, count) ==
    IF count = 0 THEN Got(<<>>, at)
    ELSE Then(Get(kind, s, at), LAMBDA first, next :
              Then(GetList(kind, s, next, count - 1), LAMBDA rest, end :
                   Got(<<first>> \o rest, end)))

(* A field may be skipped, be the fields of another message, or have a name. *)
GetFields(layout, s, at, read) ==
    IF layout = <<>> THEN Got(read, at)
    ELSE Then(Get(Head(layout)[2], s, at), LAMBDA value, next :
              GetFields(Tail(layout), s, next,
                        CASE Head(layout)[1] = "" -> read
                          [] Head(layout)[1] = "*" -> read @@ value
                          [] OTHER -> read @@ (Head(layout)[1] :> value)))

Signed(n) == IF n >= (Base \div 2) * Base^3 THEN n - Base^4 ELSE n

Get(kind, s, at) ==
    CASE kind.t = "uint" -> GetUInt(s, at, kind.width)
      [] kind.t = "int32" ->
            Then(GetUInt(s, at, 4), LAMBDA n, next : Got(Signed(n), next))
      [] kind.t = "code" ->
            Then(GetUInt(s, at, 1), LAMBDA n, next : Checked(n <= kind.max, n, next))
      [] kind.t = "boolean" -> GetPresence(s, at)
      [] kind.t = "text" -> GetText(s, at)
      [] kind.t = "blob" -> GetBytes(s, at)
      [] kind.t = "one of" ->
            Then(GetText(s, at), LAMBDA text, next : Checked(text \in kind.texts, text, next))
      [] kind.t = "optional" ->
            Then(GetPresence(s, at), LAMBDA present, next :
                 IF ~present THEN Got(<<>>, next)
                 ELSE Then(Get(kind.of, s, next), LAMBDA value, end : Got(<<value>>, end)))
      [] kind.t = "list" ->
            Then(GetUInt(s, at, 4), LAMBDA count, next :
                 IF count > Remaining(s, next) \div kind.least THEN Fail
                 ELSE GetList(kind.of, s, next, count))
      [] kind.t = "choice" ->
            Then(GetUInt(s, at, 1), LAMBDA code, next :
                 IF code >= Len(kind.of) THEN Fail
                 ELSE GetFields(kind.of[code + 1], s, next, "code" :> code))
      [] kind.t = "message" ->
            Then(GetFields(Layout(kind.name), s, at, <<>>), LAMBDA value, next :
                 Checked(Valid(kind.name, value), value, next))

(* The message, and all of the stream. *)
Accepted(name, s) ==
    Then(Get(Message(name), s, 1), LAMBDA value, next : Checked(next = Len(s) + 1, value, next))

============================================================================
