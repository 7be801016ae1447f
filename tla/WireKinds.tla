------------------------------- MODULE WireKinds -------------------------------
(***************************************************************************)
(* The canonical byte encodings of this repository share one vocabulary:    *)
(* big-endian integers of fixed width, counts and lengths in four bytes,    *)
(* optional values behind a 0/1 byte, and texts that are words, digests or  *)
(* the bytes of another encoding.  Here are the writers of that vocabulary  *)
(* and the names of what a reader may be told to expect (see Wire).         *)
(*                                                                          *)
(* A stream is a sequence of cells: a byte is <<n>>; a word or a digest, of *)
(* which only equality matters, is one cell.  A word has a version, 0 when  *)
(* it names no versioned contract.                                          *)
(***************************************************************************)
EXTENDS Integers, Sequences, SequencesExt

CONSTANT Base  \* the values of a byte: 256, fewer when model checking

ASSUME BaseAssumption == Base \in Nat /\ Base % 2 = 0 /\ Base > 0

Byte(b) == <<b>>
Versioned(w, n) == <<<<"word", w, n>>>>
Word(w) == Versioned(w, 0)
Digest(x) == <<<<"digest", x>>>>            \* SHA-256 in hex: equal only for equal input
Identity(prefix, x) == prefix \o Digest(x)

IsByte(cell) == Len(cell) = 1
IsWord(cell) == Len(cell) = 3
IsDigest(text) == Len(text) = 1 /\ Len(text[1]) = 2 /\ text[1][1] = "digest"
IsIdentity(prefix, text) == Len(text) = 2 /\ <<text[1]>> = prefix /\ IsDigest(<<text[2]>>)

(* Lower-case tokens have no raw bytes, printable texts no control bytes.   *)
IsToken(text) == text # <<>> /\ \A i \in DOMAIN text : IsWord(text[i])
IsPrintable(text) == text # <<>> /\ \A i \in DOMAIN text : text[i] # Byte(0)

(* The last byte value, 0xff, occurs in no UTF-8 text. *)
IsUtf8(text) == \A i \in DOMAIN text : text[i] # Byte(Base - 1)

----------------------------------------------------------------------------
(* ByteWriter *)
U(width, n) == [i \in 1..width |-> Byte((n \div Base^(width - i)) % Base)]
Flag(b) == U(1, IF b THEN 1 ELSE 0)
Blob(bytes) == U(4, Len(bytes)) \o bytes
Text(text) == U(4, Len(text)) \o text
Texts(texts) == FlattenSeq([i \in DOMAIN texts |-> Text(texts[i])])
Opt(value, Put(_)) == IF value = <<>> THEN U(1, 0) ELSE U(1, 1) \o Put(value[1])
Items(items, Put(_)) == FlattenSeq([i \in DOMAIN items |-> Put(items[i])])
List(items, Put(_)) == U(4, Len(items)) \o Items(items, Put)

(* A writer that refuses its value writes nothing. *)
Refused == <<>>

----------------------------------------------------------------------------
(* What a reader expects: a kind.  A message is read by its layout, a       *)
(* sequence of <<field, kind>>, and then validated.  The field "" is only   *)
(* read, the fields of the field "*" are the message's own.                 *)
UInt(width) == [t |-> "uint", width |-> width]
Int32 == [t |-> "int32"]
Code(max) == [t |-> "code", max |-> max]
Boolean == [t |-> "boolean"]
AnyText == [t |-> "text"]
AnyBlob == [t |-> "blob"]
OneOf(texts) == [t |-> "one of", texts |-> texts]
Only(text) == OneOf({text})
Maybe(kind) == [t |-> "optional", of |-> kind]
ListOf(kind, least) == [t |-> "list", of |-> kind, least |-> least]
Message(name) == [t |-> "message", name |-> name]
Choice(layouts) == [t |-> "choice", of |-> layouts]

============================================================================
