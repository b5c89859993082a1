------------------------------- MODULE Record -------------------------------
(***************************************************************************)
(* The formats of an entry: numbers in log_utils.hpp's VLQ and zigzag, the  *)
(* arguments and the header in memory (argument_serialization.hpp,          *)
(* record_writer.cpp, log_entry_handle.cpp), and the item the compressed    *)
(* appender makes of them.                                                  *)
(*                                                                          *)
(* What counts here is where things lie.  Memory is, for every kind of      *)
(* field, a function from the offsets where one was written; a reader that  *)
(* looks elsewhere finds garbage.  A number is the length of its VLQ, a text *)
(* the numbers of its ASCII, other two-byte and supplementary characters.   *)
(* The VLQ itself is taken byte by byte, for bytes of any width.            *)
(***************************************************************************)
EXTENDS Integers, FiniteSets, Sequences, SequencesExt

CONSTANTS
    ByteBits,       \* bits of a byte where every value is tried; 8 in the code
    WordBytes,      \* sizeof of the unsigned types
    Arguments,      \* arguments that calls pass, see IsText
    MaxArgs,        \* bound on the arguments of a call
    FormatSizes,    \* bytes of the format text
    NameSizes,      \* bytes of the thread name
    OffsetSizes,    \* VLQ bytes of the time since the last entry
    IndexSizes      \* VLQ bytes of a template's index

ASSUME RecordAssumption ==
    /\ ByteBits \in Nat \ {0} /\ WordBytes \subseteq 1 .. ByteBits
    /\ MaxArgs \in Nat /\ FormatSizes \subseteq Nat /\ NameSizes \subseteq 0 .. 16

VARIABLES
    code,   \* the last number encoded
    rec     \* the last record written, and the item made of it
recvars == <<code, rec>>

Garbage == "garbage"
Align4(n) == ((n + 3) \div 4) * 4
-----------------------------------------------------------------------------
(* min_value_of_length: the least value that takes L bytes of b bits *)
RECURSIVE MinOf(_, _)
MinOf(b, L) == IF L = 1 THEN 0 ELSE MinOf(b, L - 1) + 2^((b - 1) * (L - 1))

(* get_vlq_encode_length *)
EncodeLength(b, v) ==
    CHOOSE L \in 1 .. b + 1 : v >= MinOf(b, L) /\ (L = b + 1 \/ v < MinOf(b, L + 1))

(* vlq_encode: the prefix of the length and the highest byte together, then   *)
(* the others from the lowest on; the longest form has a first byte of 0     *)
vlq_encode(b, v) ==
    LET L == EncodeLength(b, v)
        d == v - MinOf(b, L)
        byte(i) == (d \div 2^(b * i)) % 2^b
    IN  [i \in 1 .. L |-> CASE i > 1         -> byte(i - 2)
                            [] L = b + 1     -> 0
                            [] OTHER         -> (2^(b - L) + byte(L - 1)) % 2^b]

(* get_vlq_decode_length, as its table has it *)
DecodeLength(b, x) == IF x = 0 THEN b + 1 ELSE CHOOSE L \in 1 .. b : 2^(b - L) <= x /\ x < 2^(b - L + 1)

(* vlq_decode into a type of n bytes; <<length, value>>, length 0 if refused. *)
(* What lies behind the bytes is taken for 0.                                *)
vlq_decode(b, s, n) ==
    LET L   == DecodeLength(b, s[1])
        top == IF L = b + 1 THEN 0 ELSE (s[1] - 2^(b - L)) * 2^(b * (L - 1))
        low == FoldLeft(LAMBDA acc, i : acc + (IF i <= Len(s) THEN s[i] ELSE 0) * 2^(b * (i - 2)), 0, [i \in 1 .. L - 1 |-> i + 1])
    IN  IF L > n + 1 THEN <<0, 0>> ELSE <<L, (top + low + MinOf(b, L)) % 2^(b * n)>>

(* zigzag::encode and decode of w bits *)
zigzag(w, v)   == IF v < 0 THEN 2^w - 1 - ((2 * v) % 2^w) ELSE (2 * v) % 2^w
unzigzag(w, u) == IF u % 2 = 0 THEN u \div 2 ELSE (2^w - 1 - (u \div 2)) - 2^w
-----------------------------------------------------------------------------
(* A text argument tells where it comes from (an array, a pointer, a null     *)
(* pointer, a string object), the width of its characters, and its text.     *)
IsText(a) == "form" \in DOMAIN a
NoText   == [ascii |-> 0, wide |-> 0, pairs |-> 0]
NullText == [ascii |-> 4, wide |-> 0, pairs |-> 0]

(* get_serialize_kind and get_log_param_type_enum: 32-bit text becomes UTF-16 *)
TagOf(a) == IF ~IsText(a) THEN a.tag ELSE IF a.width = 1 THEN "utf8" ELSE "utf16"

(* get_string_source: what is to be copied; a final NUL of an array is not    *)
TextOf(a) == IF a.form = "null" THEN NullText ELSE a.text
Elements(t, width) ==
    t.ascii + (IF width = 1 THEN 3 ELSE 1) * t.wide
            + (CASE width = 1 -> 4 [] width = 2 -> 2 [] OTHER -> 1) * t.pairs
Limit(a) == LET n == Elements(TextOf(a), a.width)
            IN  IF a.form = "array" /\ a.nul /\ a.width = 4 THEN n + 1 ELSE n

(* measure_string_content: 32-bit characters up to the limit or a NUL *)
MeasureBytes(a) ==
    LET t == TextOf(a)
    IN  IF a.width = 4 THEN 2 * (t.ascii + t.wide) + 4 * t.pairs ELSE Limit(a) * a.width

PodSize == [int8 |-> 1, int16 |-> 2, uint16 |-> 2, int32 |-> 4, uint32 |-> 4, float |-> 4,
            int64 |-> 8, uint64 |-> 8, double |-> 8]

(* get_storage_data_size with the tag *)
StorageSize(a) ==
    IF IsText(a) THEN MeasureBytes(a) + 8
    ELSE CASE a.tag = "null"    -> 4
           [] a.tag = "pointer" -> 12
           [] OTHER -> PodSize[a.tag] + (IF PodSize[a.tag] <= 2 THEN 2 ELSE 4)

NoMem == [tag |-> <<>>, size |-> <<>>, text |-> <<>>, value |-> <<>>]

(* type_copy of one argument at an offset *)
type_copy(mem, a, at) ==
    LET m == [mem EXCEPT !.tag = (at :> TagOf(a)) @@ @]
    IN  IF IsText(a) THEN [m EXCEPT !.size = (at + 4 :> MeasureBytes(a)) @@ @, !.text = (at + 8 :> TextOf(a)) @@ @]
        ELSE CASE a.tag = "null"    -> m
               [] a.tag = "pointer" -> [m EXCEPT !.value = (at + 4 :> 8) @@ @]
               [] OTHER -> [m EXCEPT !.value = (at + (IF PodSize[a.tag] <= 2 THEN 2 ELSE 4) :> a.vlq) @@ @]

(* size_seq::get_total *)
TotalSize(args) == FoldLeft(LAMBDA n, a : n + Align4(StorageSize(a)), 0, args)

(* fill_arguments: every argument behind the aligned size of those before it *)
fill_arguments(args, base) ==
    FoldLeft(LAMBDA acc, a : [at |-> acc.at + Align4(StorageSize(a)), mem |-> type_copy(acc.mem, a, acc.at)],
             [at |-> base, mem |-> NoMem], args).mem

(* log_write_begin, do_log and log_write_finish: header, format, arguments,   *)
(* thread name                                                               *)
HeaderSize == 40
Written(fmt, name, args) ==
    LET base == HeaderSize + Align4(fmt)
        ext  == base + TotalSize(args)
    IN  [mem |-> fill_arguments(args, base), name |-> name, fmt |-> fmt, ext |-> ext, size |-> ext + 1 + name]
-----------------------------------------------------------------------------
(* what a reader finds at an offset *)
TagAt(mem, at)  == IF at \in DOMAIN mem.tag THEN mem.tag[at] ELSE Garbage
ValueAt(mem, at) == IF at \in DOMAIN mem.value THEN mem.value[at] ELSE -1
HasText(mem, at) == at + 4 \in DOMAIN mem.size /\ at + 8 \in DOMAIN mem.text

Tags4  == {"null", "int8", "int16", "uint16"}
Tags8  == {"int32", "uint32", "float"}
Tags12 == {"pointer", "int64", "uint64", "double"}

(* validate's walk over the arguments; it ends at the ext info or is refused *)
RECURSIVE WalkArgs(_, _, _)
WalkArgs(mem, at, end) ==
    LET tag  == TagAt(mem, at)
        step == CASE tag \in Tags4 -> 4 [] tag \in Tags8 -> 8 [] tag \in Tags12 -> 12
                  [] OTHER -> 8 + Align4(mem.size[at + 4])
    IN  IF at >= end THEN at = end
        ELSE /\ end - at >= 4 /\ tag # Garbage
             /\ tag \in {"utf8", "utf16"} => end - at >= 8 /\ HasText(mem, at)
             /\ step <= end - at /\ WalkArgs(mem, at + step, end)

(* LogEntryHandle::validate *)
validate(r) ==
    LET base == HeaderSize + Align4(r.fmt) IN
    /\ r.size >= HeaderSize + 1 /\ base <= r.size /\ r.ext >= base /\ r.ext + 1 <= r.size
    /\ r.ext + 1 + r.name <= r.size
    /\ WalkArgs(r.mem, base, r.ext)

-----------------------------------------------------------------------------
(* utf16_to_utf_mixed: ASCII as it is, then a mark and the rest as UTF-16;    *)
(* hash_utf_mixed_as_utf16 takes it apart again                              *)
Mixed(t)   == IF t.wide + t.pairs = 0 THEN t.ascii ELSE t.ascii + 1 + 2 * (t.wide + 2 * t.pairs)
Unmixed(t) == IF t.wide + t.pairs = 0 THEN 2 * t.ascii ELSE 2 * t.ascii + (Mixed(t) - t.ascii - 1)

(* log_impl, one argument: bytes written, bytes passed, value and text found *)
Vlqs == {"int16", "uint16", "int32", "uint32", "int64", "uint64"}
Reencoded(mem, at) ==
    LET tag  == TagAt(mem, at)
        val  == ValueAt(mem, at + (IF tag \in Tags4 THEN 2 ELSE 4))
        step == IF tag \in Tags4 THEN 4 ELSE IF tag \in Tags8 THEN 8 ELSE 12
        n    == mem.size[at + 4]
        t    == mem.text[at + 8]
        pre  == EncodeLength(8, (n * 3) \div 2 + 1)
        num(out)  == [out |-> out, step |-> step, got |-> [tag |-> tag, v |-> val, t |-> NoText]]
        text(out) == [out |-> out, step |-> 8 + Align4(n), got |-> [tag |-> tag, v |-> 0, t |-> t]]
    IN  CASE tag = "null"                 -> [num(1) EXCEPT !.got.v = 0]
          [] tag = "int8"                 -> num(1 + 1)
          [] tag = "float"                -> num(1 + 4)
          [] tag \in {"pointer", "double"} -> num(1 + 8)
          [] tag \in Vlqs                 -> num(1 + val)
          [] tag = "utf8"                 -> text(1 + EncodeLength(8, n) + n)
          [] tag = "utf16"                -> text(1 + pre + Mixed(t))

(* the loop over the arguments; on a tag it does not know it never moves on  *)
Unknown(mem, at) == TagAt(mem, at) = Garbage \/ (TagAt(mem, at) \in {"utf8", "utf16"} /\ ~HasText(mem, at))
RECURSIVE Reencode(_, _, _, _)
Reencode(mem, at, end, acc) ==
    IF at >= end \/ Unknown(mem, at) THEN [acc EXCEPT !.at = at]
    ELSE LET r == Reencoded(mem, at)
         IN  Reencode(mem, at + r.step, end, [acc EXCEPT !.out = @ + r.out, !.got = Append(@, r.got)])

(* mutant of MinHeader: room for the largest size *)
MinHeader_largest(n) == EncodeLength(8, n)

(* get_vlq_min_bytes_length_of_item_header *)
MinHeader(n) == IF EncodeLength(8, n) > 1 THEN EncodeLength(8, n) - 1 ELSE 1

(* log_impl: the entry's item.  Its size is written in front of it, in one    *)
(* byte more than set aside when the first byte can be shared with the type. *)
Item(r, off, fi, ti) ==
    LET base == HeaderSize + Align4(r.fmt)
        raw  == r.ext - base
        max  == 15 + 2 * raw
        room == MinHeader(max)
        re   == Reencode(r.mem, base, r.ext, [at |-> 0, out |-> 0, got |-> <<>>])
        body == off + fi + ti + re.out
        size == vlq_encode(8, body)
    IN  [max |-> max, room |-> room, body |-> body, got |-> re.got, read |-> re.at - base, raw |-> raw,
         head |-> IF Len(size) = room THEN <<128>> \o size
                  ELSE [size EXCEPT ![1] = IF @ < 128 THEN @ + 128 ELSE @]]

(* read_item_data: where the body starts and how long it is.  The length is a *)
(* uint32_t; sizes here stay below 2^24.                                     *)
read_item_data(head) ==
    LET shared == head[1] % 128 # 0
        s      == IF shared THEN [head EXCEPT ![1] = @ % 128] ELSE Tail(head)
        d      == vlq_decode(8, s, 3)
    IN  [type |-> head[1] \div 128, body |-> d[2], start |-> d[1] + (IF shared THEN 0 ELSE 1)]
-----------------------------------------------------------------------------
NoCode == [n |-> 0, v |-> 0, bytes |-> <<>>]
NoRec  == [st |-> "none"]
RecInit == code = NoCode /\ rec = NoRec

encode_value(v, n) == code' = [n |-> n, v |-> v, bytes |-> vlq_encode(ByteBits, v)] /\ UNCHANGED rec

do_log(fmt, name, args) ==
    rec' = [st |-> "raw", args |-> args, raw |-> Written(fmt, name, args)] /\ UNCHANGED code

write_log_entry(off, fi, ti) ==
    /\ rec.st = "raw"
    /\ rec' = [st |-> "item", args |-> rec.args, raw |-> rec.raw, item |-> Item(rec.raw, off, fi, ti)]
    /\ UNCHANGED code

RecNext ==
    \/ code = NoCode /\ rec = NoRec /\ \E n \in WordBytes : \E v \in 0 .. 2^(ByteBits * n) - 1 : encode_value(v, n)
    \/ /\ code = NoCode /\ rec = NoRec
       /\ \E fmt \in FormatSizes, name \in NameSizes, k \in 0 .. MaxArgs :
             \E args \in [1 .. k -> Arguments] : do_log(fmt, name, args)
    \/ \E off \in OffsetSizes, fi, ti \in IndexSizes : write_log_entry(off, fi, ti)
-----------------------------------------------------------------------------
(* Every value of every width is read back from its VLQ in the length its     *)
(* first byte tells, no shorter type takes a longer form than it can hold,   *)
(* a greater value never has a shorter form, and every signed value comes    *)
(* back from its zigzag (vlq_encode, vlq_decode, zigzag).                    *)
NumbersReadBack ==
    code # NoCode =>
        LET b == ByteBits n == code.n v == code.v w == b * n
            s == IF v < 2^(w - 1) THEN v ELSE v - 2^w
        IN  /\ vlq_decode(b, code.bytes, n) = <<Len(code.bytes), v>>
            /\ \A i \in DOMAIN code.bytes : code.bytes[i] \in 0 .. 2^b - 1
            /\ v > 0 => Len(vlq_encode(b, v - 1)) <= Len(code.bytes)
            /\ \A k \in WordBytes : k + 1 < Len(code.bytes) => vlq_decode(b, code.bytes, k)[1] = 0
            /\ unzigzag(w, zigzag(w, s)) = s /\ zigzag(w, s) \in 0 .. 2^w - 1

(* what a reader should find of an argument *)
Expected(a) ==
    [tag |-> TagOf(a),
     v   |-> IF IsText(a) \/ TagOf(a) = "null" THEN 0 ELSE IF TagOf(a) = "pointer" THEN 8 ELSE a.vlq,
     t   |-> IF IsText(a) THEN TextOf(a) ELSE NoText]

(* A record is valid and every argument is found where it was put, whatever   *)
(* comes before it; the item made of it stays within the space set aside,    *)
(* its size fits the bytes left in front of it and is read back from them,   *)
(* and the texts in it can be taken apart again (fill_arguments, validate,   *)
(* log_impl, get_vlq_min_bytes_length_of_item_header, read_item_data).       *)
RecordReadBack ==
    /\ rec.st # "none" => validate(rec.raw)
    /\ rec.st = "item" =>
          LET i == rec.item h == read_item_data(i.head) IN
          /\ i.read = i.raw /\ i.got = [k \in DOMAIN rec.args |-> Expected(rec.args[k])]
          /\ i.body <= i.max
          /\ h = [type |-> 1, body |-> i.body, start |-> 1 + i.room] /\ Len(i.head) = 1 + i.room
          /\ \A k \in DOMAIN rec.args : TagOf(rec.args[k]) = "utf16" =>
                LET n == MeasureBytes(rec.args[k]) t == TextOf(rec.args[k])
                IN  /\ Unmixed(t) = n
                    /\ EncodeLength(8, (n * 3) \div 2 + 1) - EncodeLength(8, Mixed(t)) \in {0, 1}

(* Numbers and whole records come back from their formats as they went in    *)
(* (NumbersReadBack, RecordReadBack).                                        *)
FormatsReadBack == NumbersReadBack /\ RecordReadBack
=============================================================================
