------------------------------- MODULE Layout -------------------------------
(***************************************************************************)
(* How a line is made of an entry (layout.cpp, time_zone.cpp): which       *)
(* arguments go to which fields of the format, found again in the record   *)
(* by offsets of the layout's own, and the two things it remembers between *)
(* lines, the text of the last time and the names of threads.              *)
(*                                                                         *)
(* A format is a sequence of characters of which only braces are told      *)
(* apart; what a field looks like (digits, padding, the conversion to      *)
(* UTF-8) is left out, and so is the buffer the line is built in.          *)
(***************************************************************************)
EXTENDS Record

CONSTANTS
    Outputs,        \* appenders that share the layout of their log
    Threads,        \* ids of threads that wrote the entries
    Names,          \* names of threads
    Epochs,         \* times of entries
    ZoneConfigs,    \* what an appender's "time_zone" may be, see ZoneName
    FormatChars,    \* "{", "}" and others
    MaxFormat,      \* bound on the length of a format
    ScanLimit,      \* characters in which a field must end; 20 in the code
    FieldArgs,      \* arguments of entries that are laid out
    MaxLines,       \* bound on the lines laid out
    MaxResets       \* bound on the changes of the configuration

ASSUME LayoutAssumption ==
    /\ {"{", "}"} \subseteq FormatChars /\ ScanLimit \in Nat \ {0}
    /\ 0 \notin Epochs /\ "" \notin Names

VARIABLES
    lay,    \* the time zones with their caches, the names of threads
    line    \* the last line laid out and the entry it was made of
layvars == <<lay, line>>
-----------------------------------------------------------------------------
(* the switch over the tag: what is shown and how far the cursor moves *)
ArgumentAt(mem, at) ==
    LET tag == TagAt(mem, at)
        num(step, off) == [step |-> step, got |-> [tag |-> tag, v |-> ValueAt(mem, at + off), t |-> NoText]]
        n   == mem.size[at + 4]
    IN  CASE tag = "null"    -> [step |-> 4, got |-> [tag |-> tag, v |-> 0, t |-> NoText]]
          [] tag \in Tags4 \ {"null"} -> num(4, 2)
          [] tag \in Tags8   -> num(8, 4)
          [] tag \in Tags12  -> num(12, 4)
          [] OTHER           -> [step |-> 8 + Align4(n), got |-> [tag |-> tag, v |-> 0, t |-> mem.text[at + 8]]]

(* where the field ends whose text begins at k, 0 if it is none; in a UTF-16   *)
(* format two opening braces belong to its text                              *)
RECURSIVE CloseAt(_, _, _, _)
CloseAt(f, wide, k, last) ==
    IF k > last \/ k > Len(f) THEN 0
    ELSE CASE f[k] = "}" -> k
           [] f[k] = "{" -> IF wide /\ k < Len(f) /\ f[k + 1] = "{" THEN CloseAt(f, wide, k + 2, last) ELSE 0
           [] OTHER      -> CloseAt(f, wide, k + 1, last)

(* One piece of the format at s.i: a character, a pair of closing braces, or a *)
(* field, "@", with the argument at s.at.  A tag that nobody wrote shows      *)
(* nothing and does not move the cursor.                                     *)
Piece(r, f, wide, s) ==
    LET close == CloseAt(f, wide, s.i + 1, s.i + ScanLimit)
        arg   == ArgumentAt(r.mem, s.at)
    IN  IF f[s.i] = "{" /\ s.at < r.ext /\ close # 0
        THEN IF Unknown(r.mem, s.at) THEN [s EXCEPT !.i = close + 1, !.text = Append(@, "@")]
             ELSE [i |-> close + 1, at |-> s.at + arg.step, text |-> Append(s.text, "@"), got |-> Append(s.got, arg.got)]
        ELSE [s EXCEPT !.i = @ + (IF f[s.i] = "}" /\ s.i < Len(f) /\ f[s.i + 1] = "}" THEN 2 ELSE 1),
                       !.text = Append(@, f[s.i])]

RECURSIVE Pieces(_, _, _, _)
Pieces(r, f, wide, s) == IF s.i > Len(f) THEN s ELSE Pieces(r, f, wide, Piece(r, f, wide, s))

Begin(r) == [i |-> 1, at |-> HeaderSize + Align4(r.fmt), text |-> <<>>, got |-> <<>>]

(* without arguments the format is copied as it is, but only if it is UTF-8 *)
python_style_format_content_utf8(r, f) ==
    IF Begin(r).at = r.ext THEN [Begin(r) EXCEPT !.text = f] ELSE Pieces(r, f, FALSE, Begin(r))

python_style_format_content_utf16(r, f) == Pieces(r, f, TRUE, Begin(r))

python_style_format_content(r, f, wide) ==
    IF wide THEN python_style_format_content_utf16(r, f) ELSE python_style_format_content_utf8(r, f)
-----------------------------------------------------------------------------
NoTime == [zone |-> "", epoch |-> 0]

(* parse_by_string, and reset alone when the configuration has no such text: a *)
(* text it does not understand means local time                              *)
ZoneName(z) == CASE z = "absent" -> "" [] z \in {"local", "bad"} -> "local" [] OTHER -> z

(* Mutant of reset: the cached time stays. *)
ZoneReset_cached(zone, z) == [zone EXCEPT !.name = ZoneName(z)]

(* TimeZone::reset and parse_by_string *)
ZoneReset(zone, z) == [name |-> ZoneName(z), last |-> 0, text |-> NoTime]

(* refresh_time_string_cache *)
refresh_time_string_cache(zone, epoch) ==
    IF epoch = zone.last THEN zone
    ELSE [zone EXCEPT !.last = epoch, !.text = [zone |-> zone.name, epoch |-> epoch]]

(* insert_thread_info: a thread keeps the name it was first seen with *)
insert_thread_info(names, e) == IF names[e.thread] = "" THEN [names EXCEPT ![e.thread] = e.name] ELSE names
-----------------------------------------------------------------------------
NoLine == [st |-> "none"]

LayInit == /\ lay = [zone  |-> [o \in Outputs |-> ZoneReset([name |-> "", last |-> 0, text |-> NoTime], "local")],
                     names |-> [t \in Threads |-> ""],
                     first |-> [t \in Threads |-> ""], lines |-> 0, resets |-> 0]
           /\ line = NoLine

(* do_layout; its callers have checked that the log has the entry's level and  *)
(* category                                                                  *)
do_layout(o, e) ==
    LET zone  == refresh_time_string_cache(lay.zone[o], e.epoch)
        names == insert_thread_info(lay.names, e)
        body  == python_style_format_content(Written(Len(e.fmt) * (IF e.wide THEN 2 ELSE 1), 0, e.args), e.fmt, e.wide)
    IN  /\ lay.lines < MaxLines
        /\ lay' = [lay EXCEPT !.zone[o] = zone, !.names = names, !.lines = @ + 1,
                              !.first[e.thread] = IF @ = "" THEN e.name ELSE @]
        /\ line' = [st |-> "finished", e |-> e, zone |-> zone.name, time |-> zone.text,
                    name |-> names[e.thread], text |-> body.text, got |-> body.got]

(* appender_base::reset with another "time_zone" *)
reset_appender(o, z) ==
    /\ lay.resets < MaxResets /\ line' = NoLine
    /\ lay' = [lay EXCEPT !.zone[o] = ZoneReset(@, z), !.resets = @ + 1]

AllFormats == UNION {[1 .. n -> FormatChars] : n \in 0 .. MaxFormat}
AllArgs    == UNION {[1 .. n -> FieldArgs] : n \in 0 .. MaxArgs}
Plain(thread, name, epoch) ==
    [thread |-> thread, name |-> name, epoch |-> epoch, fmt |-> <<>>, wide |-> FALSE, args |-> <<>>]

(* Formats and arguments leave nothing behind for later lines: they vary in   *)
(* behaviours of one line, and the other parts of an entry in longer ones.   *)
LayNext ==
    \/ /\ IF line = NoLine THEN TRUE ELSE line.e.fmt = <<>> /\ line.e.args = <<>>
       /\ \E o \in Outputs, t \in Threads, n \in Names, e \in Epochs : do_layout(o, Plain(t, n, e))
    \/ /\ lay.lines + lay.resets = 0
       /\ \E o \in Outputs, t \in Threads, f \in AllFormats, a \in AllArgs, wide \in BOOLEAN :
             LET p == Plain(t, CHOOSE n \in Names : TRUE, CHOOSE e \in Epochs : TRUE)
             IN  do_layout(o, [p EXCEPT !.fmt = f, !.wide = wide, !.args = a])
    \/ \E o \in Outputs, z \in ZoneConfigs : reset_appender(o, z)
-----------------------------------------------------------------------------
(* the fields of a format: an opening brace, and a closing one near enough    *)
(* with none between but pairs of opening ones if the format is UTF-16       *)
Run(f, p, q)   == \A k \in p .. q : f[k] = "{"
IsField(f, wide, p, q) ==
    /\ f[p] = "{" /\ f[q] = "}" /\ p < q /\ q - p <= ScanLimit
    /\ \A k \in p + 1 .. q - 1 : f[k] # "}" /\ (f[k] = "{" => wide)
    /\ \A i, j \in p + 1 .. q - 1 :
          i <= j /\ Run(f, i, j) /\ (i - 1 = p \/ f[i - 1] # "{") /\ f[j + 1] # "{" => (j - i) % 2 = 1
Fields(f, wide) ==
    LET all == {x \in (1 .. Len(f)) \X (1 .. Len(f)) : IsField(f, wide, x[1], x[2])}
    IN  {x \in all : \A y \in all : y[1] < x[1] => y[2] < x[1]}

(* A line shows the time of its entry in the zone of its output, whatever was *)
(* cached when the zone changed, and the thread's first name; the arguments  *)
(* go to the fields of the format in their order, each as it was passed and  *)
(* none is looked for past the last, and no character of the format gets     *)
(* lost outside the fields but closing braces (do_layout, insert_time,       *)
(* insert_thread_info, python_style_format_content).                         *)
LayoutExact ==
    line # NoLine =>
        /\ line.time = [zone |-> line.zone, epoch |-> line.e.epoch]
        /\ line.name = lay.first[line.e.thread]
        /\ LET f     == line.e.fmt
               all   == Fields(f, line.e.wide)
               n     == IF Cardinality(all) < Len(line.e.args) THEN Cardinality(all) ELSE Len(line.e.args)
               shown == {x \in all : Cardinality({y \in all : y[1] < x[1]}) < n}
               mark(p) == IF \E x \in shown : p = x[1] THEN "@"
                          ELSE IF \E x \in shown : p \in x[1] .. x[2] THEN "}" ELSE f[p]
               NotClosing(c) == c # "}"
           IN  /\ line.got = [k \in 1 .. n |-> Expected(line.e.args[k])]
               /\ SelectSeq(line.text, NotClosing) = SelectSeq([p \in DOMAIN f |-> mark(p)], NotClosing)
=============================================================================
