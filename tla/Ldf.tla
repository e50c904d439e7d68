--------------------------------- MODULE Ldf ---------------------------------
(***************************************************************************)
(* The LDF parser and Db::decode, src/ldf/mod.rs.                          *)
(*                                                                         *)
(* A line is what the parser's tests see of it: the keyword it starts      *)
(* with, its text without a final brace, the text before its first comma,  *)
(* whether it has a colon, the label before the first one, the parts       *)
(* between the commas after that, its words, and where its brace is: alone *)
(* or at both ends ("open"), at the start or the end only, or inside.      *)
(* Comments, blank lines and the trimming of blanks and semicolons are     *)
(* left out, and so are publishers and subscribers.  A byte is the set of  *)
(* its bits that are 1, and so is a decoded value.                         *)
(***************************************************************************)
EXTENDS Integers, SequencesExt

CONSTANTS
    Files,          \* the inputs: lines, and for the properties what they declare
    Numeral,        \* what parse_int makes of a text, defined on the texts it accepts
    Unsigned,       \* what parse_uint makes of one, floats too: a natural number
    Usize,          \* the modulus of usize: 2^64 in the code
    U32,            \* the modulus of u32
    Payloads        \* the payloads given to decode, sequences of bytes

Line == [key : STRING, text : STRING, head : STRING, colon : BOOLEAN,
         label : STRING, parts : Seq(STRING), words : Seq(STRING),
         brace : {"", "open", "start", "close", "end", "inside"}]

ASSUME LdfAssumption ==
    /\ \A f \in Files : f.lines \in Seq(Line)
    /\ \A t \in DOMAIN Numeral : Numeral[t] \in Int
    /\ \A t \in DOMAIN Unsigned : Unsigned[t] \in Nat
    /\ Usize \in Nat \ {0} /\ U32 \in Nat \ {0}
    /\ \A d \in Payloads : d \in Seq(SUBSET (0 .. 7))

VARIABLES
    file,           \* the input
    pos,            \* LdfParser.pos, from 1
    section,        \* the function, and within it the loop, the parser is in
    frame,          \* the frame whose body is being read
    table,          \* the schedule table whose body is being read
    db,             \* the Db
    decoded         \* the answer of a decode, none or one

vars == <<file, pos, section, frame, table, db, decoded>>

LIN_MAX_ID == 63    \* as in frame.rs
Versions == {"LIN_protocol_version", "LIN_language_version", "LIN_speed"}
SectionKeys == {"Nodes", "Signals", "Frames", "Schedule_tables"}

Put(f, k, v) == [x \in DOMAIN f \cup {k} |-> IF x = k THEN v ELSE f[x]]

\* parse_int(..).unwrap_or(0) and parse_uint(..).unwrap_or(0), which takes
\* decimals for floats: "10.5" is 10, and "-1" is 0.
Int0(text) == IF text \in DOMAIN Numeral THEN Numeral[text] ELSE 0
Uint0(text) == IF text \in DOMAIN Unsigned THEN Unsigned[text] ELSE 0

AsU8(n) == n % 256

NoName == ""        \* no frame or table has been read
EmptyFrame == [name |-> NoName, id |-> 0, length |-> 0, signals |-> <<>>]
EmptyTable == [name |-> NoName, entries |-> <<>>]
EmptyDb == [header |-> <<>>, master |-> "", slaves |-> <<>>,
            frames |-> <<>>, signals |-> <<>>, schedules |-> <<>>]

Init ==
    /\ file \in Files
    /\ pos = 1
    /\ section = "top"
    /\ frame = EmptyFrame
    /\ table = EmptyTable
    /\ db = EmptyDb
    /\ decoded = {}

-----------------------------------------------------------------------------
AtEnd == pos > Len(file.lines)
ln == file.lines[pos]
Closes == ~AtEnd /\ ln.brace = "close"

\* A loop looks at a line of its section that does not end the section.
Reads(s) == section = s /\ ~AtEnd /\ ~Closes

\* The next line starts with a brace.
BraceNext == pos < Len(file.lines) /\ file.lines[pos + 1].brace \in {"open", "start"}

\* Faulty variant: the line after the keyword always goes with it.
OpeningAlways == 2

\* Faulty variant: the keyword line is left to the section's own loop.
OpeningKept == IF BraceNext THEN 1 ELSE 0

\* A section's keyword line, and the next if it starts with a brace.
Opening == IF BraceNext THEN 2 ELSE 1

\* Faulty variant: a line that means nothing is looked at again.
SkipStays == pos' = pos

Skip == pos' = pos + 1

-----------------------------------------------------------------------------
(***************************************************************************)
(* parse_top                                                               *)
(***************************************************************************)
ReadVersion ==
    /\ section = "top" /\ ~AtEnd /\ ln.key \in Versions
    /\ db' = [db EXCEPT !.header = Put(@, ln.key, ln.parts[1])]
    /\ pos' = pos + 1
    /\ UNCHANGED <<file, section, frame, table, decoded>>

EnterSection ==
    /\ section = "top" /\ ~AtEnd /\ ln.key \in SectionKeys
    /\ section' = ln.key
    /\ pos' = pos + Opening
    /\ UNCHANGED <<file, frame, table, db, decoded>>

SkipTop ==
    /\ section = "top" /\ ~AtEnd /\ ln.key \notin Versions \cup SectionKeys
    /\ Skip
    /\ UNCHANGED <<file, section, frame, table, db, decoded>>

\* A line that is "}" ends any section.
CloseSection ==
    /\ section \in SectionKeys /\ Closes
    /\ section' = "top"
    /\ pos' = pos + 1
    /\ UNCHANGED <<file, frame, table, db, decoded>>

\* The input ends: every loop ends with it.
Finish ==
    /\ section \in SectionKeys \cup {"top"} /\ AtEnd
    /\ section' = "done"
    /\ UNCHANGED <<file, pos, frame, table, db, decoded>>

-----------------------------------------------------------------------------
(***************************************************************************)
(* parse_nodes and parse_signals                                           *)
(***************************************************************************)
ReadNode ==
    /\ Reads("Nodes")
    /\ db' = CASE ln.key = "Master:" -> [db EXCEPT !.master = ln.parts[1]]
               [] ln.key = "Slaves:" ->
                    [db EXCEPT !.slaves = @ \o SelectSeq(ln.parts, LAMBDA s : s # "")]
               [] OTHER -> db
    /\ pos' = pos + 1
    /\ UNCHANGED <<file, section, frame, table, decoded>>

ReadSignal ==
    /\ Reads("Signals")
    /\ db' = IF ln.colon /\ Len(ln.parts) >= 3
             THEN [db EXCEPT !.signals =
                    Put(@, ln.label, [bit_width |-> Int0(ln.parts[1]) % Usize,
                                      init_value |-> Uint0(ln.parts[2])])]
             ELSE db
    /\ pos' = pos + 1
    /\ UNCHANGED <<file, section, frame, table, decoded>>

-----------------------------------------------------------------------------
(***************************************************************************)
(* parse_frames                                                            *)
(***************************************************************************)
\* parse_frame_header gives Some.
IsFrameHeader(l) ==
    l.colon /\ Len(l.parts) >= 3 /\ l.parts[1] \in DOMAIN Numeral

\* Faulty variant: the vector of the frame before is used again.
FrameHeaderKept(l) ==
    [name |-> l.label, id |-> AsU8(Numeral[l.parts[1]]), length |-> Int0(l.parts[3]) % Usize,
     signals |-> frame.signals]

parse_frame_header(l) ==
    [name |-> l.label, id |-> AsU8(Numeral[l.parts[1]]), length |-> Int0(l.parts[3]) % Usize,
     signals |-> <<>>]

\* Faulty variant: the first line of the body goes with the header.
OpenFrameTakesTwo ==
    /\ Reads("Frames") /\ ln.brace # ""
    /\ IF IsFrameHeader(ln)
       THEN frame' = parse_frame_header(ln) /\ section' = "frame"
       ELSE UNCHANGED <<frame, section>>
    /\ pos' = IF pos < Len(file.lines) THEN pos + 2 ELSE pos + 1
    /\ UNCHANGED <<file, table, db, decoded>>

\* A line with a brace: a frame, or one that is passed over, brace and all.
OpenFrame ==
    /\ Reads("Frames") /\ ln.brace # ""
    /\ IF IsFrameHeader(ln)
       THEN frame' = parse_frame_header(ln) /\ section' = "frame"
       ELSE UNCHANGED <<frame, section>>
    /\ pos' = pos + 1
    /\ UNCHANGED <<file, table, db, decoded>>

SkipInFrames ==
    /\ Reads("Frames") /\ ln.brace = ""
    /\ Skip
    /\ UNCHANGED <<file, section, frame, table, db, decoded>>

\* "signal, offset": what follows the first comma is the offset, a number
\* only when no other comma follows.
IsSignalRef(l) == Len(l.parts) >= 2

SignalRef(l) ==
    [name |-> l.head,
     bit_offset |-> (IF Len(l.parts) = 2 THEN Int0(l.parts[2]) ELSE 0) % Usize]

ReadSignalRef ==
    /\ Reads("frame")
    /\ frame' = IF IsSignalRef(ln) THEN [frame EXCEPT !.signals = Append(@, SignalRef(ln))]
                ELSE frame
    /\ pos' = pos + 1
    /\ UNCHANGED <<file, section, table, db, decoded>>

\* The body ends at its "}" or with the input: the frame is inserted, and
\* replaces another of its id.
CloseFrame ==
    /\ section = "frame" /\ (AtEnd \/ Closes)
    /\ db' = [db EXCEPT !.frames = Put(@, frame.id, frame)]
    /\ section' = "Frames"
    /\ pos' = IF AtEnd THEN pos ELSE pos + 1
    /\ UNCHANGED <<file, frame, table, decoded>>

-----------------------------------------------------------------------------
(***************************************************************************)
(* parse_schedule_tables                                                   *)
(***************************************************************************)
\* Faulty variant: the vector of the table before is used again.
OpenTableKept ==
    /\ Reads("Schedule_tables") /\ ln.brace \in {"open", "end"}
    /\ table' = [table EXCEPT !.name = ln.text]
    /\ section' = "table"
    /\ pos' = pos + 1
    /\ UNCHANGED <<file, frame, db, decoded>>

OpenTable ==
    /\ Reads("Schedule_tables") /\ ln.brace \in {"open", "end"}
    /\ table' = [name |-> ln.text, entries |-> <<>>]
    /\ section' = "table"
    /\ pos' = pos + 1
    /\ UNCHANGED <<file, frame, db, decoded>>

SkipInTables ==
    /\ Reads("Schedule_tables") /\ ln.brace \notin {"open", "end"}
    /\ Skip
    /\ UNCHANGED <<file, section, frame, table, db, decoded>>

\* frame_id_by_name looks through the frames read so far, in any order, and
\* answers 0xFF when none has the name.
frame_id_by_name(name) ==
    LET ids == {id \in DOMAIN db.frames : db.frames[id].name = name}
    IN  IF ids = {} THEN {255} ELSE ids

\* Faulty variant: the answer for an unknown name is an id like any other.
UsableAny(id) == TRUE

Usable(id) == id <= LIN_MAX_ID

\* "frame delay n ms": an entry, if the frame is known and its id is in range.
IsEntry(l) == l.key # "AssignFrameId" /\ Len(l.words) >= 3 /\ l.words[2] = "delay"

ReadEntry ==
    /\ Reads("table")
    /\ IF IsEntry(ln)
       THEN \E id \in frame_id_by_name(ln.words[1]) :
                table' = IF Usable(id)
                         THEN [table EXCEPT !.entries = Append(@,
                                [id |-> id, delay_ms |-> Uint0(ln.words[3]) % U32])]
                         ELSE table
       ELSE UNCHANGED table
    /\ pos' = pos + 1
    /\ UNCHANGED <<file, section, frame, db, decoded>>

CloseTable ==
    /\ section = "table" /\ (AtEnd \/ Closes)
    /\ db' = [db EXCEPT !.schedules = Put(@, table.name, table.entries)]
    /\ section' = "Schedule_tables"
    /\ pos' = IF AtEnd THEN pos ELSE pos + 1
    /\ UNCHANGED <<file, frame, table, decoded>>

-----------------------------------------------------------------------------
(***************************************************************************)
(* Db::decode                                                              *)
(***************************************************************************)
\* Faulty variant: the first bit of a byte is its highest.
BitOfHighFirst(data, k) == k \div 8 < Len(data) /\ 7 - (k % 8) \in data[k \div 8 + 1]

\* Bit k of the payload is there and 1.
BitOf(data, k) == k \div 8 < Len(data) /\ (k % 8) \in data[k \div 8 + 1]

\* The sum wraps at usize, as in a release build.
extract_bits(data, bit_offset, bit_width) ==
    {i \in 0 .. 63 : i < bit_width /\ BitOf(data, (bit_offset + i) % Usize)}

\* The signals of a frame the Db knows; of two references to one signal the
\* later stays.
LastRef(refs, s) == refs[CHOOSE i \in DOMAIN refs :
                            refs[i].name = s /\ \A j \in DOMAIN refs : refs[j].name = s => j <= i]
Values(refs, data) ==
    [s \in {refs[i].name : i \in DOMAIN refs} \cap DOMAIN db.signals |->
        extract_bits(data, LastRef(refs, s).bit_offset, db.signals[s].bit_width)]

\* None is the empty set.
decode(id, data) ==
    IF id \in DOMAIN db.frames THEN {Values(db.frames[id].signals, data)} ELSE {}

Decode ==
    /\ section = "done" /\ decoded = {}
    /\ \E id \in DOMAIN db.frames \cup {LIN_MAX_ID}, data \in Payloads :
        decoded' = {[id |-> id, data |-> data, result |-> decode(id, data)]}
    /\ UNCHANGED <<file, pos, section, frame, table, db>>

-----------------------------------------------------------------------------
ParseTop == ReadVersion \/ EnterSection \/ SkipTop \/ CloseSection \/ Finish
ParseFrames == OpenFrame \/ SkipInFrames \/ ReadSignalRef \/ CloseFrame
ParseTables == OpenTable \/ SkipInTables \/ ReadEntry \/ CloseTable
Parse == ParseTop \/ ReadNode \/ ReadSignal \/ ParseFrames \/ ParseTables

Next == Parse \/ Decode

Spec == Init /\ [][Next]_vars

\* parse runs to its end; nobody has to call decode.
FairSpec == Spec /\ WF_vars(Parse)

-----------------------------------------------------------------------------
SignalRefs == Seq([name : STRING, bit_offset : Nat])
Names == STRING \cup {NoName}
Entries == Seq([id : 0 .. 255, delay_ms : Nat])

\* The parser's place and what it has read: ids are bytes, offsets, widths and
\* delays natural numbers whatever the file says.
TypeOK ==
    /\ pos \in 1 .. Len(file.lines) + 1
    /\ section \in {"top", "frame", "table", "done"} \cup SectionKeys
    /\ frame \in [name : Names, id : 0 .. 255, length : Nat, signals : SignalRefs]
    /\ table \in [name : Names, entries : Entries]
    /\ \A s \in DOMAIN db.signals : db.signals[s] \in [bit_width : Nat, init_value : Nat]
    /\ \A id \in DOMAIN db.frames : db.frames[id].signals \in SignalRefs /\ id \in 0 .. 255

\* What a table names can be sent: every entry is the id of a frame of the
\* database, within the range a master accepts, however the file is damaged
\* and in whatever order its sections come (parse_schedule_tables).
SchedulesResolve ==
    \A t \in DOMAIN db.schedules : \A i \in DOMAIN db.schedules[t] :
        db.schedules[t][i].id \in DOMAIN db.frames /\ db.schedules[t][i].id <= LIN_MAX_ID

\* part is a function that agrees with whole as far as it goes.
Within(part, whole) == \A k \in DOMAIN part : k \in DOMAIN whole /\ part[k] = whole[k]

\* Partial data are data: at every moment, and so for a file cut off after any
\* line, the database holds only what the file declares, a frame's signals and
\* a table's entries in their order ("malformed input results in a partial Db"),
\* the one table apart that can lose its name (see NothingLost).
NothingInvented ==
    \A d \in file.declares :
        /\ Within(db.header, d.header) /\ Within(db.signals, d.signals)
        /\ db.master \in {"", d.master} /\ IsPrefix(db.slaves, d.slaves)
        /\ \A id \in DOMAIN db.frames :
            /\ id \in DOMAIN d.frames
            /\ [db.frames[id] EXCEPT !.signals = <<>>] = [d.frames[id] EXCEPT !.signals = <<>>]
            /\ IsPrefix(db.frames[id].signals, d.frames[id].signals)
        /\ \A t \in DOMAIN db.schedules :
            t \in DOMAIN d.schedules /\ IsPrefix(db.schedules[t], d.schedules[t])

\* A whole file, with a line that means nothing put into it and the braces of
\* its sections on lines of their own or not, gives the database it declares:
\* no line costs a declaration that is not its own.  In one place such a line
\* does harm: between Schedule_tables and a brace on its own line, which then
\* opens a table without a name.  There the first table of the file comes out
\* under that name, and nothing else is lost (ldf/mod.rs:399, 408).
NothingLost ==
    \A d \in file.declares : section = "done" /\ ~file.cut => db = d

\* The signal references in lines from .. to.
RefsIn(from, to) == {m \in from .. to : IsSignalRef(file.lines[m])}

\* f is what line i heads and the lines after it up to `to` say: its references
\* are theirs, all of them, each at its place.
IsBlock(f, i, to) ==
    /\ IsFrameHeader(file.lines[i])
    /\ f = [parse_frame_header(file.lines[i]) EXCEPT !.signals = f.signals]
    /\ Len(f.signals) = Cardinality(RefsIn(i + 1, to))
    /\ \A m \in RefsIn(i + 1, to) :
        f.signals[Cardinality(RefsIn(i + 1, m))] = SignalRef(file.lines[m])
    /\ \A m \in i + 1 .. to : file.lines[m].brace # "close"

\* However a file is damaged, each frame of the database is one block of it: a
\* header, and every reference from there to the first closing brace or the
\* end of the file, in order; never parts of two frames, and filed under an id
\* of one byte (parse_frames, ldf/mod.rs:366-391).
FramesWhole ==
    \A id \in DOMAIN db.frames : \E i \in DOMAIN file.lines : \E to \in i .. Len(file.lines) :
        /\ IsBlock(db.frames[id], i, to)
        /\ db.frames[id].id = id /\ id \in 0 .. 255
        /\ to < Len(file.lines) => file.lines[to + 1].brace = "close"

\* Entry e is what line l says of a frame: its delay, and the id in the header
\* above line i of a frame so named.
Says(l, e, i) ==
    /\ IsEntry(l) /\ e.delay_ms = Uint0(l.words[3]) % U32
    /\ \E h \in 1 .. i - 1 :
        /\ IsFrameHeader(file.lines[h]) /\ file.lines[h].label = l.words[1]
        /\ AsU8(Numeral[file.lines[h].parts[1]]) = e.id

\* Line i opens table t, and lines after it up to `to` say its entries, in order.
IsTable(t, entries, i, to) ==
    /\ file.lines[i].brace \in {"open", "end"} /\ file.lines[i].text = t
    /\ \E at \in [DOMAIN entries -> i + 1 .. to] :
        /\ \A j, k \in DOMAIN entries : j < k => at[j] < at[k]
        /\ \A k \in DOMAIN entries : Says(file.lines[at[k]], entries[k], i)
    /\ \A m \in i + 1 .. to : file.lines[m].brace # "close"

\* The same for the schedule tables: what a table sends, and when, is what lines
\* of its own block say, in their order, of frames headed above it, and never of
\* another table or twice (parse_schedule_tables, ldf/mod.rs:398-437).
TablesWhole ==
    \A t \in DOMAIN db.schedules : \E i \in DOMAIN file.lines : \E to \in i .. Len(file.lines) :
        /\ IsTable(t, db.schedules[t], i, to)
        /\ to < Len(file.lines) => file.lines[to + 1].brace = "close"

\* What is left to do: lines, and loops to leave.
Todo ==
    3 * (Len(file.lines) + 1 - pos)
        + (IF section = "done" THEN 0 ELSE IF section \in {"frame", "table"} THEN 2 ELSE 1)

\* Every step of the parser, on any line in any section, leaves less to do: no
\* loop can look at a line for ever.
ParserAdvances == [][Parse => Todo' < Todo /\ Todo' >= 0]_vars

\* The bits of a payload, numbered from the lowest of the first byte.
Flat(data) == UNION {{8 * (k - 1) + b : b \in data[k]} : k \in DOMAIN data}

\* r is one call of decode.  It answers for the frames of the database, and gives
\* each signal placed in the frame, and declared, the bits of the payload at its
\* place, lowest first.  Offsets so near the end of usize that the sum wraps are
\* left out.
Faithful(r) ==
    /\ r.result = {} <=> r.id \notin DOMAIN db.frames
    /\ \A v \in r.result : LET refs == db.frames[r.id].signals IN
        /\ DOMAIN v = {refs[i].name : i \in DOMAIN refs} \cap DOMAIN db.signals
        /\ \A s \in DOMAIN v : LET first == LastRef(refs, s).bit_offset IN
            first + 63 < Usize =>
                v[s] = {i \in 0 .. 63 : i < db.signals[s].bit_width /\ first + i \in Flat(r.data)}

\* What decode answers is in the payload, at the place the database gives it:
\* no bit past the payload, and none past 64 (Db::decode, extract_bits).
DecodeFaithful == \A r \in decoded : Faithful(r)

\* parse returns, whatever it is given.
Terminates == <>(section = "done")
=============================================================================
