-------------------------------- MODULE MCLdf --------------------------------
(***************************************************************************)
(* Files for the parser: whole ones in every layout, with a meaningless    *)
(* line put in anywhere, cut off after any line, and damaged ones.         *)
(***************************************************************************)
EXTENDS Ldf, TLC

MCNumeral ==
    "0" :> 0 @@ "1" :> 1 @@ "4" :> 4 @@ "8" :> 8 @@ "10" :> 10 @@ "0x10" :> 16 @@ "0x20" :> 32
    @@ "64" :> 64 @@ "128" :> 128 @@ "300" :> 300 @@ "-1" :> -1
\* The same texts and a float.
MCUnsigned == [t \in DOMAIN MCNumeral \cup {"10.5"} |->
                IF t = "10.5" THEN 10 ELSE IF MCNumeral[t] < 0 THEN 0 ELSE MCNumeral[t]]
Text(n) == CHOOSE t \in DOMAIN MCNumeral : MCNumeral[t] = n

\* Lines, by what the parser looks at.
Blank == [key |-> "", text |-> "?", head |-> "?", colon |-> FALSE, label |-> "", parts |-> <<"?">>,
          words |-> <<"?">>, brace |-> ""]
Labelled(l, ps) == [Blank EXCEPT !.colon = TRUE, !.label = l, !.parts = ps, !.head = l \o " : " \o ps[1],
                                 !.text = l \o " : " \o ps[1], !.words = <<l, ":", ps[1]>>]
Close == [Blank EXCEPT !.text = "}", !.head = "}", !.parts = <<"}">>, !.brace = "close"]
Brace == [Blank EXCEPT !.text = "", !.head = "{", !.parts = <<"{">>, !.brace = "open"]
Version(v) == [Blank EXCEPT !.key = "LIN_protocol_version", !.parts = <<v>>]
Master(n) == [Labelled("Master", <<n, "5 ms", "0.1 ms">>) EXCEPT !.key = "Master:"]
Slaves(ns) == [Labelled("Slaves", IF ns = <<>> THEN <<"">> ELSE ns) EXCEPT !.key = "Slaves:"]
SignalLine(n, w) == Labelled(n, <<Text(w), "0", "ECU", "Seat">>)
RefLine(n, o) == [Blank EXCEPT !.head = n, !.text = n, !.parts = <<n, Text(o)>>, !.words = <<n, Text(o)>>]
FrameLine(n, id, len) == [Labelled(n, <<Text(id), "ECU", Text(len)>>) EXCEPT !.brace = "end"]
TableLine(n) == [Blank EXCEPT !.text = n, !.head = n, !.parts = <<n>>, !.words = <<n>>, !.brace = "end"]
Delay(ms) == IF ms = 10 THEN "10.5" ELSE Text(ms)
EntryLine(n, ms) == [Blank EXCEPT !.words = <<n, "delay", Delay(ms), "ms">>]
Assign == [Blank EXCEPT !.key = "AssignFrameId", !.words = <<"AssignFrameId", "delay", "10">>]

\* A keyword with its brace beside it, or on the next line.
Section(k, own) ==
    LET l == [Blank EXCEPT !.key = k, !.text = k, !.brace = "end"]
    IN  IF own THEN <<[l EXCEPT !.brace = ""], Brace>> ELSE <<l>>

\* The file that declares d, its tables after its frames or before them; a
\* table before the frames it names comes out empty.
Lines(d, own, tablesFirst) ==
    LET nodes == Section("Nodes", own) \o <<Master(d.master), Slaves(d.slaves), Close>>
        signals == Section("Signals", own)
            \o SetToSeq({SignalLine(s, d.signals[s].bit_width) : s \in DOMAIN d.signals}) \o <<Close>>
        Body(f) == <<FrameLine(f.name, f.id, f.length)>>
            \o [i \in DOMAIN f.signals |-> RefLine(f.signals[i].name, f.signals[i].bit_offset)] \o <<Close>>
        frames == Section("Frames", own)
            \o FlattenSeq([i \in 1 .. Cardinality(DOMAIN d.frames) |->
                    Body(d.frames[SetToSeq(DOMAIN d.frames)[i]])]) \o <<Close>>
        Entry(e) == EntryLine(d.frames[e.id].name, e.delay_ms)
        Table(t) == <<TableLine(t), Assign>>
            \o [i \in DOMAIN d.schedules[t] |-> Entry(d.schedules[t][i])] \o <<Close>>
        tables == Section("Schedule_tables", own)
            \o FlattenSeq([i \in 1 .. Cardinality(DOMAIN d.schedules) |->
                    Table(SetToSeq(DOMAIN d.schedules)[i])]) \o <<Close>>
    IN  <<Version(d.header["LIN_protocol_version"])>> \o
        IF tablesFirst THEN tables \o nodes \o signals \o frames
                       ELSE nodes \o signals \o frames \o tables

Meaning(d, tablesFirst) ==
    IF tablesFirst THEN [d EXCEPT !.schedules = [t \in DOMAIN @ |-> <<>>]] ELSE d

Ref(n, o) == [name |-> n, bit_offset |-> o]
Sig(w) == [bit_width |-> w, init_value |-> 0]
\* A signal across two bytes, one past the payload and past 64 bits, one
\* that is never declared, one placed twice.
Declared == {
    [header |-> "LIN_protocol_version" :> "2.1", master |-> "ECU", slaves |-> <<"Seat", "Mirror">>,
     signals |-> "Pos" :> Sig(8) @@ "Huge" :> Sig(128),
     frames |-> 16 :> [name |-> "A", id |-> 16, length |-> 1, signals |-> <<Ref("Pos", 4), Ref("Huge", 1)>>]
             @@ 32 :> [name |-> "B", id |-> 32, length |-> 8, signals |-> <<Ref("Pos", 0), Ref("Lost", 8)>>],
     schedules |-> "T" :> <<[id |-> 16, delay_ms |-> 10], [id |-> 32, delay_ms |-> 4]>>],
    [header |-> "LIN_protocol_version" :> "1.3", master |-> "M", slaves |-> <<>>,
     signals |-> "Pos" :> Sig(4),
     frames |-> 0 :> [name |-> "A", id |-> 0, length |-> 8, signals |-> <<Ref("Pos", 8), Ref("Pos", 10)>>],
     schedules |-> "T" :> <<>> @@ "U" :> <<[id |-> 0, delay_ms |-> 0]>>]}

Sources == Declared \X BOOLEAN \X BOOLEAN
Written(s) == Lines(s[1], s[2], s[3])

\* The own-line brace of Schedule_tables.  A line put in before it leaves it to
\* the section, where it opens a table without a name, and the head of the first
\* table declared means nothing within that one.
TablesBrace(ls, i) == ls[i].brace = "open" /\ ls[i - 1].key = "Schedule_tables"

FirstUnnamed(d) ==
    LET first == SetToSeq(DOMAIN d.schedules)[1]
    IN  [d EXCEPT !.schedules = [t \in {NoName} \cup (DOMAIN @ \ {first}) |->
                                    IF t = NoName THEN @[first] ELSE @[t]]]

\* A meaningless line before any line.
WithBlank(s, i) ==
    LET d == Meaning(s[1], s[3])
    IN  [lines |-> InsertAt(Written(s), i, Blank),
         declares |-> {IF TablesBrace(Written(s), i) THEN FirstUnnamed(d) ELSE d},
         cut |-> FALSE]
Whole == UNION {{WithBlank(s, i) : i \in DOMAIN Written(s)} : s \in Sources}

Cut == UNION {{[lines |-> SubSeq(Written(s), 1, i), declares |-> {Meaning(s[1], s[3])}, cut |-> TRUE] :
                i \in 0 .. Len(Written(s))} : s \in Sources}

\* One line lost, exchanged with the next, or replaced: by any line of the
\* file, by a frame with a bad id or one out of range, by a frame of a name
\* that is taken or of none, by a frame on one line, by a signal placed before
\* the first bit, by a brace alone or with text behind it.
Strange == {FrameLine("A", 300, 8), FrameLine("A", 64, 8), FrameLine("B", -1, 8),
            [FrameLine("C", 1, 1) EXCEPT !.parts = <<"x", "ECU", "1">>],
            [FrameLine("D", 1, 1) EXCEPT !.brace = "inside"], FrameLine("", 1, 1),
            RefLine("Pos", -1), Brace, [Blank EXCEPT !.text = "{ ?", !.head = "{ ?", !.brace = "start"]}
Damaged ==
    LET base == CHOOSE d \in Declared : d.master = "ECU"
        t == Lines(base, FALSE, FALSE)
        lost == {RemoveAt(t, i) : i \in DOMAIN t}
        swapped == {[t EXCEPT ![i] = t[i + 1], ![i + 1] = t[i]] : i \in 1 .. Len(t) - 1}
        replaced == {[t EXCEPT ![i] = l] : i \in DOMAIN t, l \in ToSet(t) \cup Strange}
    IN  {[lines |-> ls, declares |-> {}, cut |-> TRUE] : ls \in lost \cup swapped \cup replaced}

MCFiles == Whole \cup Cut \cup Damaged
MCPayloads == {<<>>, <<{0, 2, 7}, {1, 3}>>, <<{4, 5, 6, 7}>>}
=============================================================================
