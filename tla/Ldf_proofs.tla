------------------------------ MODULE Ldf_proofs ------------------------------
(***************************************************************************)
(* Theorems about the LDF parser, for any files and any reading of their   *)
(* numerals.                                                               *)
(***************************************************************************)
EXTENDS Ldf, FiniteSetTheorems, WellFoundedInduction, TLAPS

Fields == {"header", "master", "slaves", "frames", "signals", "schedules"}

\* db is a record with the fields of a Db.
IsDb(d) == d = [x \in Fields |-> d[x]]

\* What every action relies on.
PInv ==
    /\ TypeOK
    /\ file \in Files
    /\ IsDb(db)

(***************************************************************************)
(* The helpers.                                                            *)
(***************************************************************************)
\* A field of the Db is replaced, and the others are as they were.
LEMMA FieldSet ==
    ASSUME IsDb(db), NEW x \in Fields, NEW v, db' = [db EXCEPT ![x] = v]
    PROVE  IsDb(db)' /\ db'[x] = v /\ \A y \in Fields \ {x} : db'[y] = db[y]
  BY DEF IsDb

\* Numbers of a file are integers, and counts of a machine word natural numbers.
LEMMA NumberType ==
    ASSUME NEW text
    PROVE  /\ Int0(text) \in Int /\ Uint0(text) \in Nat
           /\ Int0(text) % Usize \in Nat /\ Uint0(text) % U32 \in Nat
           /\ text \in DOMAIN Numeral => AsU8(Numeral[text]) \in 0 .. 255
  <1>1. Int0(text) \in Int /\ Usize \in Nat \ {0} /\ U32 \in Nat \ {0}
    BY LdfAssumption DEF Int0
  <1>2. Uint0(text) \in Nat
    BY LdfAssumption DEF Uint0
  <1>3. Int0(text) % Usize \in Nat
    BY <1>1
  <1>4. Uint0(text) % U32 \in Nat
    BY <1>1, <1>2
  <1>5. ASSUME text \in DOMAIN Numeral PROVE AsU8(Numeral[text]) \in 0 .. 255
    <2>1. Numeral[text] \in Int
      BY <1>5, LdfAssumption
    <2>2. \A n \in Int : n % 256 \in 0 .. 255
      OBVIOUS
    <2>. QED
      BY <2>1, <2>2 DEF AsU8
  <1>. QED
    BY <1>1, <1>2, <1>3, <1>4, <1>5

\* An offset is a natural number, whatever the line says.
LEMMA SignalRefType ==
    ASSUME NEW l
    PROVE  SignalRef(l).name = l.head /\ SignalRef(l).bit_offset \in Nat
           /\ (l.head \in STRING => SignalRef(l) \in [name : STRING, bit_offset : Nat])
  <1>1. ((IF Len(l.parts) = 2 THEN Int0(l.parts[2]) ELSE 0) % Usize) \in Nat
    <2>1. CASE Len(l.parts) = 2
      BY <2>1, NumberType
    <2>2. CASE Len(l.parts) # 2
      <3>1. 0 % Usize \in Nat
        BY LdfAssumption
      <3>. QED
        BY <2>2, <3>1
    <2>. QED
      BY <2>1, <2>2
  <1>. QED
    BY <1>1 DEF SignalRef

\* The line the parser looks at.
LEMMA LineType ==
    ASSUME PInv, ~AtEnd
    PROVE  /\ ln \in Line
           /\ pos + 1 \in 1 .. Len(file.lines) + 1
           /\ \A i \in 1 .. Len(ln.parts) : ln.parts[i] \in STRING
           /\ pos + Opening \in 1 .. Len(file.lines) + 1
  <1>1. file.lines \in Seq(Line) /\ pos \in 1 .. Len(file.lines) + 1
    BY LdfAssumption DEF PInv, TypeOK
  <1>2. pos \in 1 .. Len(file.lines)
    BY <1>1 DEF AtEnd
  <1>3. ln \in Line
    BY <1>1, <1>2 DEF ln
  <1>4. ln.parts \in Seq(STRING)
    BY <1>3 DEF Line
  <1>5. pos + Opening \in 1 .. Len(file.lines) + 1
    BY <1>1, <1>2 DEF Opening, BraceNext
  <1>. QED
    BY <1>1, <1>2, <1>3, <1>4, <1>5

(***************************************************************************)
(* Types.                                                                  *)
(***************************************************************************)
\* The steps at the top level and at the ends of sections keep the types.
LEMMA TopType ==
    ASSUME PInv, ParseTop
    PROVE  PInv'
  <1>1. CASE ReadVersion
    <2>1. ~AtEnd /\ pos' = pos + 1 /\ UNCHANGED <<file, section, frame, table>>
      BY <1>1 DEF ReadVersion
    <2>2. db' = [db EXCEPT !["header"] = Put(db.header, ln.key, ln.parts[1])]
      BY <1>1 DEF ReadVersion
    <2>3. IsDb(db)' /\ db'.signals = db.signals /\ db'.frames = db.frames
      BY <2>2, FieldSet DEF PInv, Fields
    <2>. QED
      BY <2>1, <2>3, LineType DEF PInv, TypeOK
  <1>2. CASE EnterSection
    <2>1. ~AtEnd /\ pos' = pos + Opening /\ section' \in SectionKeys /\ UNCHANGED <<file, frame, table, db>>
      BY <1>2 DEF EnterSection
    <2>2. pos' \in 1 .. Len(file.lines) + 1
      BY <2>1, LineType
    <2>. QED
      BY <2>1, <2>2 DEF PInv, TypeOK
  <1>3. CASE SkipTop
    BY <1>3, LineType DEF SkipTop, Skip, PInv, TypeOK
  <1>4. CASE CloseSection
    BY <1>4, LineType DEF CloseSection, Closes, PInv, TypeOK
  <1>5. CASE Finish
    BY <1>5 DEF Finish, PInv, TypeOK
  <1>. QED
    BY <1>1, <1>2, <1>3, <1>4, <1>5 DEF ParseTop

\* The nodes and signals keep the types.
LEMMA NodeType ==
    ASSUME PInv, ReadNode \/ ReadSignal
    PROVE  PInv' /\ db'.frames = db.frames /\ db'.schedules = db.schedules
  <1>1. ~AtEnd /\ pos' = pos + 1 /\ UNCHANGED <<file, section, frame, table>>
    BY DEF ReadNode, ReadSignal, Reads
  <1>2. CASE UNCHANGED db
    BY <1>1, <1>2, LineType DEF PInv, TypeOK
  <1>3. CASE \E x \in {"master", "slaves"}, v \in {ln.parts[1], db.slaves \o SelectSeq(ln.parts, LAMBDA s : s # "")} :
                db' = [db EXCEPT ![x] = v]
    <2>1. PICK x \in {"master", "slaves"}, v \in {ln.parts[1], db.slaves \o SelectSeq(ln.parts, LAMBDA s : s # "")} :
                db' = [db EXCEPT ![x] = v]
      BY <1>3
    <2>2. IsDb(db)' /\ db'.signals = db.signals /\ db'.frames = db.frames /\ db'.schedules = db.schedules
      BY <2>1, FieldSet DEF PInv, Fields
    <2>. QED
      BY <1>1, <2>2, LineType DEF PInv, TypeOK
  <1>4. ASSUME NEW sig \in [bit_width : Nat, init_value : Nat],
               db' = [db EXCEPT !["signals"] = Put(db.signals, ln.label, sig)]
        PROVE  PInv' /\ db'.frames = db.frames /\ db'.schedules = db.schedules
    <2>1. IsDb(db)' /\ db'.frames = db.frames /\ db'.schedules = db.schedules
          /\ db'.signals = Put(db.signals, ln.label, sig)
      BY <1>4, FieldSet DEF PInv, Fields
    <2>2. \A s \in DOMAIN db'.signals : db'.signals[s] \in [bit_width : Nat, init_value : Nat]
      <3> SUFFICES ASSUME NEW s \in DOMAIN db'.signals
                   PROVE  db'.signals[s] \in [bit_width : Nat, init_value : Nat]
        OBVIOUS
      <3>1. CASE s = ln.label
        BY <1>4, <2>1, <3>1 DEF Put
      <3>2. CASE s # ln.label
        <4>1. s \in DOMAIN db.signals /\ db'.signals[s] = db.signals[s]
          BY <2>1, <3>2 DEF Put
        <4>. QED
          BY <4>1 DEF PInv, TypeOK
      <3>. QED
        BY <3>1, <3>2
    <2>. QED
      BY <1>1, <2>1, <2>2, LineType DEF PInv, TypeOK
  <1>5. CASE ReadNode
    BY <1>2, <1>3, <1>5 DEF ReadNode
  <1>6. CASE ReadSignal
    <2> DEFINE sig == [bit_width |-> Int0(ln.parts[1]) % Usize, init_value |-> Uint0(ln.parts[2])]
    <2>1. sig \in [bit_width : Nat, init_value : Nat]
      BY NumberType
    <2>2. UNCHANGED db \/ db' = [db EXCEPT !["signals"] = Put(db.signals, ln.label, sig)]
      BY <1>6 DEF ReadSignal
    <2> HIDE DEF sig
    <2>. QED
      BY <1>2, <1>4, <2>1, <2>2
  <1>. QED
    BY <1>5, <1>6

\* The frames keep the types: a header starts a frame without signals, its
\* body adds to them.
LEMMA FrameType ==
    ASSUME PInv, OpenFrame \/ SkipInFrames \/ ReadSignalRef
    PROVE  PInv' /\ UNCHANGED <<db, table>>
  <1>1. ~AtEnd /\ pos' = pos + 1 /\ UNCHANGED <<file, table, db>>
    BY DEF OpenFrame, SkipInFrames, ReadSignalRef, Reads, Skip
  <1>2. section' \in {"top", "frame", "table", "done"} \cup SectionKeys
    BY DEF OpenFrame, SkipInFrames, ReadSignalRef, PInv, TypeOK
  <1> DEFINE T == [name : Names, id : 0 .. 255, length : Nat, signals : SignalRefs]
  <1>3. ASSUME OpenFrame PROVE frame' \in T
    <2>1. frame' = frame \/ (IsFrameHeader(ln) /\ frame' = parse_frame_header(ln))
      BY <1>3 DEF OpenFrame
    <2>2. CASE IsFrameHeader(ln) /\ frame' = parse_frame_header(ln)
      <3>1. ln.label \in STRING
        BY <1>1, LineType DEF Line
      <3>2. AsU8(Numeral[ln.parts[1]]) \in 0 .. 255 /\ Int0(ln.parts[3]) % Usize \in Nat
        BY <2>2, NumberType DEF IsFrameHeader
      <3>3. <<>> \in SignalRefs
        BY DEF SignalRefs
      <3>. QED
        BY <2>2, <3>1, <3>2, <3>3 DEF parse_frame_header, Names
    <2>. QED
      BY <2>1, <2>2 DEF PInv, TypeOK
  <1>4. ASSUME ReadSignalRef PROVE frame' \in T
    <2>1. PICK bit_offset \in Nat :
            frame' = frame \/ frame' = [frame EXCEPT !.signals =
                                        Append(@, [name |-> ln.head, bit_offset |-> bit_offset])]
      <3>1. SignalRef(ln).bit_offset \in Nat /\ SignalRef(ln) = [name |-> ln.head, bit_offset |-> SignalRef(ln).bit_offset]
        BY SignalRefType DEF SignalRef
      <3>. QED
        BY <1>4, <3>1 DEF ReadSignalRef
    <2>2. ln.head \in STRING
      BY <1>1, LineType DEF Line
    <2>3. frame \in T
      BY DEF PInv, TypeOK
    <2>4. Append(frame.signals, [name |-> ln.head, bit_offset |-> bit_offset]) \in SignalRefs
      BY <2>2, <2>3 DEF SignalRefs
    <2>. QED
      BY <2>1, <2>3, <2>4
  <1>5. ASSUME SkipInFrames PROVE frame' \in T
    BY <1>5 DEF SkipInFrames, PInv, TypeOK
  <1>6. frame' \in T
    BY <1>3, <1>4, <1>5
  <1>. QED
    BY <1>1, <1>2, <1>6, LineType DEF PInv, TypeOK

\* The end of a frame keeps the types.
LEMMA CloseFrameType ==
    ASSUME PInv, CloseFrame
    PROVE  /\ PInv' /\ table' = table
           /\ db'.schedules = db.schedules /\ DOMAIN db.frames \subseteq DOMAIN db'.frames
  <1>1. db' = [db EXCEPT !["frames"] = Put(db.frames, frame.id, frame)]
    BY DEF CloseFrame
  <1>2. IsDb(db)' /\ db'.signals = db.signals /\ db'.schedules = db.schedules
        /\ db'.frames = Put(db.frames, frame.id, frame)
    BY <1>1, FieldSet DEF PInv, Fields
  <1>3. DOMAIN db'.frames = DOMAIN db.frames \cup {frame.id}
    BY <1>2 DEF Put
  <1>4. ASSUME NEW id \in DOMAIN db'.frames
        PROVE  db'.frames[id].signals \in SignalRefs /\ id \in 0 .. 255
    <2>1. CASE id = frame.id
      BY <1>2, <2>1 DEF Put, PInv, TypeOK
    <2>2. CASE id # frame.id
      <3>1. id \in DOMAIN db.frames /\ db'.frames[id] = db.frames[id]
        BY <1>2, <1>3, <2>2 DEF Put
      <3>. QED
        BY <3>1 DEF PInv, TypeOK
    <2>. QED
      BY <2>1, <2>2
  <1>5. pos' \in 1 .. Len(file.lines) + 1
    BY LineType DEF CloseFrame, PInv, TypeOK
  <1>6. section' = "Frames" /\ UNCHANGED <<file, frame, table>>
    BY DEF CloseFrame
  <1>. QED
    BY <1>2, <1>3, <1>4, <1>5, <1>6 DEF PInv, TypeOK, SectionKeys

\* What a schedule table names.
Resolves(entries, d) ==
    \A i \in DOMAIN entries : entries[i].id \in DOMAIN d.frames /\ entries[i].id <= LIN_MAX_ID

\* The names looked up are ids of frames read so far, or the id of no frame.
LEMMA NameType ==
    ASSUME PInv, NEW name
    PROVE  \A id \in frame_id_by_name(name) : id \in 0 .. 255 /\ (Usable(id) => id \in DOMAIN db.frames /\ id <= LIN_MAX_ID)
  <1> DEFINE ids == {id \in DOMAIN db.frames : db.frames[id].name = name}
  <1>1. \A id \in ids : id \in 0 .. 255 /\ id \in DOMAIN db.frames
    BY DEF PInv, TypeOK
  <1>2. frame_id_by_name(name) = {255} \/ frame_id_by_name(name) = ids
    BY DEF frame_id_by_name
  <1>3. ~Usable(255) /\ \A id : Usable(id) => id <= LIN_MAX_ID
    BY DEF Usable, LIN_MAX_ID
  <1> HIDE DEF ids
  <1>. QED
    BY <1>1, <1>2, <1>3

\* The schedule tables keep the types, and an entry that is added resolves.
LEMMA TableType ==
    ASSUME PInv, OpenTable \/ SkipInTables \/ ReadEntry, Resolves(table.entries, db)
    PROVE  PInv' /\ db' = db /\ Resolves(table.entries, db)'
  <1>1. ~AtEnd /\ pos' = pos + 1 /\ UNCHANGED <<file, frame, db>>
    BY DEF OpenTable, SkipInTables, ReadEntry, Reads, Skip
  <1>2. section' \in {"top", "frame", "table", "done"} \cup SectionKeys
    BY DEF OpenTable, SkipInTables, ReadEntry, PInv, TypeOK
  <1> DEFINE T == [name : Names, entries : Entries]
  <1>3. table \in T
    BY DEF PInv, TypeOK
  <1>4. CASE OpenTable
    <2>3. ln.text \in STRING
      BY <1>1, LineType DEF Line
    <2>1. ln.text \in STRING /\ <<>> \in Entries
      BY <2>3 DEF Entries
    <2>2. table' = [name |-> ln.text, entries |-> <<>>]
      BY <1>4 DEF OpenTable
    <2>4. table' \in T
      BY <2>1, <2>2 DEF Names
    <2>. QED
      BY <1>1, <1>2, <2>2, <2>4, LineType DEF PInv, TypeOK, Resolves
  <1>5. CASE ReadEntry /\ table' # table
    <2>1. PICK id \in frame_id_by_name(ln.words[1]) :
            /\ Usable(id)
            /\ table' = [table EXCEPT !.entries = Append(@, [id |-> id, delay_ms |-> Uint0(ln.words[3]) % U32])]
      BY <1>5 DEF ReadEntry
    <2>2. id \in 0 .. 255 /\ id \in DOMAIN db.frames /\ id <= LIN_MAX_ID
      BY <2>1, NameType
    <2>3. PICK e \in [id : 0 .. 255, delay_ms : Nat] : e = [id |-> id, delay_ms |-> Uint0(ln.words[3]) % U32]
      BY <2>2, NumberType
    <2>7. table.entries \in Entries /\ table' = [table EXCEPT !.entries = Append(table.entries, e)]
      BY <1>3, <2>1, <2>3
    <2>8. Append(table.entries, e) \in Entries
      BY <2>7 DEF Entries
    <2>4. /\ table.entries \in Entries /\ table'.entries = Append(table.entries, e)
          /\ table' \in T
      BY <1>3, <2>7, <2>8
    <2>5. ASSUME NEW i \in DOMAIN table'.entries
          PROVE  table'.entries[i].id \in DOMAIN db.frames /\ table'.entries[i].id <= LIN_MAX_ID
      <3>1. CASE i = Len(table.entries) + 1
        BY <2>2, <2>3, <2>4, <3>1 DEF Entries
      <3>2. CASE i \in DOMAIN table.entries
        <4>1. table'.entries[i] = table.entries[i]
          BY <2>4, <3>2 DEF Entries
        <4>. QED
          BY <3>2, <4>1 DEF Resolves
      <3>. QED
        BY <2>4, <3>1, <3>2 DEF Entries
    <2>6. Resolves(table.entries, db)'
      BY <1>1, <2>5 DEF Resolves
    <2>. QED
      BY <1>1, <1>2, <2>4, <2>6, LineType DEF PInv, TypeOK
  <1>6. CASE table' = table
    BY <1>1, <1>2, <1>3, <1>6, LineType DEF PInv, TypeOK, Resolves
  <1>. QED
    BY <1>4, <1>5, <1>6 DEF SkipInTables

\* The end of a table files its entries.
LEMMA CloseTableType ==
    ASSUME PInv, CloseTable, Resolves(table.entries, db), SchedulesResolve
    PROVE  PInv' /\ Resolves(table.entries, db)' /\ SchedulesResolve'
  <1>1. db' = [db EXCEPT !["schedules"] = Put(db.schedules, table.name, table.entries)]
    BY DEF CloseTable
  <1>2. IsDb(db)' /\ db'.signals = db.signals /\ db'.frames = db.frames
        /\ db'.schedules = Put(db.schedules, table.name, table.entries)
    BY <1>1, FieldSet DEF PInv, Fields
  <1>3. pos' \in 1 .. Len(file.lines) + 1
    BY LineType DEF CloseTable, PInv, TypeOK
  <1>4. section' = "Schedule_tables" /\ UNCHANGED <<file, frame, table>>
    BY DEF CloseTable
  <1>5. ASSUME NEW t \in DOMAIN db'.schedules
        PROVE  Resolves(db'.schedules[t], db)
    <2>1. CASE t = table.name
      BY <1>2, <2>1 DEF Put
    <2>2. CASE t # table.name
      <3>1. t \in DOMAIN db.schedules /\ db'.schedules[t] = db.schedules[t]
        BY <1>2, <2>2 DEF Put
      <3>. QED
        BY <3>1 DEF SchedulesResolve, Resolves
    <2>. QED
      BY <2>1, <2>2
  <1>6. SchedulesResolve' /\ Resolves(table.entries, db)'
    BY <1>2, <1>4, <1>5 DEF SchedulesResolve, Resolves
  <1>. QED
    BY <1>2, <1>3, <1>4, <1>6 DEF PInv, TypeOK, SectionKeys

\* The steps that leave the tables alone keep what resolves: frames are added,
\* or replaced under their id, and never taken away.
LEMMA StaysResolved ==
    ASSUME Resolves(table.entries, db), SchedulesResolve, table' = table,
           db'.schedules = db.schedules, DOMAIN db.frames \subseteq DOMAIN db'.frames
    PROVE  Resolves(table.entries, db)' /\ SchedulesResolve'
  BY DEF Resolves, SchedulesResolve

\* The state at the start.
LEMMA AtStart ==
    ASSUME Init
    PROVE  PInv /\ Resolves(table.entries, db) /\ SchedulesResolve
  <1>1. /\ db.schedules = <<>> /\ db.frames = <<>> /\ db.signals = <<>>
        /\ table = [name |-> NoName, entries |-> <<>>]
        /\ frame = [name |-> NoName, id |-> 0, length |-> 0, signals |-> <<>>]
        /\ file \in Files /\ pos = 1 /\ section = "top"
    BY DEF Init, EmptyDb, EmptyTable, EmptyFrame
  <1>2. IsDb(db)
    BY DEF Init, EmptyDb, IsDb, Fields
  <1>3. <<>> \in SignalRefs /\ <<>> \in Entries /\ DOMAIN <<>> = {}
    BY DEF SignalRefs, Entries
  <1>4. pos \in 1 .. Len(file.lines) + 1
    <2>1. file.lines \in Seq(Line)
      BY <1>1, LdfAssumption
    <2>2. Len(file.lines) \in Nat /\ pos = 1
      BY <1>1, <2>1
    <2>. QED
      BY <2>2
  <1>6. NoName \in Names
    BY DEF Names
  <1>7. 0 \in 0 .. 255 /\ 0 \in Nat
    OBVIOUS
  <1>5. /\ frame \in [name : Names, id : 0 .. 255, length : Nat, signals : SignalRefs]
        /\ table \in [name : Names, entries : Entries]
    BY <1>1, <1>3, <1>6, <1>7, Zenon
  <1>. QED
    BY <1>1, <1>2, <1>3, <1>4, <1>5 DEF PInv, TypeOK, Resolves, SchedulesResolve

\* Every step keeps the types and what resolves.
LEMMA ParserSteps ==
    ASSUME PInv, Resolves(table.entries, db), SchedulesResolve, [Next]_vars
    PROVE  PInv' /\ Resolves(table.entries, db)' /\ SchedulesResolve'
  <1>1. CASE ParseTop
    <2>1. /\ table' = table
          /\ db' = db \/ db' = [db EXCEPT !["header"] = Put(db.header, ln.key, ln.parts[1])]
      BY <1>1 DEF ParseTop, ReadVersion, EnterSection, SkipTop, CloseSection, Finish
    <2>2. db'.schedules = db.schedules /\ db'.frames = db.frames
      BY <2>1, FieldSet DEF PInv, Fields
    <2>. QED
      BY <1>1, <2>1, <2>2, TopType, StaysResolved
  <1>2. CASE ReadNode \/ ReadSignal
    <2>1. table' = table
      BY <1>2 DEF ReadNode, ReadSignal
    <2>. QED
      BY <1>2, <2>1, NodeType, StaysResolved
  <1>3. CASE OpenFrame \/ SkipInFrames \/ ReadSignalRef
    BY <1>3, FrameType, StaysResolved
  <1>4. CASE CloseFrame
    BY <1>4, CloseFrameType, StaysResolved
  <1>5. CASE OpenTable \/ SkipInTables \/ ReadEntry
    BY <1>5, TableType DEF SchedulesResolve
  <1>6. CASE CloseTable
    BY <1>6, CloseTableType
  <1>7. CASE UNCHANGED <<file, pos, section, frame, table, db>>
    BY <1>7 DEF PInv, TypeOK, IsDb, Resolves, SchedulesResolve
  <1>. QED
    BY <1>1, <1>2, <1>3, <1>4, <1>5, <1>6, <1>7 DEF Next, Parse, ParseFrames, ParseTables, Decode, vars

\* The parser's state is well typed whatever the file says.
THEOREM TypeCorrect == Spec => []TypeOK
  <1>1. PInv => TypeOK
    BY DEF PInv
  <1>. QED
    BY <1>1, AtStart, ParserSteps, PTL DEF Spec

\* Whatever the file says, and in whatever order, what a table of the database
\* names is one of its frames, within the range of a frame id.
THEOREM TablesResolve == Spec => []SchedulesResolve
  BY AtStart, ParserSteps, PTL DEF Spec

(***************************************************************************)
(* The parser never stands still.                                          *)
(***************************************************************************)
\* The types and what resolves, together.
Typed == PInv /\ Resolves(table.entries, db) /\ SchedulesResolve

\* They always hold.
THEOREM AlwaysTyped == Spec => []Typed
  <1>1. Init => Typed
    BY AtStart DEF Typed
  <1>2. Typed /\ [Next]_vars => Typed'
    BY ParserSteps DEF Typed
  <1>. QED
    BY <1>1, <1>2, PTL DEF Spec

\* A step goes forward, or leaves a loop where the input ends.
LEMMA Forward ==
    ASSUME Parse, PInv
    PROVE  /\ file' = file
           /\ \/ pos' >= pos + 1
              \/ pos' = pos /\ section \in {"frame", "table"} /\ section' \in SectionKeys
              \/ pos' = pos /\ section \in SectionKeys \cup {"top"} /\ section' = "done"
  <1>1. pos \in Nat /\ Opening \in {1, 2}
    BY LdfAssumption DEF PInv, TypeOK, Opening
  <1>2. CASE ParseTop
    BY <1>1, <1>2 DEF ParseTop, ReadVersion, EnterSection, SkipTop, CloseSection, Finish, Skip
  <1>3. CASE ReadNode \/ ReadSignal
    <2>1. file' = file /\ pos' = pos + 1
      BY <1>3 DEF ReadNode, ReadSignal
    <2>. QED
      BY <1>1, <2>1
  <1>4. CASE ParseFrames
    <2>1. CASE OpenFrame \/ SkipInFrames \/ ReadSignalRef
      <3>1. file' = file /\ pos' = pos + 1
        BY <2>1 DEF OpenFrame, SkipInFrames, ReadSignalRef, Skip
      <3>. QED
        BY <1>1, <3>1
    <2>2. CASE CloseFrame
      BY <1>1, <2>2 DEF CloseFrame, SectionKeys
    <2>. QED
      BY <1>4, <2>1, <2>2 DEF ParseFrames
  <1>5. CASE ParseTables
    <2>1. CASE OpenTable \/ SkipInTables \/ ReadEntry
      <3>1. file' = file /\ pos' = pos + 1
        BY <2>1 DEF OpenTable, SkipInTables, ReadEntry, Skip
      <3>. QED
        BY <1>1, <3>1
    <2>2. CASE CloseTable
      BY <1>1, <2>2 DEF CloseTable, SectionKeys
    <2>. QED
      BY <1>5, <2>1, <2>2 DEF ParseTables
  <1>. QED
    BY <1>2, <1>3, <1>4, <1>5 DEF Parse

\* The account of what is left falls with each step.
LEMMA LessToDo ==
    ASSUME Parse, PInv, PInv'
    PROVE  Todo' < Todo /\ Todo' >= 0
  <1> DEFINE Loops(s) == IF s = "done" THEN 0 ELSE IF s \in {"frame", "table"} THEN 2 ELSE 1
  <1>1. PICK last \in Nat : Len(file.lines) = last /\ Len(file'.lines) = last
    BY Forward, LdfAssumption DEF PInv
  <1>2. pos \in 1 .. last + 1 /\ pos' \in 1 .. last + 1
    BY <1>1 DEF PInv, TypeOK
  <1>3. \A s : Loops(s) \in 0 .. 2
    OBVIOUS
  <1>4. Loops(section') < Loops(section) \/ pos' >= pos + 1
    BY Forward DEF SectionKeys
  <1>5. pos' >= pos
    BY <1>2, Forward
  <1>6. Todo = 3 * (last + 1 - pos) + Loops(section) /\ Todo' = 3 * (last + 1 - pos') + Loops(section')
    BY <1>1 DEF Todo
  <1> HIDE DEF Loops
  <1>7. Loops(section) \in 0 .. 2 /\ Loops(section') \in 0 .. 2
    BY <1>3
  <1>. QED
    BY <1>2, <1>4, <1>5, <1>6, <1>7

\* Whatever the file holds, every step of the parser leaves less to do, so that
\* no loop looks at a line twice but to leave it (parse_top and the four loops
\* under it).
THEOREM AlwaysAdvances == Spec => ParserAdvances
  <1>1. Typed /\ Typed' /\ [Next]_vars => [Parse => Todo' < Todo /\ Todo' >= 0]_vars
    BY LessToDo DEF Typed
  <1>. QED
    BY <1>1, AlwaysTyped, PTL DEF Spec, ParserAdvances

(***************************************************************************)
(* A frame is one block of the file.                                       *)
(***************************************************************************)
\* The references in some lines: a line more is one reference more, or none.
LEMMA RefsGrow ==
    ASSUME NEW from \in Int, NEW to \in Int, from <= to + 1
    PROVE  /\ IsFiniteSet(RefsIn(from, to)) /\ Cardinality(RefsIn(from, to)) \in Nat
           /\ ~IsSignalRef(file.lines[to + 1]) => RefsIn(from, to + 1) = RefsIn(from, to)
           /\ IsSignalRef(file.lines[to + 1]) =>
                Cardinality(RefsIn(from, to + 1)) = Cardinality(RefsIn(from, to)) + 1
  <1>1. IsFiniteSet(RefsIn(from, to))
    <2>1. IsFiniteSet(from .. to) /\ RefsIn(from, to) \in SUBSET (from .. to)
      BY FS_Interval DEF RefsIn
    <2>. QED
      BY <2>1, FS_Subset
  <1>2. Cardinality(RefsIn(from, to)) \in Nat
    BY <1>1, FS_CardinalityType
  <1>3. from .. to + 1 = (from .. to) \cup {to + 1} /\ to + 1 \notin from .. to
    OBVIOUS
  <1>4. RefsIn(from, to + 1) = RefsIn(from, to) \cup (IF IsSignalRef(file.lines[to + 1]) THEN {to + 1} ELSE {})
    BY <1>3 DEF RefsIn
  <1>5. to + 1 \notin RefsIn(from, to)
    BY <1>3 DEF RefsIn
  <1>6. Cardinality(RefsIn(from, to) \cup {to + 1}) = Cardinality(RefsIn(from, to)) + 1
    BY <1>1, <1>5, FS_AddElement
  <1>. QED
    BY <1>1, <1>2, <1>4, <1>6

\* A reference among the lines is one of those counted.
LEMMA RefCounted ==
    ASSUME NEW from \in Int, NEW to \in Int, NEW m \in RefsIn(from, to)
    PROVE  Cardinality(RefsIn(from, m)) \in 1 .. Cardinality(RefsIn(from, to))
  <1>1. m \in Int /\ from <= m /\ m <= to
    BY DEF RefsIn
  <1>2. IsFiniteSet(RefsIn(from, to)) /\ Cardinality(RefsIn(from, to)) \in Nat
    BY <1>1, RefsGrow
  <1>3. RefsIn(from, m) \in SUBSET RefsIn(from, to) /\ m \in RefsIn(from, m)
    BY <1>1 DEF RefsIn
  <1>4. IsFiniteSet(RefsIn(from, m)) /\ Cardinality(RefsIn(from, m)) <= Cardinality(RefsIn(from, to))
    BY <1>2, <1>3, FS_Subset
  <1>5. Cardinality(RefsIn(from, m)) \in Nat /\ Cardinality(RefsIn(from, m)) # 0
    BY <1>3, <1>4, FS_CardinalityType, FS_EmptySet
  <1>. QED
    BY <1>2, <1>4, <1>5

\* A header and nothing after it is a block.
LEMMA HeaderIsBlock ==
    ASSUME NEW i \in Nat, IsFrameHeader(file.lines[i])
    PROVE  IsBlock(parse_frame_header(file.lines[i]), i, i)
  <1> DEFINE f == parse_frame_header(file.lines[i])
  <1>1. f.signals = <<>> /\ f = [f EXCEPT !.signals = f.signals]
    BY DEF parse_frame_header
  <1>2. i + 1 .. i = {}
    OBVIOUS
  <1>3. RefsIn(i + 1, i) = {}
    BY <1>2 DEF RefsIn
  <1>4. Cardinality(RefsIn(i + 1, i)) = Len(f.signals)
    BY <1>1, <1>3, FS_EmptySet
  <1>. QED
    BY <1>1, <1>2, <1>3, <1>4 DEF IsBlock

\* A line that does not close the block belongs to it; if it is a reference the
\* frame has it last.
LEMMA BlockGrows ==
    ASSUME NEW f, NEW g, NEW i \in Nat, NEW to \in Nat, i <= to, IsBlock(f, i, to),
           f \in [name : Names, id : 0 .. 255, length : Nat, signals : SignalRefs],
           file.lines[to + 1].brace # "close",
           SignalRef(file.lines[to + 1]) \in [name : STRING, bit_offset : Nat],
           g = IF IsSignalRef(file.lines[to + 1])
               THEN [f EXCEPT !.signals = Append(@, SignalRef(file.lines[to + 1]))] ELSE f
    PROVE  IsBlock(g, i, to + 1)
  <1> DEFINE l == file.lines[to + 1]
             Place(m) == Cardinality(RefsIn(i + 1, m))
  <1>0. i + 1 \in Int /\ to \in Int /\ i + 1 <= to + 1
    OBVIOUS
  <1>1. \A m \in i + 1 .. to + 1 : file.lines[m].brace # "close"
    BY DEF IsBlock
  <1>2. CASE ~IsSignalRef(l)
    <2>1. g = f /\ RefsIn(i + 1, to + 1) = RefsIn(i + 1, to)
      BY <1>0, <1>2, RefsGrow
    <2>. QED
      BY <1>1, <2>1 DEF IsBlock
  <1>3. CASE IsSignalRef(l)
    <2>1. f.signals \in Seq([name : STRING, bit_offset : Nat])
      BY DEF SignalRefs
    <2>2. g = [f EXCEPT !.signals = g.signals] /\ g.signals = Append(f.signals, SignalRef(l))
      BY <1>3
    <2>3. Place(to) \in Nat /\ Place(to + 1) = Place(to) + 1 /\ Place(to) = Len(f.signals)
      BY <1>0, <1>3, RefsGrow DEF IsBlock
    <2>4. g = [parse_frame_header(file.lines[i]) EXCEPT !.signals = g.signals]
      BY <2>2 DEF IsBlock, parse_frame_header
    <2>5. Len(g.signals) = Place(to + 1)
      BY <2>1, <2>2, <2>3
    <2>6. ASSUME NEW m \in RefsIn(i + 1, to + 1)
          PROVE  g.signals[Place(m)] = SignalRef(file.lines[m])
      <3>1. CASE m = to + 1
        BY <2>1, <2>2, <2>3, <3>1
      <3>2. CASE m # to + 1
        <4>1. m \in RefsIn(i + 1, to)
          BY <3>2 DEF RefsIn
        <4>2. Place(m) \in 1 .. Place(to)
          BY <1>0, <4>1, RefCounted
        <4>3. f.signals[Place(m)] = SignalRef(file.lines[m])
          BY <4>1 DEF IsBlock
        <4> HIDE DEF Place
        <4>. QED
          BY <2>1, <2>2, <2>3, <4>2, <4>3
      <3>. QED
        BY <3>1, <3>2
    <2>. QED
      BY <1>1, <2>4, <2>5, <2>6 DEF IsBlock
  <1>. QED
    BY <1>2, <1>3

\* The frame being read is a block so far.
Reading == section = "frame" => \E i \in 1 .. pos - 1 : IsBlock(frame, i, pos - 1)

\* The last two together.
Blocks == Reading /\ FramesWhole

\* What the file says of a block does not change while the file does not.
LEMMA BlockStays ==
    ASSUME file' = file, NEW f, NEW i, NEW to
    PROVE  IsBlock(f, i, to)' <=> IsBlock(f, i, to)
  BY DEF IsBlock, RefsIn

\* A block that ends before the next line is what is being read.
LEMMA ReadingNow ==
    ASSUME file' = file, NEW i \in 1 .. pos' - 1, IsBlock(frame', i, pos' - 1)
    PROVE  Reading'
  <1> PICK f, to : f = frame' /\ to = pos' - 1
    OBVIOUS
  <1>1. IsBlock(f, i, to)'
    BY BlockStays
  <1>2. IsBlock(frame, i, pos - 1)'
    BY <1>1 DEF IsBlock
  <1>. QED
    BY <1>2 DEF Reading

\* FramesWhole stays while the frames do.
LEMMA FramesStay ==
    ASSUME FramesWhole, file' = file, db'.frames = db.frames
    PROVE  FramesWhole'
  BY BlockStays DEF FramesWhole

\* The steps that read no frame leave the frames alone.
LEMMA OthersKeepFrames ==
    ASSUME Typed, ParseTop \/ ReadNode \/ ReadSignal \/ SkipInFrames \/ ParseTables
    PROVE  db'.frames = db.frames
  <1>1. CASE ParseTop
    <2>1. db' = db \/ db' = [db EXCEPT !["header"] = Put(db.header, ln.key, ln.parts[1])]
      BY <1>1 DEF ParseTop, ReadVersion, EnterSection, SkipTop, CloseSection, Finish
    <2>. QED
      BY <2>1, FieldSet DEF Typed, PInv, Fields
  <1>2. CASE ReadNode \/ ReadSignal
    BY <1>2, NodeType DEF Typed
  <1>3. CASE SkipInFrames \/ OpenTable \/ SkipInTables \/ ReadEntry
    BY <1>3 DEF SkipInFrames, OpenTable, SkipInTables, ReadEntry
  <1>4. CASE CloseTable
    <2>1. db' = [db EXCEPT !["schedules"] = Put(db.schedules, table.name, table.entries)]
      BY <1>4 DEF CloseTable
    <2>. QED
      BY <2>1, FieldSet DEF Typed, PInv, Fields
  <1>. QED
    BY <1>1, <1>2, <1>3, <1>4 DEF ParseTables

\* Every step keeps the frame being read a block, and each frame of the database.
LEMMA BlockSteps ==
    ASSUME Typed, Typed', Blocks, [Next]_vars
    PROVE  Blocks'
  <1>0. pos \in 1 .. Len(file.lines) + 1 /\ Len(file.lines) \in Nat
    BY LdfAssumption DEF Typed, PInv, TypeOK
  <1>1. CASE OpenFrame
    <2>1. file' = file /\ db' = db /\ pos' = pos + 1 /\ ~AtEnd
      BY <1>1 DEF OpenFrame, Reads
    <2>2. CASE section' = "frame"
      <3>1. IsFrameHeader(file.lines[pos]) /\ frame' = parse_frame_header(file.lines[pos])
        BY <1>1, <2>2 DEF OpenFrame, Reads, ln
      <3>2. IsBlock(frame', pos, pos)
        BY <1>0, <3>1, HeaderIsBlock
      <3>3. pos' - 1 = pos /\ pos \in 1 .. pos' - 1
        BY <1>0, <2>1
      <3>4. Reading'
        BY <2>1, <3>2, <3>3, ReadingNow
      <3>. QED
        BY <2>1, <3>4, FramesStay DEF Blocks
    <2>3. CASE section' # "frame"
      BY <2>1, <2>3, FramesStay DEF Blocks, Reading
    <2>. QED
      BY <2>2, <2>3
  <1>2. CASE ReadSignalRef
    <2>1. /\ file' = file /\ db' = db /\ pos' = pos + 1 /\ section = "frame" /\ ~AtEnd /\ ln.brace # "close"
          /\ frame' = IF IsSignalRef(ln) THEN [frame EXCEPT !.signals = Append(@, SignalRef(ln))] ELSE frame
      BY <1>2 DEF ReadSignalRef, Reads, Closes
    <2>2. PICK i \in 1 .. pos - 1 : IsBlock(frame, i, pos - 1)
      BY <2>1 DEF Blocks, Reading
    <2>3. i \in Nat /\ pos - 1 \in Nat /\ i <= pos - 1 /\ (pos - 1) + 1 = pos
      BY <1>0, <2>2
    <2>4. SignalRef(ln) \in [name : STRING, bit_offset : Nat]
      BY <2>1, LineType, SignalRefType DEF Typed, Line
    <2>5. IsBlock(frame', i, pos)
      <3>1. frame \in [name : Names, id : 0 .. 255, length : Nat, signals : SignalRefs]
        BY DEF Typed, PInv, TypeOK
      <3>2. PICK g : g = frame'
        OBVIOUS
      <3>3. IsBlock(g, i, (pos - 1) + 1)
        BY <2>1, <2>2, <2>3, <2>4, <3>1, <3>2, BlockGrows DEF ln
      <3>. QED
        BY <2>3, <3>2, <3>3
    <2>6. i \in 1 .. pos' - 1 /\ pos' - 1 = pos
      BY <1>0, <2>1, <2>2
    <2>7. Reading'
      BY <2>1, <2>5, <2>6, ReadingNow
    <2>. QED
      BY <2>1, <2>7, FramesStay DEF Blocks
  <1>3. CASE CloseFrame
    <2>1. /\ file' = file /\ section = "frame" /\ section' = "Frames"
          /\ pos > Len(file.lines) \/ file.lines[pos].brace = "close"
          /\ db'.frames = Put(db.frames, frame.id, frame)
      <3>1. db' = [db EXCEPT !["frames"] = Put(db.frames, frame.id, frame)]
        BY <1>3 DEF CloseFrame
      <3>2. db'.frames = Put(db.frames, frame.id, frame)
        BY <3>1, FieldSet DEF Typed, PInv, Fields
      <3>. QED
        BY <1>3, <3>2 DEF CloseFrame, AtEnd, Closes, ln
    <2>2. PICK i \in 1 .. pos - 1 : IsBlock(frame, i, pos - 1)
      BY <2>1 DEF Blocks, Reading
    <2>3. i \in DOMAIN file.lines /\ pos - 1 \in i .. Len(file.lines) /\ (pos - 1) + 1 = pos
      <3>1. file.lines \in Seq(Line)
        BY LdfAssumption DEF Typed, PInv
      <3>. QED
        BY <1>0, <2>2, <3>1
    <2>4. ASSUME NEW id \in DOMAIN db'.frames
          PROVE  \E j \in DOMAIN file.lines : \E to \in j .. Len(file.lines) :
                    /\ IsBlock(db'.frames[id], j, to)
                    /\ db'.frames[id].id = id /\ id \in 0 .. 255
                    /\ to < Len(file.lines) => file.lines[to + 1].brace = "close"
      <3>1. CASE id = frame.id
        <4>1. db'.frames[id] = frame
          BY <2>1, <3>1 DEF Put
        <4>2. pos - 1 < Len(file.lines) => file.lines[(pos - 1) + 1].brace = "close"
          BY <1>0, <2>1, <2>3
        <4>3. frame.id \in 0 .. 255
          BY DEF Typed, PInv, TypeOK
        <4>. QED
          BY <2>2, <2>3, <3>1, <4>1, <4>2, <4>3
      <3>2. CASE id # frame.id
        <4>1. id \in DOMAIN db.frames /\ db'.frames[id] = db.frames[id]
          BY <2>1, <3>2 DEF Put
        <4>. QED
          BY <4>1 DEF Blocks, FramesWhole
      <3>. QED
        BY <3>1, <3>2
    <2>5. FramesWhole'
      BY <2>1, <2>4, BlockStays DEF FramesWhole
    <2>. QED
      BY <2>1, <2>5 DEF Blocks, Reading
  <1>4. CASE ParseTop \/ ReadNode \/ ReadSignal \/ SkipInFrames \/ ParseTables
    <2>1. file' = file /\ section' # "frame"
      <3>1. CASE ParseTop
        BY <3>1 DEF ParseTop, ReadVersion, EnterSection, SkipTop, CloseSection, Finish, SectionKeys
      <3>2. CASE ReadNode \/ ReadSignal
        BY <3>2 DEF ReadNode, ReadSignal, Reads
      <3>3. CASE SkipInFrames
        BY <3>3 DEF SkipInFrames, Reads
      <3>4. CASE ParseTables
        BY <3>4 DEF ParseTables, OpenTable, SkipInTables, ReadEntry, CloseTable, Reads
      <3>. QED
        BY <1>4, <3>1, <3>2, <3>3, <3>4
    <2>2. db'.frames = db.frames
      BY <1>4, OthersKeepFrames
    <2>. QED
      BY <2>1, <2>2, FramesStay DEF Blocks, Reading
  <1>5. CASE UNCHANGED <<file, pos, section, frame, table, db>>
    <2>1. Reading'
      <3>1. CASE section = "frame"
        <4>1. PICK i \in 1 .. pos - 1 : IsBlock(frame, i, pos - 1)
          BY <3>1 DEF Blocks, Reading
        <4>. QED
          BY <1>5, <4>1, ReadingNow
      <3>2. CASE section # "frame"
        BY <1>5, <3>2 DEF Reading
      <3>. QED
        BY <3>1, <3>2
    <2>. QED
      BY <1>5, <2>1, FramesStay DEF Blocks
  <1>. QED
    BY <1>1, <1>2, <1>3, <1>4, <1>5 DEF Next, Parse, ParseFrames, Decode, vars

\* Whatever the file holds, each frame of the database is one block of it: a
\* header and every reference from there to the brace that ends it, or to the
\* end of the file (parse_frames).
THEOREM FramesAreBlocks == Spec => []FramesWhole
  <1>1. Init => Blocks
    <2> SUFFICES ASSUME Init PROVE Blocks
      OBVIOUS
    <2>1. section = "top" /\ db.frames = <<>>
      BY DEF Init, EmptyDb
    <2>2. DOMAIN <<>> = {}
      OBVIOUS
    <2>. QED
      BY <2>1, <2>2 DEF Blocks, Reading, FramesWhole
  <1>2. Typed /\ Typed' /\ Blocks /\ [Next]_vars => Blocks'
    BY BlockSteps
  <1>3. Blocks => FramesWhole
    BY DEF Blocks
  <1>. QED
    BY <1>1, <1>2, <1>3, AlwaysTyped, PTL DEF Spec

(***************************************************************************)
(* A schedule table is one block of the file.                              *)
(***************************************************************************)
\* One of the first n of these lines is the header of a frame with this id and name.
HeadedBy(lines, id, name, n) ==
    \E h \in 1 .. n :
        /\ IsFrameHeader(lines[h]) /\ lines[h].label = name
        /\ AsU8(Numeral[lines[h].parts[1]]) = id

\* So it is for every frame of the database.
FramesHeaded(n) ==
    \A id \in DOMAIN db.frames : HeadedBy(file.lines, id, db.frames[id].name, n)

\* Those of the database are headed by lines before the one the parser is at.
HeadedSoFar == FramesHeaded(pos - 1)

\* The frame being read, too, is headed by a line before this one.
FrameHeaded == section = "frame" => HeadedBy(file.lines, frame.id, frame.name, pos - 1)

\* The table being read is a block so far, and while it is being read the frames
\* are those headed above it.
TableReading ==
    section = "table" =>
        \E i \in 1 .. pos - 1 : IsTable(table.name, table.entries, i, pos - 1) /\ FramesHeaded(i - 1)

\* The four together.
Tables == HeadedSoFar /\ FrameHeaded /\ TableReading /\ TablesWhole

\* The same words for what an entry needs.
LEMMA SaysIs ==
    ASSUME NEW l, NEW e, NEW i,
           IsEntry(l), e.delay_ms = Uint0(l.words[3]) % U32,
           HeadedBy(file.lines, e.id, l.words[1], i - 1)
    PROVE  Says(l, e, i)
  BY DEF Says, HeadedBy

\* What is headed within n lines is within more.
LEMMA HeadedStays ==
    ASSUME NEW lines, NEW id, NEW name, NEW n \in Int, NEW m \in Int, n <= m,
           HeadedBy(lines, id, name, n)
    PROVE  HeadedBy(lines, id, name, m)
  <1>1. PICK h \in 1 .. n : /\ IsFrameHeader(lines[h]) /\ lines[h].label = name
                            /\ AsU8(Numeral[lines[h].parts[1]]) = id
    BY DEF HeadedBy
  <1>2. h \in 1 .. m
    OBVIOUS
  <1>. QED
    BY <1>1, <1>2 DEF HeadedBy

\* And so for the frames that stay.
LEMMA FramesHeadedStay ==
    ASSUME file' = file, db'.frames = db.frames, NEW n \in Int, NEW m \in Int, n <= m, FramesHeaded(n)
    PROVE  FramesHeaded(m)'
  BY HeadedStays DEF FramesHeaded

\* What the file says of a table does not change while the file does not.
LEMMA TableStays ==
    ASSUME file' = file, NEW t, NEW e, NEW i, NEW to
    PROVE  IsTable(t, e, i, to)' <=> IsTable(t, e, i, to)
  BY DEF IsTable, Says, IsFrameHeader

\* A line that opens a table, and nothing after it, is one without entries.
LEMMA OpeningIsTable ==
    ASSUME NEW i \in Nat, file.lines[i].brace \in {"open", "end"}
    PROVE  IsTable(file.lines[i].text, <<>>, i, i)
  <1>1. i + 1 .. i = {} /\ DOMAIN <<>> = {}
    OBVIOUS
  <1>2. <<>> \in [DOMAIN <<>> -> i + 1 .. i]
    OBVIOUS
  <1>. QED
    BY <1>1, <1>2 DEF IsTable

\* A line that does not close the block belongs to it; if it says an entry, the
\* table may have that last.
LEMMA TableGrows ==
    ASSUME NEW t, NEW e \in Seq([id : 0 .. 255, delay_ms : Nat]), NEW x \in [id : 0 .. 255, delay_ms : Nat],
           NEW i \in Nat, NEW to \in Nat, i <= to, IsTable(t, e, i, to),
           file.lines[to + 1].brace # "close", NEW g,
           g = e \/ (g = Append(e, x) /\ Says(file.lines[to + 1], x, i))
    PROVE  IsTable(t, g, i, to + 1)
  <1>0. PICK n \in Nat : n = Len(e) /\ DOMAIN e = 1 .. n
    OBVIOUS
  <1>1. PICK at \in [1 .. n -> i + 1 .. to] :
            /\ \A j, k \in 1 .. n : j < k => at[j] < at[k]
            /\ \A k \in 1 .. n : Says(file.lines[at[k]], e[k], i)
    BY <1>0 DEF IsTable
  <1>2. /\ file.lines[i].brace \in {"open", "end"} /\ file.lines[i].text = t
        /\ \A m \in i + 1 .. to : file.lines[m].brace # "close"
    BY DEF IsTable
  <1>5. \A m \in i + 1 .. to + 1 : file.lines[m].brace # "close"
    <2>1. \A m \in i + 1 .. to + 1 : m = to + 1 \/ m \in i + 1 .. to
      OBVIOUS
    <2>. QED
      BY <1>2, <2>1
  <1>3. CASE g = e
    <2>1. at \in [DOMAIN g -> i + 1 .. to + 1]
      BY <1>0, <1>3
    <2>. QED
      BY <1>0, <1>1, <1>2, <1>3, <1>5, <2>1 DEF IsTable
  <1>4. CASE g = Append(e, x) /\ Says(file.lines[to + 1], x, i)
    <2> DEFINE more == [k \in 1 .. n + 1 |-> IF k = n + 1 THEN to + 1 ELSE at[k]]
    <2>1. /\ DOMAIN g = 1 .. n + 1 /\ g[n + 1] = x
          /\ \A k \in 1 .. n : g[k] = e[k]
      BY <1>0, <1>4
    <2>2. /\ more \in [1 .. n + 1 -> i + 1 .. to + 1] /\ more[n + 1] = to + 1
          /\ \A k \in 1 .. n : more[k] = at[k] /\ more[k] \in i + 1 .. to
      <3>1. \A k \in 1 .. n : at[k] \in i + 1 .. to /\ k # n + 1 /\ k \in 1 .. n + 1
        BY <1>1
      <3>2. n + 1 \in 1 .. n + 1 /\ to + 1 \in i + 1 .. to + 1
        OBVIOUS
      <3>3. \A k \in 1 .. n + 1 : more[k] \in i + 1 .. to + 1
        BY <3>1, <3>2
      <3>. QED
        BY <3>1, <3>2, <3>3
    <2> HIDE DEF more
    <2>0. \A k \in 1 .. n + 1 : k = n + 1 \/ k \in 1 .. n
      OBVIOUS
    <2>3. ASSUME NEW j \in 1 .. n + 1, NEW k \in 1 .. n + 1, j < k PROVE more[j] < more[k]
      <3>1. j \in 1 .. n
        BY <2>3
      <3>2. CASE k = n + 1
        BY <2>2, <3>1, <3>2
      <3>3. CASE k \in 1 .. n
        <4>1. at[j] < at[k]
          BY <1>1, <2>3, <3>1, <3>3
        <4>. QED
          BY <2>2, <3>1, <3>3, <4>1
      <3>. QED
        BY <2>0, <3>2, <3>3
    <2>4. ASSUME NEW k \in 1 .. n + 1 PROVE Says(file.lines[more[k]], g[k], i)
      <3>1. CASE k = n + 1
        BY <1>4, <2>1, <2>2, <3>1
      <3>2. CASE k \in 1 .. n
        BY <1>1, <2>1, <2>2, <3>2
      <3>. QED
        BY <2>0, <3>1, <3>2
    <2>. QED
      BY <1>2, <1>5, <2>1, <2>2, <2>3, <2>4 DEF IsTable
  <1>. QED
    BY <1>3, <1>4

\* A table that ends before the next line is what is being read.
LEMMA TableReadingNow ==
    ASSUME file' = file, db'.frames = db.frames, NEW i \in 1 .. pos' - 1, i \in Int,
           IsTable(table'.name, table'.entries, i, pos' - 1), FramesHeaded(i - 1)
    PROVE  TableReading'
  <1>1. PICK t, e, to : t = table'.name /\ e = table'.entries /\ to = pos' - 1
    OBVIOUS
  <1>2. IsTable(t, e, i, to)'
    BY <1>1, TableStays
  <1>3. IsTable(table.name, table.entries, i, pos - 1)'
    BY <1>1, <1>2 DEF IsTable
  <1>4. FramesHeaded(i - 1)'
    BY FramesHeadedStay
  <1>. QED
    BY <1>3, <1>4 DEF TableReading

\* TablesWhole stays while the tables do.
LEMMA TablesStay ==
    ASSUME TablesWhole, file' = file, db'.schedules = db.schedules
    PROVE  TablesWhole'
  BY TableStays DEF TablesWhole

\* The frames of a file stay headed while they stay.
LEMMA HeadedSoFarStays ==
    ASSUME file' = file, db'.frames = db.frames, pos \in Int, pos' \in Int, pos <= pos', HeadedSoFar
    PROVE  HeadedSoFar'
  <1>1. \A id \in DOMAIN db.frames : HeadedBy(file.lines, id, db.frames[id].name, pos - 1)
    BY DEF HeadedSoFar, FramesHeaded
  <1>2. pos - 1 \in Int /\ pos' - 1 \in Int /\ pos - 1 <= pos' - 1
    OBVIOUS
  <1>3. \A id \in DOMAIN db.frames : HeadedBy(file.lines, id, db.frames[id].name, pos' - 1)
    BY <1>1, <1>2, HeadedStays
  <1>. QED
    BY <1>3 DEF HeadedSoFar, FramesHeaded

\* And while more are read.
LEMMA HeadedSteps ==
    ASSUME Typed, Typed', HeadedSoFar, FrameHeaded, Parse
    PROVE  HeadedSoFar' /\ FrameHeaded'
  <1>0. /\ pos \in Nat /\ pos # 0 /\ pos' \in Nat /\ pos <= pos' /\ file' = file
        /\ pos - 1 \in Int /\ pos' - 1 \in Int /\ pos - 1 <= pos' - 1
    <2>1. PInv /\ PInv'
      BY DEF Typed
    <2>2. pos \in Nat /\ pos # 0 /\ pos' \in Nat
      BY <2>1, LdfAssumption DEF PInv, TypeOK
    <2>3. file' = file
      BY <2>1, Forward
    <2>4. pos <= pos'
      BY <2>1, <2>2, Forward
    <2>5. \A a, b \in Nat : a <= b => a - 1 \in Int /\ b - 1 \in Int /\ a - 1 <= b - 1
      OBVIOUS
    <2>. QED
      BY <2>2, <2>3, <2>4, <2>5
  <1>1. CASE CloseFrame
    <2>1. section = "frame" /\ section' # "frame" /\ db' = [db EXCEPT !["frames"] = Put(db.frames, frame.id, frame)]
      BY <1>1 DEF CloseFrame
    <2>2. db'.frames = Put(db.frames, frame.id, frame)
      BY <2>1, FieldSet DEF Typed, PInv, Fields
    <2>3. ASSUME NEW id \in DOMAIN db'.frames
          PROVE  HeadedBy(file.lines, id, db'.frames[id].name, pos - 1)
      <3>1. CASE id = frame.id
        <4>1. db'.frames[id] = frame
          BY <2>2, <3>1 DEF Put
        <4>. QED
          BY <2>1, <3>1, <4>1 DEF FrameHeaded
      <3>2. CASE id # frame.id
        <4>1. id \in DOMAIN db.frames /\ db'.frames[id] = db.frames[id]
          BY <2>2, <3>2 DEF Put
        <4>. QED
          BY <4>1 DEF HeadedSoFar, FramesHeaded
      <3>. QED
        BY <3>1, <3>2
    <2>4. \A id \in DOMAIN db'.frames : HeadedBy(file.lines, id, db'.frames[id].name, pos' - 1)
      BY <1>0, <2>3, HeadedStays
    <2>. QED
      BY <1>0, <2>1, <2>4 DEF HeadedSoFar, FramesHeaded, FrameHeaded
  <1>2. CASE OpenFrame
    <2>1. db' = db /\ pos' = pos + 1
      BY <1>2 DEF OpenFrame
    <2>2. HeadedSoFar'
      BY <1>0, <2>1, HeadedSoFarStays
    <2>3. CASE section' = "frame"
      <3>1. IsFrameHeader(file.lines[pos]) /\ frame' = parse_frame_header(file.lines[pos])
        BY <1>2, <2>3 DEF OpenFrame, Reads, ln
      <3>2. /\ frame'.name = file.lines[pos].label
            /\ frame'.id = AsU8(Numeral[file.lines[pos].parts[1]])
        BY <3>1 DEF parse_frame_header
      <3>3. pos \in 1 .. pos' - 1
        BY <1>0, <2>1
      <3>4. HeadedBy(file.lines, frame'.id, frame'.name, pos' - 1)
        BY <3>1, <3>2, <3>3 DEF HeadedBy
      <3>. QED
        BY <1>0, <2>2, <3>4 DEF FrameHeaded
    <2>4. CASE section' # "frame"
      BY <2>2, <2>4 DEF FrameHeaded
    <2>. QED
      BY <2>3, <2>4
  <1>3. CASE ReadSignalRef
    <2>1. /\ db' = db /\ section = "frame"
          /\ frame' = IF IsSignalRef(ln) THEN [frame EXCEPT !.signals = Append(@, SignalRef(ln))] ELSE frame
      BY <1>3 DEF ReadSignalRef, Reads
    <2>2. frame'.id = frame.id /\ frame'.name = frame.name
      <3>1. frame \in [name : Names, id : 0 .. 255, length : Nat, signals : SignalRefs]
        BY DEF Typed, PInv, TypeOK
      <3>. QED
        BY <2>1, <3>1
    <2>3. HeadedBy(file.lines, frame.id, frame.name, pos' - 1)
      BY <1>0, <2>1, HeadedStays DEF FrameHeaded
    <2>4. HeadedSoFar'
      BY <1>0, <2>1, HeadedSoFarStays
    <2>. QED
      BY <1>0, <2>2, <2>3, <2>4 DEF FrameHeaded
  <1>4. CASE ParseTop \/ ReadNode \/ ReadSignal \/ SkipInFrames \/ ParseTables
    <2>1. section' # "frame"
      <3>1. CASE ParseTop
        BY <3>1 DEF ParseTop, ReadVersion, EnterSection, SkipTop, CloseSection, Finish, SectionKeys
      <3>2. CASE ReadNode \/ ReadSignal \/ SkipInFrames
        BY <3>2 DEF ReadNode, ReadSignal, SkipInFrames, Reads
      <3>3. CASE ParseTables
        BY <3>3 DEF ParseTables, OpenTable, SkipInTables, ReadEntry, CloseTable, Reads
      <3>. QED
        BY <1>4, <3>1, <3>2, <3>3
    <2>2. db'.frames = db.frames
      BY <1>4, OthersKeepFrames
    <2>3. HeadedSoFar'
      BY <1>0, <2>2, HeadedSoFarStays
    <2>. QED
      BY <2>1, <2>3 DEF FrameHeaded
  <1>. QED
    BY <1>1, <1>2, <1>3, <1>4 DEF Parse, ParseFrames

\* A line of a table's body keeps the table a block.
LEMMA EntryKeeps ==
    ASSUME Typed, Typed', TableReading, ReadEntry
    PROVE  TableReading'
  <1>1. PICK to \in Nat :
            /\ pos = to + 1 /\ pos' - 1 = to + 1 /\ pos - 1 = to /\ file.lines[to + 1] = ln
            /\ file.lines[to + 1].brace # "close"
    <2>1. pos' = pos + 1 /\ file.lines[pos].brace # "close"
      BY DEF ReadEntry, Reads, Closes, ln
    <2>2. pos - 1 \in Nat /\ pos = (pos - 1) + 1 /\ pos' - 1 = (pos - 1) + 1
      BY <2>1, LdfAssumption DEF Typed, PInv, TypeOK
    <2>. QED
      BY <2>1, <2>2 DEF ln
  <1>2. file' = file /\ db' = db /\ section = "table"
    BY DEF ReadEntry, Reads
  <1>3. PICK i \in 1 .. to : IsTable(table.name, table.entries, i, to) /\ FramesHeaded(i - 1)
    BY <1>1, <1>2 DEF TableReading
  <1>4. i \in Nat /\ i <= to /\ i \in 1 .. to + 1 /\ i \in Int
    OBVIOUS
  <1>5. PICK t, e : t = table.name /\ e = table.entries /\ IsTable(t, e, i, to)
    BY <1>3
  <1>6. /\ table \in [name : Names, entries : Entries]
        /\ e \in Seq([id : 0 .. 255, delay_ms : Nat])
    BY <1>5 DEF Typed, PInv, TypeOK, Entries
  <1>7. IsTable(table'.name, table'.entries, i, to + 1)
    <2>1. CASE table' = table
      <3>1. PICK x \in [id : 0 .. 255, delay_ms : Nat] : TRUE
        <4>1. [id |-> 0, delay_ms |-> 0] \in [id : 0 .. 255, delay_ms : Nat]
          OBVIOUS
        <4>. QED
          BY <4>1
      <3>2. IsTable(t, e, i, to + 1)
        BY <1>1, <1>4, <1>5, <1>6, TableGrows
      <3>. QED
        BY <1>5, <2>1, <3>2
    <2>2. CASE table' # table
      <3>1. PICK id \in frame_id_by_name(ln.words[1]) :
              /\ IsEntry(ln) /\ Usable(id)
              /\ table' = [table EXCEPT !.entries = Append(@, [id |-> id, delay_ms |-> Uint0(ln.words[3]) % U32])]
        BY <2>2 DEF ReadEntry
      <3>2. id \in 0 .. 255 /\ id \in DOMAIN db.frames /\ db.frames[id].name = ln.words[1]
        <4>1. id \in 0 .. 255 /\ id \in DOMAIN db.frames /\ id # 255
          BY <3>1, NameType DEF Typed, LIN_MAX_ID
        <4>. QED
          BY <3>1, <4>1 DEF frame_id_by_name
      <3>3. PICK x \in [id : 0 .. 255, delay_ms : Nat] : x = [id |-> id, delay_ms |-> Uint0(ln.words[3]) % U32]
        BY <3>2, NumberType
      <3>4. HeadedBy(file.lines, x.id, ln.words[1], i - 1)
        BY <1>3, <3>2, <3>3 DEF FramesHeaded
      <3>5. Says(ln, x, i)
        BY <3>1, <3>3, <3>4, SaysIs
      <3>6. table'.name = t /\ table'.entries = Append(e, x)
        BY <1>5, <1>6, <3>1, <3>3
      <3>7. PICK g : g = Append(e, x)
        OBVIOUS
      <3>8. IsTable(t, g, i, to + 1)
        BY <1>1, <1>4, <1>5, <1>6, <3>5, <3>7, TableGrows
      <3>. QED
        BY <3>6, <3>7, <3>8
    <2>. QED
      BY <2>1, <2>2
  <1>. QED
    BY <1>1, <1>2, <1>3, <1>4, <1>7, TableReadingNow

\* The end of a table files a block.
LEMMA TableFiled ==
    ASSUME Typed, Typed', TableReading, TablesWhole, CloseTable
    PROVE  TablesWhole'
  <1>0. pos \in 1 .. Len(file.lines) + 1 /\ Len(file.lines) \in Nat
    BY LdfAssumption DEF Typed, PInv, TypeOK
  <1>1. /\ file' = file /\ section = "table"
        /\ pos > Len(file.lines) \/ file.lines[pos].brace = "close"
        /\ db'.schedules = Put(db.schedules, table.name, table.entries)
    <2>1. db' = [db EXCEPT !["schedules"] = Put(db.schedules, table.name, table.entries)]
      BY DEF CloseTable
    <2>2. db'.schedules = Put(db.schedules, table.name, table.entries)
      BY <2>1, FieldSet DEF Typed, PInv, Fields
    <2>. QED
      BY <2>2 DEF CloseTable, AtEnd, Closes, ln
  <1>2. PICK i \in 1 .. pos - 1 : IsTable(table.name, table.entries, i, pos - 1)
    BY <1>1 DEF TableReading
  <1>3. i \in DOMAIN file.lines /\ pos - 1 \in i .. Len(file.lines) /\ (pos - 1) + 1 = pos
    <2>1. file.lines \in Seq(Line)
      BY LdfAssumption DEF Typed, PInv
    <2>. QED
      BY <1>0, <1>2, <2>1
  <1>4. ASSUME NEW t \in DOMAIN db'.schedules
        PROVE  \E j \in DOMAIN file.lines : \E to \in j .. Len(file.lines) :
                  /\ IsTable(t, db'.schedules[t], j, to)
                  /\ to < Len(file.lines) => file.lines[to + 1].brace = "close"
    <2>1. CASE t = table.name
      <3>1. db'.schedules[t] = table.entries
        BY <1>1, <2>1 DEF Put
      <3>2. pos - 1 < Len(file.lines) => file.lines[(pos - 1) + 1].brace = "close"
        BY <1>0, <1>1, <1>3
      <3>. QED
        BY <1>2, <1>3, <2>1, <3>1, <3>2
    <2>2. CASE t # table.name
      <3>1. t \in DOMAIN db.schedules /\ db'.schedules[t] = db.schedules[t]
        BY <1>1, <2>2 DEF Put
      <3>. QED
        BY <3>1 DEF TablesWhole
    <2>. QED
      BY <2>1, <2>2
  <1>. QED
    BY <1>1, <1>4, TableStays DEF TablesWhole

\* Every step keeps the tables blocks, read or being read.
LEMMA TablesSteps ==
    ASSUME Typed, Typed', Tables, [Next]_vars
    PROVE  Tables'
  <1>0. pos \in Nat /\ HeadedSoFar /\ FrameHeaded /\ TableReading /\ TablesWhole
    BY LdfAssumption DEF Typed, PInv, TypeOK, Tables
  <1>1. CASE Parse
    <2>0. HeadedSoFar' /\ FrameHeaded' /\ file' = file
      BY <1>0, <1>1, HeadedSteps, Forward DEF Typed
    <2>1. CASE OpenTable
      <3>1. /\ db' = db /\ pos' = pos + 1 /\ table' = [name |-> ln.text, entries |-> <<>>]
            /\ ln.brace \in {"open", "end"}
        BY <2>1 DEF OpenTable
      <3>2. IsTable(table'.name, table'.entries, pos, pos)
        BY <1>0, <3>1, OpeningIsTable DEF ln
      <3>3. pos' - 1 = pos /\ pos \in 1 .. pos' - 1 /\ pos \in Int
        BY <1>0, <3>1 DEF Typed, PInv, TypeOK
      <3>4. FramesHeaded(pos - 1)
        BY <1>0 DEF HeadedSoFar
      <3>5. PICK i : i = pos /\ i \in 1 .. pos' - 1 /\ i \in Int /\ pos' - 1 = i
        BY <3>3
      <3>6. TableReading'
        BY <2>0, <3>1, <3>2, <3>4, <3>5, TableReadingNow
      <3>. QED
        BY <1>0, <2>0, <3>1, <3>6, TablesStay DEF Tables
    <2>2. CASE ReadEntry
      <3>1. db' = db /\ TableReading'
        BY <1>0, <2>2, EntryKeeps DEF ReadEntry
      <3>. QED
        BY <1>0, <2>0, <3>1, TablesStay DEF Tables
    <2>3. CASE CloseTable
      <3>1. section' # "table" /\ TablesWhole'
        BY <1>0, <2>3, TableFiled DEF CloseTable
      <3>. QED
        BY <2>0, <3>1 DEF Tables, TableReading
    <2>4. CASE ParseTop \/ ReadNode \/ ReadSignal \/ ParseFrames \/ SkipInTables
      <3>1. section' # "table"
        <4>1. CASE ParseTop
          BY <4>1 DEF ParseTop, ReadVersion, EnterSection, SkipTop, CloseSection, Finish, SectionKeys
        <4>2. CASE ReadNode \/ ReadSignal \/ SkipInTables
          BY <4>2 DEF ReadNode, ReadSignal, SkipInTables, Reads
        <4>3. CASE ParseFrames
          BY <4>3 DEF ParseFrames, OpenFrame, SkipInFrames, ReadSignalRef, CloseFrame, Reads
        <4>. QED
          BY <2>4, <4>1, <4>2, <4>3
      <3>2. db'.schedules = db.schedules
        <4>1. CASE ParseTop
          <5>1. db' = db \/ db' = [db EXCEPT !["header"] = Put(db.header, ln.key, ln.parts[1])]
            BY <4>1 DEF ParseTop, ReadVersion, EnterSection, SkipTop, CloseSection, Finish
          <5>. QED
            BY <5>1, FieldSet DEF Typed, PInv, Fields
        <4>2. CASE ReadNode \/ ReadSignal
          BY <4>2, NodeType DEF Typed
        <4>3. CASE OpenFrame \/ SkipInFrames \/ ReadSignalRef \/ SkipInTables
          BY <4>3 DEF OpenFrame, SkipInFrames, ReadSignalRef, SkipInTables
        <4>4. CASE CloseFrame
          BY <4>4, CloseFrameType DEF Typed
        <4>. QED
          BY <2>4, <4>1, <4>2, <4>3, <4>4 DEF ParseFrames
      <3>. QED
        BY <1>0, <2>0, <3>1, <3>2, TablesStay DEF Tables, TableReading
    <2>. QED
      BY <1>1, <2>1, <2>2, <2>3, <2>4 DEF Parse, ParseTables
  <1>2. CASE UNCHANGED <<file, pos, section, frame, table, db>>
    <2>1. TableReading'
      <3>1. CASE section = "table"
        <4>1. PICK i \in 1 .. pos - 1 : IsTable(table.name, table.entries, i, pos - 1) /\ FramesHeaded(i - 1)
          BY <1>0, <3>1 DEF TableReading
        <4>. QED
          BY <1>2, <4>1, TableReadingNow
      <3>2. CASE section # "table"
        BY <1>2, <3>2 DEF TableReading
      <3>. QED
        BY <3>1, <3>2
    <2>. QED
      BY <1>0, <1>2, <2>1, TablesStay DEF Tables, HeadedSoFar, FramesHeaded, FrameHeaded
  <1>. QED
    BY <1>1, <1>2 DEF Next, Decode, vars

\* Whatever the file holds, the entries of each table of the database are lines
\* of one block of it, in order, each with the id of a frame headed above the
\* block under the name the line gives (parse_schedule_tables).
THEOREM TablesAreBlocks == Spec => []TablesWhole
  <1>1. Init => Tables
    <2> SUFFICES ASSUME Init PROVE Tables
      OBVIOUS
    <2>1. section = "top" /\ db.frames = <<>> /\ db.schedules = <<>>
      BY DEF Init, EmptyDb
    <2>2. DOMAIN <<>> = {}
      OBVIOUS
    <2>. QED
      BY <2>1, <2>2 DEF Tables, HeadedSoFar, FramesHeaded, FrameHeaded, TableReading, TablesWhole
  <1>2. Typed /\ Typed' /\ Tables /\ [Next]_vars => Tables'
    BY TablesSteps
  <1>3. Tables => TablesWhole
    BY DEF Tables
  <1>. QED
    BY <1>1, <1>2, <1>3, AlwaysTyped, PTL DEF Spec

(***************************************************************************)
(* What decode answers.                                                    *)
(***************************************************************************)
\* A bit's byte, and its place there.
LEMMA Octet ==
    ASSUME NEW m \in Nat, NEW b \in 0 .. 7, NEW k \in Nat, k = 8 * m + b
    PROVE  k \div 8 = m /\ k % 8 = b
  <1>1. k \div 8 = m
    OBVIOUS
  <1>2. k % 8 = b
    OBVIOUS
  <1>. QED
    BY <1>1, <1>2

\* BitOf is membership in the bits of the payload.
LEMMA BitsAreFlat ==
    ASSUME NEW data \in Seq(SUBSET (0 .. 7)), NEW k \in Nat
    PROVE  BitOf(data, k) <=> k \in Flat(data)
  <1>1. k \div 8 \in Nat /\ k % 8 \in 0 .. 7 /\ k = 8 * (k \div 8) + (k % 8)
    OBVIOUS
  <1>2. ASSUME BitOf(data, k) PROVE k \in Flat(data)
    <2> DEFINE n == k \div 8 + 1
    <2>1. n \in DOMAIN data /\ k % 8 \in data[n] /\ k = 8 * (n - 1) + (k % 8)
      BY <1>1, <1>2 DEF BitOf
    <2>2. k \in {8 * (n - 1) + b : b \in data[n]}
      BY <2>1
    <2> HIDE DEF n
    <2>. QED
      BY <2>1, <2>2 DEF Flat
  <1>3. ASSUME k \in Flat(data) PROVE BitOf(data, k)
    <2>1. PICK n \in DOMAIN data : k \in {8 * (n - 1) + b : b \in data[n]}
      BY <1>3 DEF Flat
    <2>2. PICK b \in data[n] : k = 8 * (n - 1) + b
      BY <2>1
    <2>3. n \in 1 .. Len(data) /\ b \in 0 .. 7
      OBVIOUS
    <2>4. PICK m \in Nat : m = n - 1 /\ k = 8 * m + b /\ m < Len(data) /\ b \in data[m + 1]
      BY <2>2, <2>3
    <2>5. b \in 0 .. 7
      BY <2>3
    <2>6. k \div 8 = m /\ k % 8 = b
      BY <2>4, <2>5, Octet
    <2>. QED
      BY <2>4, <2>6 DEF BitOf
  <1>. QED
    BY <1>2, <1>3

\* A set of places in a sequence that is not empty has a last one.
LEMMA LastPlace ==
    ASSUME NEW n \in Nat, NEW S \in SUBSET (1 .. n), S # {}
    PROVE  \E i \in S : \A j \in S : j <= i
  <1> DEFINE T == {n - i : i \in S}
  <1>1. T \in SUBSET Nat /\ T # {}
    <2>1. \A i \in S : n - i \in Nat
      OBVIOUS
    <2>. QED
      BY <2>1
  <1>2. PICK t \in T : \A u \in T : ~(<<u, t>> \in OpToRel(<, Nat))
    <2> HIDE DEF T
    <2>. QED
      BY <1>1, NatLessThanWellFounded, WFMin
  <1>3. \A u \in T : ~(u < t)
    BY <1>1, <1>2 DEF OpToRel
  <1>4. PICK i \in S : t = n - i
    OBVIOUS
  <1>5. \A j \in S : n - j \in T
    OBVIOUS
  <1>6. ASSUME NEW j \in S PROVE j <= i
    <2>1. ~(n - j < n - i)
      BY <1>3, <1>4, <1>5
    <2>. QED
      BY <2>1
  <1>. QED
    BY <1>6

\* The reference decode takes for a signal is one of the frame's.
LEMMA LastRefType ==
    ASSUME NEW refs \in SignalRefs, NEW k \in DOMAIN refs
    PROVE  LastRef(refs, refs[k].name) \in [name : STRING, bit_offset : Nat]
  <1> DEFINE s == refs[k].name
             P(i) == refs[i].name = s /\ \A j \in DOMAIN refs : refs[j].name = s => j <= i
             S == {i \in DOMAIN refs : refs[i].name = s}
  <1>1. refs \in Seq([name : STRING, bit_offset : Nat])
    BY DEF SignalRefs
  <1>2. Len(refs) \in Nat /\ S \in SUBSET (1 .. Len(refs)) /\ k \in S
    BY <1>1
  <1>3. PICK i \in S : \A j \in S : j <= i
    <2> HIDE DEF S
    <2>. QED
      BY <1>2, LastPlace
  <1>4. i \in DOMAIN refs /\ P(i)
    BY <1>3
  <1>5. LastRef(refs, s) = refs[CHOOSE x \in DOMAIN refs : P(x)]
    BY DEF LastRef
  <1>6. (CHOOSE x \in DOMAIN refs : P(x)) \in DOMAIN refs
    <2> HIDE DEF P
    <2>. QED
      BY <1>4
  <1>7. PICK x \in DOMAIN refs : LastRef(refs, s) = refs[x]
    BY <1>5, <1>6
  <1>8. PICK R : R = [name : STRING, bit_offset : Nat]
    OBVIOUS
  <1>9. refs \in Seq(R)
    BY <1>1, <1>8
  <1>10. \A m \in DOMAIN refs : refs[m] \in R
    BY <1>9
  <1>. QED
    BY <1>7, <1>8, <1>10

\* What one signal is given.
LEMMA BitsExtracted ==
    ASSUME NEW data \in Seq(SUBSET (0 .. 7)), NEW first \in Nat, NEW width, first + 63 < Usize
    PROVE  extract_bits(data, first, width) = {i \in 0 .. 63 : i < width /\ first + i \in Flat(data)}
  <1>1. ASSUME NEW i \in 0 .. 63
        PROVE  BitOf(data, (first + i) % Usize) <=> first + i \in Flat(data)
    <2>1. first + i \in Nat /\ first + i < Usize
      BY LdfAssumption
    <2>2. (first + i) % Usize = first + i
      BY <2>1, LdfAssumption
    <2>. QED
      BY <2>1, <2>2, BitsAreFlat
  <1>. QED
    BY <1>1 DEF extract_bits

\* It is a question of the database alone.
LEMMA FaithfulStays ==
    ASSUME db' = db, NEW r
    PROVE  Faithful(r)' <=> Faithful(r)
  BY DEF Faithful

\* The answer, and no parsing after it.
Answered == DecodeFaithful /\ (decoded # {} => section = "done")

\* A decode of what the parser left is faithful.
LEMMA DecodeStep ==
    ASSUME Typed, Decode
    PROVE  DecodeFaithful'
  <1>1. PICK id \in DOMAIN db.frames \cup {LIN_MAX_ID}, data \in Payloads :
            decoded' = {[id |-> id, data |-> data, result |-> decode(id, data)]}
    BY DEF Decode
  <1>2. db' = db
    BY DEF Decode
  <1>3. PICK r : r = [id |-> id, data |-> data, result |-> decode(id, data)] /\ decoded' = {r}
    BY <1>1
  <1>4. r.id = id /\ r.data = data /\ r.result = decode(id, data)
    BY <1>3
  <1>5. r.result = {} <=> r.id \notin DOMAIN db.frames
    BY <1>4 DEF decode
  <1>6. Faithful(r)
    <2> SUFFICES ASSUME NEW v \in r.result
                 PROVE  LET refs == db.frames[r.id].signals IN
                    /\ DOMAIN v = {refs[i].name : i \in DOMAIN refs} \cap DOMAIN db.signals
                    /\ \A s \in DOMAIN v : LET first == LastRef(refs, s).bit_offset IN
                        first + 63 < Usize =>
                            v[s] = {i \in 0 .. 63 : i < db.signals[s].bit_width /\ first + i \in Flat(r.data)}
      BY <1>5 DEF Faithful
    <2> DEFINE refs == db.frames[r.id].signals
               S == {refs[i].name : i \in DOMAIN refs} \cap DOMAIN db.signals
    <2>1. r.id \in DOMAIN db.frames /\ v = Values(refs, data)
      BY <1>4 DEF decode
    <2>2. v = [s \in S |-> extract_bits(data, LastRef(refs, s).bit_offset, db.signals[s].bit_width)]
      BY <2>1 DEF Values
    <2>3. refs \in SignalRefs /\ data \in Seq(SUBSET (0 .. 7))
      BY <2>1, LdfAssumption DEF Typed, PInv, TypeOK
    <2>4. ASSUME NEW s \in S, LastRef(refs, s).bit_offset + 63 < Usize
          PROVE  v[s] = {i \in 0 .. 63 : i < db.signals[s].bit_width
                                            /\ LastRef(refs, s).bit_offset + i \in Flat(data)}
      <3>1. PICK k \in DOMAIN refs : s = refs[k].name
        BY <2>4
      <3> HIDE DEF refs
      <3>2. LastRef(refs, s).bit_offset \in Nat
        BY <2>3, <3>1, LastRefType
      <3>3. PICK first \in Nat : first = LastRef(refs, s).bit_offset
        BY <3>2
      <3>4. PICK width : width = db.signals[s].bit_width
        OBVIOUS
      <3>5. v[s] = extract_bits(data, first, width)
        BY <2>2, <3>3, <3>4
      <3>6. first + 63 < Usize
        BY <2>4, <3>3
      <3>7. extract_bits(data, first, width) = {i \in 0 .. 63 : i < width /\ first + i \in Flat(data)}
        BY <2>3, <3>6, BitsExtracted
      <3>. QED
        BY <3>3, <3>4, <3>5, <3>7
    <2>5. DOMAIN v = S
      BY <2>2
    <2> HIDE DEF S, refs
    <2>6. /\ DOMAIN v = S
          /\ \A s \in DOMAIN v : LastRef(refs, s).bit_offset + 63 < Usize =>
                v[s] = {i \in 0 .. 63 : i < db.signals[s].bit_width
                                            /\ LastRef(refs, s).bit_offset + i \in Flat(r.data)}
      BY <1>4, <2>4, <2>5
    <2>. QED
      BY <2>6 DEF S, refs
  <1>. QED
    BY <1>2, <1>3, <1>6, FaithfulStays DEF DecodeFaithful

\* Parsing is over when decode is called.
LEMMA AnswerSteps ==
    ASSUME Typed, Answered, [Next]_vars
    PROVE  Answered'
  <1>1. CASE Decode
    BY <1>1, DecodeStep DEF Answered, Decode
  <1>2. CASE Parse
    <2>1. section # "done" /\ decoded' = decoded
      <3>1. CASE ParseTop
        BY <3>1 DEF ParseTop, ReadVersion, EnterSection, SkipTop, CloseSection, Finish, SectionKeys
      <3>2. CASE ReadNode \/ ReadSignal
        BY <3>2 DEF ReadNode, ReadSignal, Reads
      <3>3. CASE ParseFrames
        BY <3>3 DEF ParseFrames, OpenFrame, SkipInFrames, ReadSignalRef, CloseFrame, Reads
      <3>4. CASE ParseTables
        BY <3>4 DEF ParseTables, OpenTable, SkipInTables, ReadEntry, CloseTable, Reads
      <3>. QED
        BY <1>2, <3>1, <3>2, <3>3, <3>4 DEF Parse
    <2>2. decoded = {} /\ decoded' = {}
      BY <2>1 DEF Answered
    <2>. QED
      BY <2>2 DEF Answered, DecodeFaithful
  <1>3. CASE UNCHANGED vars
    <2>1. db' = db /\ decoded' = decoded /\ section' = section
      BY <1>3 DEF vars
    <2>. QED
      BY <2>1, FaithfulStays DEF Answered, DecodeFaithful
  <1>. QED
    BY <1>1, <1>2, <1>3 DEF Next

\* For every database the parser can leave and every payload, decode gives each
\* signal placed in the frame, and declared, the bits of the payload at its
\* place, and no others (Db::decode, extract_bits).
THEOREM DecodeCorrect == Spec => []DecodeFaithful
  <1>1. Init => Answered
    BY DEF Init, Answered, DecodeFaithful
  <1>2. Typed /\ Answered /\ [Next]_vars => Answered'
    BY AnswerSteps
  <1>3. Answered => DecodeFaithful
    BY DEF Answered
  <1>. QED
    BY <1>1, <1>2, <1>3, AlwaysTyped, PTL DEF Spec
=============================================================================
