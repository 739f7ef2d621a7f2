------------------------------ MODULE CallWire ------------------------------
(***************************************************************************)
(* What a call looks like on the wire, from the caller's parameters to the *)
(* handler's and back (invoke.py, codec.py, server.py): the TLV records of *)
(* a request and of a reply, the stream they are written to, the frames a  *)
(* gateway cuts a reply into, and the reader that joins them again         *)
(* (connection.py) without a length to go by.                              *)
(*                                                                         *)
(* A cell is a 2-byte word of the stream: a tag, a length, a piece of data.*)
(* A scalar is what its type's encode() makes of it, some cells; a row is  *)
(* RowSize cells.  Compressed tables and BASXML are left out.  A SAP server *)
(* and the gateway are external.                                           *)
(***************************************************************************)
EXTENDS Naturals, SequencesExt

CONSTANTS
  Descs,         (* interfaces: sequences of [name, direction, table]       *)
  ParamSets, ResultSets,   (* functions from names to values                *)
  Forms,         (* how a table comes back: "plain", "named", "delta"       *)
  Chunks,        (* cells the gateway puts into a frame, 14000 of them      *)
  RowSize,
  Padding,       (* cells a SAP server adds to a row                        *)
  ExtendedFrom,  (* the length a record's own length word cannot hold       *)
  MaxFrames      (* frames the reader takes of one reply, 256 of them       *)

(* The length word of a record whose length has a word of its own.          *)
LengthFollows == 65535

(* The first record of a reply is empty, and its frame holds all of it.     *)
ASSUME WireAssumption ==
  /\ Chunks \subseteq Nat \ 0..2
  /\ RowSize \in Nat \ {0} /\ Padding \in Nat
  /\ ExtendedFrom \in 1..LengthFollows
  /\ MaxFrames \in Nat \ {0}
  /\ Forms \subseteq {"plain", "named", "delta"}

Directions == {"import", "export", "changing", "tables"}

ASSUME DescAssumption ==
  /\ Descs \subseteq Seq([name : Nat \ {0}, direction : Directions, table : BOOLEAN])
  /\ \A d \in Descs : \A i, j \in DOMAIN d : d[i].name = d[j].name => i = j

(* A value is of its parameter's type.                                      *)
ASSUME ValueAssumption ==
  \A d \in Descs, v \in ParamSets \union ResultSets : \A i \in DOMAIN d :
    d[i].name \in DOMAIN v =>
      v[d[i].name] \in IF d[i].table THEN Seq([1..RowSize -> Nat]) ELSE Seq(Nat)

FuncName == 258
ParamName == 513
ParamValue == 515
ExportDecl == 517
TableName == 769
TableInfo == 770
TableContent == 771
TableRow == 772
TableEnd == 774
DmTableId == 816
TableDelta == 821
TableDeltaEnd == 822
ReturnCode == 1056
ResponseStart == 1280
CallStart == 1282
ParamSection == 1298
Terminator == 65535

VARIABLES
  desc, params, result, form, chunk,   (* chosen at the start               *)
  phase,         (* "calling", "called", "reading", "joined", "done", "raised" *)
  got,           (* the parameters the handler is called with               *)
  wire,          (* cells on their way to the reader                        *)
  joined,        (* cells it has read of the reply                          *)
  frames,        (* in so many frames                                       *)
  back           (* what the caller gets                                    *)

vars == <<desc, params, result, form, chunk, phase, got, wire, joined, frames, back>>

-----------------------------------------------------------------------------
(* The stream                                                               *)

Rec(tag, value) == [tag |-> tag, value |-> value]

TlvRecord(r) ==
  LET n == Len(r.value) IN
  <<r.tag>> \o (IF n >= ExtendedFrom THEN <<LengthFollows, 0, n>> ELSE <<n>>) \o r.value \o <<r.tag>>

Stream(records) == FlattenSeq([i \in DOMAIN records |-> TlvRecord(records[i])])

(* The record that begins at pos: its length may stand in a word of its own.*)
Extended(s, pos) == s[pos + 1] = LengthFollows

ValueFrom(s, pos) == pos + (IF Extended(s, pos) THEN 4 ELSE 2)

ValueEnd(s, pos) ==
  ValueFrom(s, pos) - 1 + (IF Extended(s, pos) THEN s[pos + 3] ELSE s[pos + 1])

(* The cells hold all of it, its closing tag aside.                         *)
Holds(s, pos) ==
  /\ Extended(s, pos) => pos + 3 <= Len(s)
  /\ ValueEnd(s, pos) <= Len(s)

RecordAt(s, pos) == Rec(s[pos], SubSeq(s, ValueFrom(s, pos), ValueEnd(s, pos)))

(* A closing tag is skipped where there is one.                             *)
NextAt(s, pos) ==
  LET end == ValueEnd(s, pos) + 1 IN
  IF end <= Len(s) /\ s[end] = s[pos] THEN end + 1 ELSE end

(* Mutant: a walk that falls off the end between two records is no TLV.     *)
FellOffIsNotTlv(pos, inside) == IF inside THEN "truncated" ELSE "not_tlv"

(* The end of the cells before a terminator, inside a record or not: it is  *)
(* no TLV unless a record came before.                                      *)
FellOff(pos, inside) == IF pos = 1 THEN "not_tlv" ELSE "truncated"

(* One walk serves the status and the records: those from pos on.           *)
Walk(s) ==
  LET Ends(status) == [records |-> <<>>, status |-> status]
      walk[pos \in 1..Len(s) + 1] ==
        IF pos >= Len(s) THEN Ends(FellOff(pos, FALSE))
        ELSE IF s[pos] = Terminator THEN Ends("complete")
        ELSE IF ~Holds(s, pos) THEN Ends(FellOff(pos, TRUE))
        ELSE LET rest == walk[NextAt(s, pos)] IN
          [rest EXCEPT !.records = <<RecordAt(s, pos)>> \o @]
  IN walk

Status(s) == Walk(s)[1].status
Records(s) == Walk(s)[1].records

-----------------------------------------------------------------------------
(* Writing                                                                  *)

SentWithRows(f, p) ==
  f.direction # "export" /\ f.table /\ f.name \in DOMAIN p /\ p[f.name] # <<>>

(* The tables sent with rows, numbered from 1.                              *)
DmTableIds(d, p) ==
  FlattenSeq([i \in DOMAIN d |-> IF SentWithRows(d[i], p) THEN <<d[i].name>> ELSE <<>>])

Wider(row) == row \o [i \in 1..Padding |-> 0]

RowRecords(tag, rows) == [i \in DOMAIN rows |-> Rec(tag, rows[i])]

TableRequest(d, p, f) ==
  LET rows == p[f.name]
      id == CHOOSE i \in 1..Len(DmTableIds(d, p)) : DmTableIds(d, p)[i] = f.name IN
  IF rows = <<>> THEN <<>>
  ELSE <<Rec(TableName, <<f.name>>), Rec(DmTableId, <<id>>),
         Rec(TableInfo, <<RowSize, Len(rows)>>)>> \o RowRecords(TableContent, rows)

Scalar(f, value) == <<Rec(ParamName, <<f.name>>), Rec(ParamValue, value)>>

BuildInvokeRequest(d, p) ==
  <<Rec(CallStart, <<>>), Rec(FuncName, <<1>>), Rec(ParamSection, <<>>)>>
  \o FlattenSeq([i \in DOMAIN d |->
       IF d[i].direction # "import" THEN <<Rec(ExportDecl, <<d[i].name>>)>> ELSE <<>>])
  \o FlattenSeq([i \in DOMAIN d |->
       IF d[i].direction = "export" \/ d[i].name \notin DOMAIN p THEN <<>>
       ELSE IF d[i].table THEN TableRequest(d, p, d[i])
       ELSE Scalar(d[i], p[d[i].name])])
  \o <<Rec(Terminator, <<>>)>>

(* A table of a reply: as RfcServer writes it, or as a SAP server does, in   *)
(* wider rows, with the name before it, or as a delta of the table that was *)
(* sent under an id.                                                        *)
TableReply(f, rows, ids, style) ==
  LET Info(size) == Rec(TableInfo, <<size, Len(rows)>>)
      wider == [i \in DOMAIN rows |-> Wider(rows[i])]
      sent == {i \in DOMAIN ids : ids[i] = f.name} IN
  CASE style = "named" ->
         <<Rec(ParamName, <<f.name>>), Rec(TableName, <<>>), Info(RowSize + Padding),
           Rec(TableContent, FlattenSeq(wider)), Rec(TableEnd, <<>>)>>
    [] style = "delta" /\ sent # {} ->
         <<Rec(TableDelta, <<3, CHOOSE i \in sent : TRUE, Len(rows)>>), Info(RowSize)>>
         \o RowRecords(TableContent, rows) \o <<Rec(TableDeltaEnd, <<>>)>>
    [] OTHER ->
         <<Rec(TableName, <<f.name>>)>>
         \o IF rows = <<>> THEN <<>>
            ELSE <<Rec(DmTableId, <<1>>), Info(RowSize)>> \o RowRecords(TableRow, rows)

BuildResponse(d, r, ids, style) ==
  <<Rec(ResponseStart, <<>>), Rec(ReturnCode, <<0>>)>>
  \o FlattenSeq([i \in DOMAIN d |->
       IF d[i].direction = "import" \/ d[i].name \notin DOMAIN r THEN <<>>
       ELSE IF d[i].table THEN TableReply(d[i], r[d[i].name], ids, style)
       ELSE Scalar(d[i], r[d[i].name])])
  \o <<Rec(Terminator, <<>>)>>

-----------------------------------------------------------------------------
(* Reading                                                                  *)

(* _extract_name_value_pairs: its locals.  `name` is 0 for None.            *)
Nothing == [pairs |-> <<>>, name |-> 0, inTable |-> FALSE, rows |-> <<>>, counts |-> <<>>]

InNamedTable(a) == a.inTable /\ a.name # 0

(* Mutant: a table that is open when the next name comes is not kept.       *)
FlushedNot(a) == a

(* The table that is open, if it has a name, becomes a pair.                *)
Flushed(a) ==
  IF InNamedTable(a) THEN [a EXCEPT !.pairs = Append(@, <<a.name, a.rows>>)] ELSE a

NameRead(a, r) ==
  IF InNamedTable(a)
    THEN [Flushed(a) EXCEPT !.inTable = FALSE, !.rows = <<>>, !.name = r.value[1]]
    ELSE [a EXCEPT !.name = r.value[1]]

ValueRead(a, r) ==
  IF a.name # 0 /\ ~a.inTable
    THEN [a EXCEPT !.pairs = Append(@, <<a.name, r.value>>), !.name = 0]
    ELSE a

TableNameRead(a, r) ==
  [Flushed(a) EXCEPT !.name = IF r.value = <<>> THEN @ ELSE r.value[1],
                     !.inTable = TRUE, !.rows = <<>>]

InfoRead(a, r) ==
  IF InNamedTable(a) /\ r.value[2] > 0
    THEN [a EXCEPT !.counts = Append(@, <<a.name, r.value[2]>>)] ELSE a

DeltaRead(a, r, ids) ==
  LET known == Len(r.value) >= 3 /\ r.value[2] \in DOMAIN ids IN
  [Flushed(a) EXCEPT !.name = IF known THEN ids[r.value[2]] ELSE 0,
                     !.inTable = known, !.rows = <<>>]

TableEndRead(a) ==
  IF InNamedTable(a)
    THEN [Flushed(a) EXCEPT !.name = 0, !.inTable = FALSE, !.rows = <<>>] ELSE a

RecordRead(a, r, ids) ==
  CASE r.tag = ParamName -> NameRead(a, r)
    [] r.tag = ParamValue -> ValueRead(a, r)
    [] r.tag = TableName -> TableNameRead(a, r)
    [] r.tag = TableInfo -> InfoRead(a, r)
    [] r.tag \in {TableContent, TableRow} ->
         IF a.inTable THEN [a EXCEPT !.rows = @ \o r.value] ELSE a
    [] r.tag = TableDelta -> DeltaRead(a, r, ids)
    [] r.tag \in {TableEnd, TableDeltaEnd} -> TableEndRead(a)
    [] OTHER -> a

(* Its loop over the records, and the table that is open after the last.    *)
Scan(records, ids) ==
  LET scan[i \in 0..Len(records)] ==
        IF i = 0 THEN Nothing ELSE RecordRead(scan[i - 1], records[i], ids)
  IN scan[Len(records)]

Extract(s, ids) == Flushed(Scan(Records(s), ids))

Undecodable == "undecodable"

(* Rows at the stride the declared count gives; without one, at RowSize.    *)
DecodeTable(data, count) ==
  LET length == Len(data)
      stride == IF count = 0 THEN RowSize ELSE length \div count IN
  CASE count = 0 /\ length = 0 -> <<>>
    [] count # 0 /\ (length % count # 0 \/ stride < RowSize) -> Undecodable
    [] OTHER -> [i \in 1..(length \div stride) |->
                   SubSeq(data, (i - 1) * stride + 1, (i - 1) * stride + RowSize)]

LastOf(pairs, name) ==
  LET at == {i \in DOMAIN pairs : pairs[i][1] = name} IN
  pairs[CHOOSE i \in at : \A j \in at : j <= i][2]

(* Of the pairs, those that are fields.                                     *)
Decoded(fields, extracted, counted) ==
  LET names == {extracted.pairs[i][1] : i \in DOMAIN extracted.pairs}
      counts == {extracted.counts[i][1] : i \in DOMAIN extracted.counts}
      Field(n) == CHOOSE f \in fields : f.name = n IN
  [n \in names \intersect {f.name : f \in fields} |->
     IF ~Field(n).table THEN LastOf(extracted.pairs, n)
     ELSE DecodeTable(LastOf(extracted.pairs, n),
                      IF counted /\ n \in counts THEN LastOf(extracted.counts, n) ELSE 0)]

-----------------------------------------------------------------------------
(* A call                                                                   *)

Init ==
  /\ desc \in Descs /\ params \in ParamSets /\ result \in ResultSets
  /\ form \in Forms /\ chunk \in Chunks
  /\ phase = "calling" /\ got = <<>> /\ wire = <<>> /\ joined = <<>> /\ frames = 0 /\ back = <<>>

Invoke ==
  /\ phase = "calling"
  /\ phase' = "called"
  /\ wire' = Stream(BuildInvokeRequest(desc, params))
  /\ UNCHANGED <<desc, params, result, form, chunk, got, joined, frames, back>>

(* The request is one frame; the handler's result is sent.                  *)
Dispatch ==
  /\ phase = "called"
  /\ phase' = "reading"
  /\ got' = Decoded(ToSet(desc), Extract(wire, <<>>), FALSE)
  /\ wire' = Stream(BuildResponse(desc, result, DmTableIds(desc, params), form))
  /\ UNCHANGED <<desc, params, result, form, chunk, joined, frames, back>>

Least(m, n) == IF m <= n THEN m ELSE n

(* The frame that says it is the last must not leave the stream short, nor  *)
(* the last frame the reader is ready to take.                              *)
ReadFrame ==
  /\ phase = "reading"
  /\ LET n == Least(chunk, Len(wire)) IN
       /\ joined' = joined \o SubSeq(wire, 1, n)
       /\ wire' = SubSeq(wire, n + 1, Len(wire))
  /\ frames' = frames + 1
  /\ phase' = CASE Status(joined') # "truncated" -> "joined"
                [] Status(joined') = "truncated" /\ (wire' = <<>> \/ frames' >= MaxFrames) -> "raised"
                [] OTHER -> "reading"
  /\ UNCHANGED <<desc, params, result, form, chunk, got, back>>

(* Without a return code the reply is malformed.                            *)
Parse ==
  /\ phase = "joined"
  /\ IF Status(joined) = "complete" /\ \E r \in ToSet(Records(joined)) : r.tag = ReturnCode
       THEN /\ phase' = "done"
            /\ back' = Decoded({f \in ToSet(desc) : f.direction # "import"},
                               Extract(joined, DmTableIds(desc, params)), TRUE)
       ELSE phase' = "raised" /\ UNCHANGED back
  /\ UNCHANGED <<desc, params, result, form, chunk, got, wire, joined, frames>>

Next == Invoke \/ Dispatch \/ ReadFrame \/ Parse

Spec == Init /\ [][Next]_vars

-----------------------------------------------------------------------------
Only(p, names) == [n \in DOMAIN p \intersect names |-> p[n]]

(* The handler gets what the caller passed, except tables without rows,     *)
(* and the caller what the handler returned, except what it may not return; *)
(* whichever way the tables come back, in wider rows or under an id alone,  *)
(* and whatever tags and terminators the values look like.                  *)
RoundTrip ==
  /\ phase \notin {"calling", "called"} =>
       got = Only(params, {f.name : f \in {g \in ToSet(desc) :
                             g.direction # "export"
                               /\ (g.table /\ g.name \in DOMAIN params => params[g.name] # <<>>)}})
  /\ phase = "done" =>
       back = Only(result, {f.name : f \in {g \in ToSet(desc) : g.direction # "import"}})

(* Wherever the gateway cuts, the reader reads to the terminator and no     *)
(* further: what it may leave is the terminator's own closing tag.  It gives *)
(* up on a reply at its cap alone, and only with the terminator unread.     *)
ReadsToTerminator ==
  /\ phase = "raised" => frames = MaxFrames /\ Len(wire) > 1
  /\ phase \in {"joined", "done"} => wire \in {<<>>, <<Terminator>>}

(* Nothing of a reply is left for the next call to read as its own, which is *)
(* what a session is retired for (session.py:446).                          *)
ReadsItsReply == phase = "done" => wire = <<>>
=============================================================================
