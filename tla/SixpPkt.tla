------------------------------ MODULE SixpPkt ------------------------------
(***************************************************************************)
(* The 6P packets of sixp-pkt.c: where each field of a packet lies, what   *)
(* its setter and its getter accept, and how a packet is created and       *)
(* parsed.                                                                 *)
(*                                                                         *)
(* A packet being filled or read is a record: its type, its code (cmd, rc  *)
(* and value are one octet), the storage its body lies in and the length   *)
(* of the body the caller gives. Setters and getters return Fail where   *)
(* the code returns -1.                                                    *)
(***************************************************************************)
EXTENDS Octets

REQUEST == 0
RESPONSE == 1
CONFIRMATION == 2

CMD_ADD == 1
CMD_DELETE == 2
CMD_RELOCATE == 3
CMD_COUNT == 4
CMD_LIST == 5
CMD_SIGNAL == 6
CMD_CLEAR == 7

RC_SUCCESS == 0
RC_EOL == 1
RC_ERRORS == 2..9

CellLen == 4
Absent == 9999        (* the offset of a field a packet does not have      *)

IsRequest(p, cmds) == p.type = REQUEST /\ p.code \in cmds
IsAnswer(p, rcs) == p.type \in {RESPONSE, CONFIRMATION} /\ p.code \in rcs

(* get_..._offset, after the fields of a request: Metadata (2 octets),     *)
(* CellOptions (1), NumCells or Reserved (1), Offset (2), MaxNumCells (2). *)
FieldOffset(f, p) ==
  LET at(o, has) == IF has THEN o ELSE Absent
      adds == {CMD_ADD, CMD_DELETE}
  IN CASE f = "metadata"        -> at(0, p.type = REQUEST)
       [] f = "cell_options"    -> at(2, IsRequest(p, adds \cup {CMD_RELOCATE, CMD_COUNT, CMD_LIST}))
       [] f = "num_cells"       -> at(3, IsRequest(p, adds \cup {CMD_RELOCATE}))
       [] f = "reserved"        -> at(3, IsRequest(p, {CMD_LIST}))
       [] f = "offset"          -> at(4, IsRequest(p, {CMD_LIST}))
       [] f = "max_num_cells"   -> at(6, IsRequest(p, {CMD_LIST}))
       [] f = "cell_list"       -> IF IsRequest(p, adds) THEN 4
                                   ELSE at(0, IsAnswer(p, {RC_SUCCESS, RC_EOL}))
       [] f = "rel_cell_list"   -> at(4, IsRequest(p, {CMD_RELOCATE}))
       [] f = "total_num_cells" -> at(0, p.type = RESPONSE /\ p.code = RC_SUCCESS)
       [] f = "payload"         -> IF IsRequest(p, {CMD_SIGNAL}) THEN 2
                                   ELSE at(0, IsAnswer(p, {RC_SUCCESS}))

Has(f, p) == FieldOffset(f, p) # Absent
Fits(f, p, len) == Has(f, p) /\ p.len >= FieldOffset(f, p) + len
Write(f, p, octets) == Ok([p EXCEPT !.body = Copied(@, FieldOffset(f, p), octets)])
Read(f, p, len) == Ok(Octets(p.body, FieldOffset(f, p), len))
-----------------------------------------------------------------------------
(* Fields of fixed length. The two counts of cells are written without a   *)
(* look at the length of the body, the reserved octet is read without one. *)
set_metadata(p, v) == IF Fits("metadata", p, 2) THEN Write("metadata", p, WRITE16(v)) ELSE Fail
get_metadata(p) == IF Fits("metadata", p, 2) THEN Ok(READ16(p.body, 0)) ELSE Fail

set_cell_options(p, v) == IF Fits("cell_options", p, 1) THEN Write("cell_options", p, <<v>>) ELSE Fail
get_cell_options(p) == IF Fits("cell_options", p, 1) THEN Read("cell_options", p, 1) ELSE Fail

set_num_cells(p, v) == IF Has("num_cells", p) THEN Write("num_cells", p, <<v>>) ELSE Fail
get_num_cells(p) == IF Fits("num_cells", p, 1) THEN Ok(p.body[FieldOffset("num_cells", p) + 1]) ELSE Fail

set_reserved(p, v) == IF Fits("reserved", p, 1) THEN Write("reserved", p, <<v>>) ELSE Fail
get_reserved(p) == IF Has("reserved", p) THEN Read("reserved", p, 1) ELSE Fail

(* 16 bits, little-endian                                                  *)
set_offset(p, v) == IF Fits("offset", p, 2) THEN Write("offset", p, WRITE16(v)) ELSE Fail
get_offset(p) ==
  IF Fits("offset", p, 2) THEN Ok(READ16(p.body, FieldOffset("offset", p))) ELSE Fail

set_max_num_cells(p, v) ==
  IF Fits("max_num_cells", p, 2) THEN Write("max_num_cells", p, WRITE16(v)) ELSE Fail
get_max_num_cells(p) ==
  IF Fits("max_num_cells", p, 2) THEN Ok(READ16(p.body, FieldOffset("max_num_cells", p))) ELSE Fail

set_total_num_cells(p, v) ==
  IF Has("total_num_cells", p) THEN Write("total_num_cells", p, WRITE16(v)) ELSE Fail
get_total_num_cells(p) ==
  IF Fits("total_num_cells", p, 2) THEN Ok(READ16(p.body, 0)) ELSE Fail
-----------------------------------------------------------------------------
(* Lists of cells go in a piece at a time, from the offset given on.       *)
Whole(len) == len % CellLen = 0
Piece(p, f, skip, cells) == Ok([p EXCEPT !.body = Copied(@, FieldOffset(f, p) + skip, cells)])

set_cell_list(p, cells, skip) ==
  IF Fits("cell_list", p, skip + Len(cells)) /\ Whole(Len(cells))
  THEN Piece(p, "cell_list", skip, cells) ELSE Fail
get_cell_list(p) ==
  IF Fits("cell_list", p, 0) /\ Whole(p.len - FieldOffset("cell_list", p))
  THEN Read("cell_list", p, p.len - FieldOffset("cell_list", p)) ELSE Fail

(* RELOCATE has two lists: the one of the cells to give up is NumCells     *)
(* long, the candidates come after it. Both setters read NumCells.         *)
RelLen(p) == CellLen * The(get_num_cells(p))
HasLists(p) == get_num_cells(p) # Fail /\ Has("rel_cell_list", p)

set_rel_cell_list(p, cells, skip) ==
  IF /\ HasLists(p) /\ Fits("rel_cell_list", p, skip + Len(cells))
     /\ Len(cells) <= RelLen(p) /\ Whole(Len(cells))
  THEN Piece(p, "rel_cell_list", skip, cells) ELSE Fail
get_rel_cell_list(p) ==
  IF /\ HasLists(p) /\ Fits("rel_cell_list", p, RelLen(p))
     /\ Whole(p.len - FieldOffset("rel_cell_list", p))
  THEN Read("rel_cell_list", p, RelLen(p)) ELSE Fail

set_cand_cell_list_at_start(p, cells, skip) ==                  \* mutant
  IF HasLists(p) /\ Fits("rel_cell_list", p, skip + Len(cells)) /\ Whole(Len(cells))
  THEN Piece(p, "rel_cell_list", skip, cells) ELSE Fail
set_cand_cell_list(p, cells, skip) ==
  IF /\ HasLists(p) /\ Fits("rel_cell_list", p, RelLen(p) + skip + Len(cells))
     /\ Whole(Len(cells))
  THEN Piece(p, "rel_cell_list", RelLen(p) + skip, cells) ELSE Fail
get_cand_cell_list(p) ==
  IF /\ HasLists(p) /\ Fits("rel_cell_list", p, RelLen(p))
     /\ Whole(p.len - FieldOffset("rel_cell_list", p) - RelLen(p))
  THEN LET at == FieldOffset("rel_cell_list", p) + RelLen(p)
       IN Ok(Octets(p.body, at, p.len - at))
  ELSE Fail

(* The getter copies room octets, the body's and what follows it.          *)
set_payload(p, payload) ==
  IF Fits("payload", p, Len(payload)) THEN Write("payload", p, payload) ELSE Fail
get_payload(p, room) ==
  IF Has("payload", p) /\ p.len - FieldOffset("payload", p) <= room
  THEN LET at == FieldOffset("payload", p)
       IN Ok(Octets(p.body, at, IF at + room > Len(p.body) THEN Len(p.body) - at ELSE room))
  ELSE Fail
-----------------------------------------------------------------------------
(* sixp_pkt_create: a header of four octets and the body. The assertion    *)
(* of the code wants a body exactly when there are octets of it.           *)
create(p, sfid, seqno, hasBody) ==
  IF hasBody = (p.len > 0)
  THEN Ok(<<16 * p.type, p.code, sfid, seqno>> \o Octets(p.body, 0, p.len))
  ELSE Fail

(* sixp_pkt_parse: the lengths of the body it takes                        *)
BodyLenOk(type, code, len) ==
  \/ type = REQUEST /\ \/ code \in {CMD_ADD, CMD_DELETE, CMD_RELOCATE} /\ len >= 4 /\ Whole(len)
                       \/ code = CMD_COUNT /\ len = 3
                       \/ code = CMD_LIST /\ len = 8
                       \/ code = CMD_SIGNAL /\ len >= 2
                       \/ code = CMD_CLEAR /\ len = 2
  \/ type \in {RESPONSE, CONFIRMATION} /\ \/ code = RC_SUCCESS
                                          \/ code = RC_EOL /\ Whole(len)
                                          \/ code \in RC_ERRORS /\ len = 0

parse(buf) ==
  IF Len(buf) < 4 THEN Fail
  ELSE LET type == (buf[1] \div 16) % 4
       IN IF BodyLenOk(type, buf[2], Len(buf) - 4)
          THEN Ok([version |-> buf[1] % 16, type |-> type, code |-> buf[2], sfid |-> buf[3],
                   seqno |-> buf[4], body |-> From(buf, 4), len |-> Len(buf) - 4])
          ELSE Fail
=============================================================================
