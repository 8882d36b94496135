----------------------------- MODULE MCPackets -----------------------------
EXTENDS Packets

MCKinds == {<<REQUEST, CMD_ADD>>, <<REQUEST, CMD_RELOCATE>>, <<REQUEST, CMD_COUNT>>,
            <<REQUEST, CMD_LIST>>, <<REQUEST, CMD_SIGNAL>>, <<REQUEST, CMD_CLEAR>>,
            <<RESPONSE, RC_SUCCESS>>, <<RESPONSE, RC_EOL>>, <<RESPONSE, 6>>,
            <<CONFIRMATION, RC_SUCCESS>>}

CellA == <<11, 1, 12, 2>>
CellB == <<0, 248, 201, 126>>

MCValues == [metadata |-> {259}, cell_options |-> {1}, num_cells |-> {1, 2},
             reserved |-> {77}, offset |-> {515}, max_num_cells |-> {1029},
             cell_list |-> {CellA, CellB, CellA \o CellB}, rel_cell_list |-> {CellA, CellB},
             cand_cell_list |-> {CellB, CellB \o CellA}, total_num_cells |-> {258},
             payload |-> {<<0, 248>>, <<9, 8, 7, 6, 5, 4, 3, 2, 1, 0, 255>>}]

MCSeqnos == {0, 255}
MCMacSeqnos == {1, 255}
MCSender == <<1, 2, 3, 4, 5, 6, 7, 8>>
MCReceiver == <<255, 255, 11, 12, 13, 14, 15, 16>>
MCOther == <<21, 22, 23, 24, 25, 26, 27, 28>>
MCPayload == <<96, 0, 201>>

ALink(i) == [timeslot |-> 256 * i + 3, channel_offset |-> 512 + i, options |-> 10 + i]
Slotframe(n) == [handle |-> 7, size |-> 397, links |-> [i \in 1..n |-> ALink(i)]]

MCBeacons ==
  [asn : {<<1, 2, 3, 4, 5>>, <<255, 255, 255, 255, 0>>}, priority : {0, 254}, timeslot : {0, 1},
   timing : {[i \in 1..12 |-> 300 * i + 1]}, hopping : {0, 1},
   list : {<<>>, <<15, 20, 25, 26>>},
   slotframes : {<<>>, <<Slotframe(0)>>, <<Slotframe(1)>>, <<Slotframe(4)>>, <<Slotframe(5)>>}]

MCAnswers == {<<>>, CellA}

MCDrifts == {0-2048, 0-2047, 0-1100, 0-350, 0-1, 0, 1, 350, 1100, 2047}
=============================================================================
