------------------------------- MODULE MCZns --------------------------------
(* A namespace of two zones without limits, as zns_init_zone_cap leaves    *)
(* it, and namespaces of three zones with fewer open than active zones and *)
(* the other way round.                                                    *)
EXTENDS Zns

Shapes == {<<2, 0, 0>>, <<3, 1, 2>>, <<3, 2, 1>>}
=============================================================================
