-------------------------- MODULE MCClusterFormation --------------------------
(***************************************************************************)
(* Small clusters for ClusterFormation.  Types are numbered as in          *)
(* server_conf.xml, raised by 3 because the slave's type is -3.            *)
(***************************************************************************)
EXTENDS ClusterFormation

CONSTANTS gate1, logic1, logic2, slave1

MCNode == {gate1, logic1, logic2}

MCTypeOf == [n \in Node |-> IF n = slave1 THEN 0 ELSE IF n = gate1 THEN 4 ELSE 5]

MCIdOf == [n \in Node |-> IF n = logic2 THEN 2 ELSE 1]

MCExposed == Node \ {slave1}

\* The same nodes and the slave, whose type is hidden: the master keeps it out of
\* _nodes and announces it to nobody.
MCHiddenNode == {logic1, logic2, gate1, slave1}
=============================================================================
