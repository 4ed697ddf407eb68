-------------------------- MODULE MCClusterShutdown --------------------------
(***************************************************************************)
(* A small cluster for ClusterShutdown: one gate, two logics and the slave *)
(* that started them, with the kinds of steps of                           *)
(* src/build/linux/core/server_conf.xml in their order.                    *)
(***************************************************************************)
EXTENDS ClusterShutdown

CONSTANTS gate1, logic1, logic2, slave1, gate, logic, slave

MCNode == {gate1, logic1, logic2, slave1}

MCNodeType == {gate, logic, slave}

MCTypeOf == [n \in MCNode |-> IF n = gate1 THEN gate ELSE IF n = slave1 THEN slave ELSE logic]

MCHome == [n \in MCNode \ {slave1} |-> slave1]

Step(close, all, random) == [close |-> close, all |-> all, random |-> random]

MCSteps == << Step(FALSE, {}, {logic}),
              Step(TRUE, {gate}, {}),
              Step(FALSE, {logic}, {}),
              Step(TRUE, {logic}, {}),
              Step(TRUE, {slave}, {}) >>
=============================================================================
