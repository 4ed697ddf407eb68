------------------------------ MODULE MCStartUp ------------------------------
(***************************************************************************)
(* A small cluster for StartUp: a gate bound to slave s1, and a logic that *)
(* may get a second process on either slave.                               *)
(***************************************************************************)
EXTENDS StartUp

CONSTANTS gate, logic, s1

MCMin == [t \in Type |-> 1]
MCMax == [t \in Type |-> IF t = logic THEN 2 ELSE 1]
MCRate == [t \in Type |-> 0]
MCForced == [t \in Type |-> IF t = gate THEN s1 ELSE NoSlave]
=============================================================================
