---------------------------- MODULE MCSchemaBuilder ----------------------------
(* Instances of SchemaBuilder for TLC.                                        *)
EXTENDS SchemaBuilder

Part(name, from, to, maxvalue, valid) ==
  [name |-> name, from |-> from, to |-> to, maxvalue |-> maxvalue, valid |-> valid]

\* Two ranges that abut, one that overlaps both, one that is empty, and one with
\* a bad name.
MCDescs == {Part("p0", 0, 1, FALSE, TRUE), Part("p1", 1, 0, TRUE, TRUE),
            Part("both", 0, 2, FALSE, TRUE), Part("none", 1, 1, FALSE, TRUE),
            Part("bad", 1, 2, FALSE, FALSE)}
===============================================================================
