----------------------------- MODULE MCMysqlWire -----------------------------
\* MysqlWire for model checking.
EXTENDS MysqlWire
=============================================================================
