---------------------------- MODULE MCQueryBuilder ----------------------------
(* Instances of QueryBuilder for TLC.                                        *)
EXTENDS QueryBuilder

MCParameters == <<"$1", "$2", "$3", "$4">>

MCValues == {<<"?", "'">>, <<Backslash>>, MarkText}

MCFragments ==
  {<<"x">>, <<"?">>, <<"'">>, <<DoubleQuote>>, <<Backquote>>, <<Backslash>>, <<"#">>,
   <<"-", "-", " ">>, <<"-">>, <<"/", "*">>, <<"*", "/">>, <<Newline>>}
===============================================================================
