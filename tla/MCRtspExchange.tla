----------------------------- MODULE MCRtspExchange -----------------------------
(* Bodies for RtspExchange: none, one that ends a line, and one over the limit.  *)
EXTENDS RtspExchange

SomeBodies == {<<>>, <<"b", "n">>, <<"b", "n", "b">>}
================================================================================
