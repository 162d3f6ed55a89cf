----------------------------- MODULE MCH264Parser -----------------------------
(* A stream for H264Parser with a unit that ends in zero, as Annex B allows.  *)
EXTENDS H264Parser

Units(payloads) == {code \o p : code \in {<<0, 0, 1>>, <<0, 0, 0, 1>>}, p \in payloads}

Padded == Units({<<7>>, <<5, 0>>})
================================================================================
