------------------------------ MODULE MCSerial ------------------------------
(* An instance of Serial for TLC: three workers. *)
EXTENDS Serial, TLC

CONSTANTS w1, w2, w3
MCText == w1 :> <<"a", NL>> @@ w2 :> <<"b", NL>> @@ w3 :> <<NL, "c">>
=============================================================================
