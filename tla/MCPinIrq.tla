------------------------------ MODULE MCPinIrq ------------------------------
(* One pin of either kind, as in the passing run of the parts.              *)
EXTENDS PinIrq
=============================================================================
