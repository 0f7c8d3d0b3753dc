--------------------------- MODULE MCGadgetConfig ---------------------------
(***************************************************************************)
(* GadgetRequests for TLC: the vendor configurations validation knows, one *)
(* with its tokens in an order validation does not know, and none.         *)
(***************************************************************************)
EXTENDS GadgetRequests

MCVendor == { <<>>, <<"diag">>, <<"serial_cdev", "diag">>, <<"diag", "serial_cdev">>,
              <<"diag", "serial_cdev", "rmnet_gsi">>, <<"rmnet_gsi", "diag">> }
=============================================================================
