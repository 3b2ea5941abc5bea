--------------------------- MODULE MCCertificates ---------------------------
(* Small instances of Certificates for TLC.                                *)
EXTENDS Certificates

MCServices == {"gateway", "docs"}
MCGateway  == "gateway"
=============================================================================
