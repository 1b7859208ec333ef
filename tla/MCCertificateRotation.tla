---------------------- MODULE MCCertificateRotation ----------------------
(***************************************************************************)
(* Instances of CertificateRotation for TLC.                               *)
(***************************************************************************)
EXTENDS CertificateRotation
=============================================================================
