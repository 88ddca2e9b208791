---------------------------- MODULE MCCAMaterial ----------------------------
(* PEM files for checking the CA setters: a CA file with certificate, key *)
(* and DH parameters, one with certificate and key, and files holding a   *)
(* certificate only, a key only and DH parameters only.                   *)
EXTENDS CAMaterial

MCFiles == {"ca1.pem", "ca2.pem", "crt.pem", "key.pem", "dh.pem"}

MCHolds == [f \in MCFiles |->
              CASE f = "ca1.pem" -> {"crt", "key", "dh"}
                [] f = "ca2.pem" -> {"crt", "key"}
                [] f = "crt.pem" -> {"crt"}
                [] f = "key.pem" -> {"key"}
                [] f = "dh.pem" -> {"dh"}]
====
