----------------------------- MODULE MCAcpClient -----------------------------
(* Small instances of AcpServices, and with it of AcpClient. *)
EXTENDS AcpServices

=============================================================================
