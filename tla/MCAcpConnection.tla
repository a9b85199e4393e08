--------------------------- MODULE MCAcpConnection ---------------------------
(* Small instances of AcpConnection. *)
EXTENDS AcpConnection

=============================================================================
