--------------------------- MODULE MCFileTransfer ---------------------------
(* Small instances of FileTransfer for TLC. *)
EXTENDS FileTransfer, TLC

CONSTANTS s1, s2

\* The files of two senders, short ones (one of them empty), and that of one.
TwoFiles == (s1 :> 2) @@ (s2 :> 1)
ShortFiles == (s1 :> 1) @@ (s2 :> 0)
OneFile == s1 :> 3

=============================================================================
