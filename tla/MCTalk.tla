------------------------------- MODULE MCTalk -------------------------------
(* A small instance of Talk for TLC. *)
EXTENDS Talk, TLC

CONSTANTS chatchit, chitchat

TheOther == (chatchit :> chitchat) @@ (chitchat :> chatchit)

\* An empty line, one that fills the buffer, and one that does not fit; the other
\* user only listens.
SomeWidths == (chatchit :> {0, 2, 3}) @@ (chitchat :> {})
SomeLines == (chatchit :> 2) @@ (chitchat :> 0)

=============================================================================
