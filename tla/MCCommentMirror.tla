---------------------------- MODULE MCCommentMirror ----------------------------
(* A small instance of CommentMirror for TLC. *)
EXTENDS CommentMirror

CONSTANTS note, here, there
=============================================================================
