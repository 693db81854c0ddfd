-------------------------- MODULE MCFileAttributes --------------------------
(***************************************************************************)
(* FileAttributes for TLC: an upload with two attributes, and a node that  *)
(* is there already with one.                                              *)
(***************************************************************************)
EXTENDS FileAttributes

AttrOfBoth == {<<"u", 0>>, <<"u", 1>>, <<"w", 0>>}
=============================================================================
