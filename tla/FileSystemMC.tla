---------------------------- MODULE FileSystemMC ----------------------------
(***************************************************************************)
(* Values for the constants of FileSystem that a .cfg cannot express.      *)
(***************************************************************************)
EXTENDS FileSystem

(* Names shorter than the name field, as users type them. *)
ShortNames == {<<"a">>, <<"b">>}

(* Names that differ only beyond the name field of two. *)
LongNames == {<<"a">>, <<"a", "b">>, <<"a", "b", "c">>}

(* One short text and one that takes most of the small data region. *)
Texts == {<<"x">>, <<"x", "x", "x", "x">>}
=============================================================================
