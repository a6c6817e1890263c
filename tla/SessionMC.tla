----------------------------- MODULE SessionMC ------------------------------
(***************************************************************************)
(* Values for the constants of Session that a .cfg cannot express.  The    *)
(* name of the home directory is among them, so that it can be removed,    *)
(* and "..", which cd takes for the parent though mkdir accepts it.        *)
(***************************************************************************)
EXTENDS Session

FewNames  == {<<"..">>, <<"chandan">>}
HomeName  == {<<"chandan">>}
TwoTexts  == {<<"x">>, <<"x", "x", "x">>}
OneText   == {<<"x">>}
=============================================================================
