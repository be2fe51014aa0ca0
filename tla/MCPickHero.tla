----------------------------- MODULE MCPickHero -----------------------------
(* Ids are shortened to a two-digit serial and a two-digit grade.  2112 is  *)
(* the role 2101 upgraded past ten.                                        *)
EXTENDS PickHero

MCHeroes == {2112, 1301}
MCRoles == {2101, 1301, 1401}
=============================================================================
