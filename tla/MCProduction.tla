----------------------------- MODULE MCProduction ------------------------------
(* Small instances of Production for TLC. *)
EXTENDS Production, TLC

TwoRungs == <<"B2", "B1">>
OneRung == <<"B2">>
NoRung == <<>>
OneLanguage == <<"uk">>
NoLanguage == <<>>

\* No step tells one paragraph from another.
Symmetry == Permutations(Paras)

================================================================================
