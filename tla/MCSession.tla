----------------------------- MODULE MCSession -----------------------------
(***************************************************************************)
(* Texts on which TLC checks Session: every one of up to four of the usual *)
(* tokens, every one of up to four of all of them with BEGIN as the only   *)
(* word, and three longer ones.                                            *)
(***************************************************************************)
EXTENDS Session

CONSTANTS s1, s2

UsualTokens == Words \cup LineComments \cup {"\n", "/*", "*/"}

LongerTexts ==
    {<<"/*", "/*", "*/", "*/", "BEGIN">>, <<"/*", "/*", "*/", "BEGIN", "*/", "SELECT">>,
     <<"--", "\r", "SELECT", "\n", "BEGIN">>}

SomeTexts ==
    BoundedSeq(UsualTokens, 4) \cup BoundedSeq(Tokens \ {"SELECT", "INSERT"}, 4) \cup LongerTexts
=============================================================================
